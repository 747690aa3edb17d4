------------------------------ MODULE Register ------------------------------
(***************************************************************************)
(* The register of network nodes: one thread answers the requests of nodes,*)
(* another ages a counter of every registered node and unregisters a node  *)
(* whose counter runs out.  Both work on Redis, one command at a time, and *)
(* nothing makes two commands atomic.  A node process registers, publishes *)
(* what it measures and accepts, and then sends a heartbeat every period.  *)
(***************************************************************************)
EXTENDS Integers, Sequences, FiniteSets, SequencesExt

CONSTANTS
  Nodes,        \* node ids
  Controlling,  \* the nodes that have control functions to publish
  Grace,        \* counter of a node that has just registered (9)
  Beat,         \* counter after a heartbeat (3)
  MaxCrashes,   \* bound on the node processes that die
  MaxRestarts   \* bound on the restarts of the register process

ASSUME RegisterAssumption ==
  /\ Nodes \subseteq Nat /\ IsFiniteSet(Nodes) /\ Controlling \subseteq Nodes
  /\ Grace \in Nat /\ Beat \in Nat /\ Beat <= Grace
  /\ MaxCrashes \in Nat /\ MaxRestarts \in Nat

VARIABLES
  members,    \* network_nodes:network_node_list, a Redis set
  counter,    \* network_nodes:network_node_list:<id>, a key per node
  published,  \* network_node_pm_list:<id> and network_node_ctrl_list:<id>
  nodePc,     \* the request a node process waits on, "up" between heartbeats
  inbox,      \* the request of a node that the register has not received
  serverPc,   \* handle_msgs: the Redis command it does next
  serving,    \* the node it is serving, and the request
  checkerPc,  \* check_network_nodes_status: the Redis command it does next
  todo,       \* the nodes left in this pass of the checker
  aged,       \* the counter it read, minus one
  crashes, restarts

redis == <<members, counter, published>>
node == <<nodePc, inbox>>
server == <<serverPc, serving>>
checker == <<checkerPc, todo, aged>>
bounds == <<crashes, restarts>>
registerVars == <<redis, node, server, checker, bounds>>

Requests == {"register", "pms", "ctrls", "alive"}
Nobody == <<>>
Member(n) == n \in members
Monitored(n) == n \in DOMAIN counter
Erase(f, n) == [m \in DOMAIN f \ {n} |-> f[m]]
Put(f, n, v) == [m \in DOMAIN f \cup {n} |-> IF m = n THEN v ELSE f[m]]

Init ==
  /\ members = {} /\ counter = <<>> /\ published = {}
  /\ nodePc = [n \in Nodes |-> "off"]
  /\ inbox = [n \in Nodes |-> "none"]
  /\ serverPc = "recv" /\ serving = Nobody
  /\ checkerPc = "list" /\ todo = <<>> /\ aged = 0
  /\ crashes = 0 /\ restarts = 0

-----------------------------------------------------------------------------
(* Node processes.  A request is a REQ socket's: the node blocks until the *)
(* reply, for which it sets no timeout.                                    *)

\* A process starts once nothing is left of what an earlier one had sent.
Start(n) ==
  /\ nodePc[n] = "off" /\ inbox[n] = "none" /\ ~\E op \in Requests : serving = <<n, op>>
  /\ nodePc' = [nodePc EXCEPT ![n] = "register"]
  /\ inbox' = [inbox EXCEPT ![n] = "register"]
  /\ UNCHANGED <<redis, server, checker, bounds>>

\* What the process had sent is served all the same.
Crash(n) ==
  /\ nodePc[n] # "off" /\ crashes < MaxCrashes
  /\ crashes' = crashes + 1
  /\ nodePc' = [nodePc EXCEPT ![n] = "off"]
  /\ UNCHANGED <<redis, inbox, server, checker, restarts>>

\* The next request after an answer; an error ends a process that is starting
\* and is not looked at in the answer to a heartbeat.
NextRequest(n, op) ==
  CASE op = "register" -> "pms"
    [] op = "pms" -> IF n \in Controlling THEN "ctrls" ELSE "up"
    [] op \in {"ctrls", "alive"} -> "up"
AfterReply(n, op, ok) ==
  IF ok \/ op = "alive" THEN NextRequest(n, op) ELSE "off"

\* Two seconds go by: sleep(2) of the checker ends and alive_interval of every
\* node that is up.  A heartbeat is assumed to be answered in less than that.
Tick ==
  /\ \A n \in Nodes : inbox[n] # "alive" /\ serving # <<n, "alive">>
  /\ checkerPc' = IF checkerPc = "sleep" THEN "list" ELSE checkerPc
  /\ nodePc' = [n \in Nodes |-> IF nodePc[n] = "up" THEN "alive" ELSE nodePc[n]]
  /\ inbox' = [n \in Nodes |-> IF nodePc[n] = "up" THEN "alive" ELSE inbox[n]]
  /\ UNCHANGED <<redis, server, todo, aged, bounds>>

-----------------------------------------------------------------------------
(* handle_msgs, a request at a time, a Redis command at a time.            *)

\* The answer reaches the process that asked unless it has died.
Reply(n, op, ok) ==
  LET here == nodePc[n] = op
      next == AfterReply(n, op, ok) IN
  /\ serverPc' = "recv" /\ serving' = Nobody
  /\ nodePc' = [nodePc EXCEPT ![n] = IF here THEN next ELSE @]
  /\ inbox' = [inbox EXCEPT ![n] = IF here /\ next \in Requests THEN next ELSE "none"]

\* recv() and the check every handler begins with.
Accepted(n, op) ==
  CASE op = "register" -> ~Member(n)
    [] op \in {"pms", "ctrls"} -> Member(n)
    [] op = "alive" -> Monitored(n)
FirstCommand(op) ==
  CASE op = "register" -> "sadd"
    [] op \in {"pms", "ctrls"} -> "publish"
    [] op = "alive" -> "get"

\* Mutant: a register request that is refused refreshes the counter.
ServeRequestRefreshing(n) ==
  /\ serverPc = "recv" /\ inbox[n] # "none"
  /\ LET op == inbox[n] IN
     \/ /\ Accepted(n, op)
        /\ serverPc' = FirstCommand(op) /\ serving' = <<n, op>>
        /\ inbox' = [inbox EXCEPT ![n] = "none"]
        /\ UNCHANGED <<counter, nodePc>>
     \/ /\ ~Accepted(n, op) /\ Reply(n, op, FALSE)
        /\ counter' = IF op = "register" THEN Put(counter, n, Grace) ELSE counter
  /\ UNCHANGED <<members, published, checker, bounds>>

ServeRequest(n) ==
  /\ serverPc = "recv" /\ inbox[n] # "none"
  /\ LET op == inbox[n] IN
     \/ /\ Accepted(n, op)
        /\ serverPc' = FirstCommand(op) /\ serving' = <<n, op>>
        /\ inbox' = [inbox EXCEPT ![n] = "none"]
        /\ UNCHANGED nodePc
     \/ ~Accepted(n, op) /\ Reply(n, op, FALSE)
  /\ UNCHANGED <<redis, checker, bounds>>

AddMember ==
  /\ serverPc = "sadd"
  /\ members' = members \cup {serving[1]}
  /\ serverPc' = "set"
  /\ UNCHANGED <<counter, published, node, serving, checker, bounds>>

SetCounter ==
  /\ serverPc = "set"
  /\ counter' = Put(counter, serving[1], Grace)
  /\ Reply(serving[1], "register", TRUE)
  /\ UNCHANGED <<members, published, checker, bounds>>

Publish ==
  /\ serverPc = "publish"
  /\ published' = published \cup {serving}
  /\ Reply(serving[1], serving[2], TRUE)
  /\ UNCHANGED <<members, counter, checker, bounds>>

\* get() of a key deleted since exists(): int(None) raises.
ReadCounter ==
  /\ serverPc = "get"
  /\ IF Monitored(serving[1])
     THEN serverPc' = "put" /\ UNCHANGED <<serving, node>>
     ELSE Reply(serving[1], "alive", FALSE)
  /\ UNCHANGED <<redis, checker, bounds>>

PutCounter ==
  /\ serverPc = "put"
  /\ counter' = Put(counter, serving[1], Beat)
  /\ Reply(serving[1], "alive", TRUE)
  /\ UNCHANGED <<members, published, checker, bounds>>

-----------------------------------------------------------------------------
(* check_network_nodes_status.  An exception ends the pass and the next one*)
(* begins at once: sleep(2) is inside the try block.                       *)

\* list(smembers(...)): redis-py makes a Python set of the members, which has no
\* order of its own.
ListNodes ==
  /\ checkerPc = "list"
  /\ todo' \in SetToSeqs(members)
  /\ checkerPc' = "exists"
  /\ UNCHANGED <<redis, node, server, aged, bounds>>

CheckExists ==
  /\ checkerPc = "exists"
  /\ IF todo = <<>> THEN checkerPc' = "sleep" /\ UNCHANGED todo
     ELSE IF Monitored(Head(todo)) THEN checkerPc' = "get" /\ UNCHANGED todo
     ELSE checkerPc' = "list" /\ todo' = <<>>
  /\ UNCHANGED <<redis, node, server, aged, bounds>>

\* Mutant: a counter that has run out is not noticed.
ReadAgeUnchecked ==
  /\ checkerPc = "get"
  /\ aged' = counter[Head(todo)] - 1
  /\ checkerPc' = "set"
  /\ UNCHANGED <<redis, node, server, todo, bounds>>

\* The key is there: only this thread deletes keys.
ReadAge ==
  /\ checkerPc = "get"
  /\ aged' = counter[Head(todo)] - 1
  /\ checkerPc' = IF aged' < 0 THEN "delete" ELSE "set"
  /\ UNCHANGED <<redis, node, server, todo, bounds>>

\* Mutant: the counter is written back as it was read.
WriteAgeKept ==
  /\ checkerPc = "set"
  /\ counter' = Put(counter, Head(todo), aged + 1)
  /\ checkerPc' = "exists" /\ todo' = Tail(todo) /\ aged' = 0
  /\ UNCHANGED <<members, published, node, server, bounds>>

WriteAge ==
  /\ checkerPc = "set"
  /\ counter' = Put(counter, Head(todo), aged)
  /\ checkerPc' = "exists" /\ todo' = Tail(todo) /\ aged' = 0
  /\ UNCHANGED <<members, published, node, server, bounds>>

DeleteCounter ==
  /\ checkerPc = "delete"
  /\ counter' = Erase(counter, Head(todo))
  /\ checkerPc' = "srem"
  /\ UNCHANGED <<members, published, node, server, todo, aged, bounds>>

\* Mutant: the exception is raised before srem.
RemoveMemberSkipped ==
  /\ checkerPc = "srem"
  /\ checkerPc' = "list" /\ todo' = <<>> /\ aged' = 0
  /\ UNCHANGED <<redis, node, server, bounds>>

RemoveMember ==
  /\ checkerPc = "srem"
  /\ members' = members \ {Head(todo)}
  /\ checkerPc' = "list" /\ todo' = <<>> /\ aged' = 0
  /\ UNCHANGED <<counter, published, node, server, bounds>>

-----------------------------------------------------------------------------
\* The register process dies and is started again; Redis keeps its state.
\* The request it was serving is lost, and so may be those it had received.
\* The nodes that sent them wait for ever.
Restart ==
  /\ restarts < MaxRestarts
  /\ restarts' = restarts + 1
  /\ \E lost \in SUBSET Nodes :
       inbox' = [n \in Nodes |-> IF n \in lost THEN "none" ELSE inbox[n]]
  /\ serverPc' = "recv" /\ serving' = Nobody
  /\ checkerPc' = "list" /\ todo' = <<>> /\ aged' = 0
  /\ UNCHANGED <<redis, nodePc, crashes>>

ServerStep ==
  \/ \E n \in Nodes : ServeRequest(n)
  \/ AddMember \/ SetCounter \/ Publish \/ ReadCounter \/ PutCounter
CheckerStep ==
  \/ ListNodes \/ CheckExists \/ ReadAge \/ WriteAge \/ DeleteCounter
  \/ RemoveMember

Next ==
  \/ \E n \in Nodes : Start(n) \/ Crash(n)
  \/ Tick \/ ServerStep \/ CheckerStep \/ Restart

\* Both threads of the register run, time goes by, and a REP socket takes
\* requests from its peers in turn.  No process need start, die or be restarted.
RegisterSpec ==
  /\ Init /\ [][Next]_registerVars
  /\ WF_registerVars(ServerStep)
  /\ WF_registerVars(CheckerStep)
  /\ WF_registerVars(Tick)
  /\ \A n \in Nodes : SF_registerVars(ServeRequest(n))

-----------------------------------------------------------------------------
\* The type of every variable.
RegisterTypeOK ==
  /\ members \subseteq Nodes
  /\ DOMAIN counter \subseteq Nodes
  /\ \A n \in DOMAIN counter : counter[n] \in 0..Grace
  /\ published \subseteq Nodes \X {"pms", "ctrls"}
  /\ nodePc \in [Nodes -> Requests \cup {"off", "up"}]
  /\ inbox \in [Nodes -> Requests \cup {"none"}]
  /\ serverPc \in {"recv", "sadd", "set", "publish", "get", "put"}
  /\ serverPc = "recv" => serving = Nobody
  /\ serverPc # "recv" => serving \in Nodes \X Requests
  /\ checkerPc \in {"sleep", "list", "exists", "get", "set", "delete", "srem"}
  /\ todo \in Seq(Nodes)
  /\ aged \in -1..Grace
  /\ crashes \in 0..MaxCrashes /\ restarts \in 0..MaxRestarts

\* While the register has not been restarted, a registered node without a
\* counter, which nothing would ever unregister, is one that a thread has
\* between its two writes.
MembersMonitored ==
  restarts = 0 =>
    \A n \in members :
      \/ Monitored(n)
      \/ serverPc = "set" /\ serving[1] = n
      \/ checkerPc = "srem" /\ Head(todo) = n

\* A node that stays dead is unregistered for good.
DeadNodeRemoved ==
  [](restarts = 0) =>
    \A n \in Nodes : <>[](nodePc[n] = "off") => <>[](n \notin members)

\* A node that keeps trying to come back is registered again.
RestartedNodeGetsIn ==
  [](restarts = 0) =>
    \A n \in Nodes : []<>(nodePc[n] = "register") => []<>(nodePc[n] = "pms")
=============================================================================
