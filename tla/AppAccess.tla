------------------------------ MODULE AppAccess ------------------------------
(***************************************************************************)
(* How applications get access to nodes.  A controller registers its       *)
(* applications one after another with the register; a second request per  *)
(* application names nodes, measurements and controls, which the register  *)
(* checks against Redis and then stores.  The template generator reads the *)
(* same keys and writes an application and a stack of containers for it.   *)
(* Nodes come and publish by requests to the same thread of the register,  *)
(* and its other thread removes them at any time; Register models both in  *)
(* detail.                                                                 *)
(***************************************************************************)
EXTENDS Naturals, Sequences, FiniteSets

CONSTANTS
  Nodes,        \* node ids
  Offers,       \* [kind -> names] of a node
  Services,     \* the nodes in NODE_SERVICE_MAP
  Controllers,  \* controller processes
  AppsOf,       \* the applications of one, in the order of AicManager.aic_apps
  Template,     \* the generated application
  Written,      \* what the other applications declare: [nodes, caps]
  MaxKills,     \* bound on the controllers that are killed
  MaxRestarts,  \* bound on the restarts of the register process
  MaxLeaves     \* bound on the nodes that are removed

Kinds == {"pm", "ctrl"}
Apps == UNION {{AppsOf[c][i] : i \in DOMAIN AppsOf[c]} : c \in Controllers}
CapsOf(n, k) == {<<n, k, x>> : x \in Offers[n][k]}
Caps == UNION {CapsOf(n, k) : n \in Nodes, k \in Kinds}
Wants == [nodes : SUBSET Nodes, caps : SUBSET Caps]

ASSUME AccessAssumption ==
  /\ Nodes \subseteq Nat /\ Services \subseteq Nodes
  /\ \A c \in Controllers : AppsOf[c] \in Seq(Apps) /\ AppsOf[c] # <<>>
  /\ \A a \in Apps \ {Template} : Written[a] \in Wants
  /\ MaxKills \in Nat /\ MaxRestarts \in Nat /\ MaxLeaves \in Nat

VARIABLES
  stack,       \* the nodes the running stack of containers has
  members,     \* network_nodes:network_node_list
  published,   \* <<node, kind>>: network_node_pm_list:<id>, ..._ctrl_list:<id>
  registered,  \* ai_apps:ai_apps_list
  granted,     \* ai_apps:ai_apps_info_list:<id>, what was stored for an app
  serverPc, serving, todo,  \* handle_msgs: next Redis command, request, nodes left
  pc, at, inbox,            \* the controllers, the app in hand, their requests
  genPc, genTodo, genNodes, genCaps,  \* the generator
  template,    \* read_measurements and control_functions of the generated app
  met,         \* history: members when the request being served was received
  left,        \* history: nodes removed since the generator listed them, or, in
               \* the generated stack, not (again) there with all they offer
  kills, restarts, leaves

redis == <<members, published, registered, granted>>
server == <<serverPc, serving, todo, met>>
client == <<pc, at, inbox>>
generator == <<genPc, genTodo, genNodes, genCaps, template>>
bounds == <<kills, restarts, leaves>>
accessVars == <<stack, redis, server, client, generator, left, bounds>>

Nobody == <<>>
Nothing == [nodes |-> {}, caps |-> {}]
AppOf(c) == AppsOf[c][at[c]]
WantOf(a) == IF a = Template THEN template ELSE Written[a]
Available == UNION {CapsOf(x[1], x[2]) : x \in published}

Init ==
  /\ stack = Nodes
  /\ members = {} /\ published = {} /\ registered = {} /\ granted = <<>>
  /\ serverPc = "recv" /\ serving = Nobody /\ todo = {} /\ met = {}
  /\ pc = [c \in Controllers |-> "off"] /\ at = [c \in Controllers |-> 1]
  /\ inbox = [c \in Controllers |-> "none"]
  /\ genPc = "off" /\ genTodo = {} /\ genNodes = {} /\ genCaps = {}
  /\ template = Nothing /\ left = {}
  /\ kills = 0 /\ restarts = 0 /\ leaves = 0

-----------------------------------------------------------------------------
(* Nodes.  Their requests are served by the thread that serves the         *)
(* controllers, between two requests of these.                             *)

\* History: what makes a node of the generated stack complete.
Complete(n, ms, ps) == n \in ms /\ \A k \in Kinds : Offers[n][k] # {} => <<n, k>> \in ps
NoteReturn(n) ==
  left' = IF genPc = "switched" /\ Complete(n, members', published') THEN left \ {n} ELSE left

\* Mutant: another thread serves the nodes.
RegisterNodeAside(n) ==
  /\ n \in stack \ members
  /\ members' = members \cup {n}
  /\ UNCHANGED <<published, leaves>>
  /\ NoteReturn(n)

RegisterNode(n) ==
  /\ serverPc = "recv" /\ n \in stack \ members
  /\ members' = members \cup {n}
  /\ UNCHANGED <<published, leaves>>
  /\ NoteReturn(n)

\* pm_availability and then ctrl_availability, if the node has controls.
PublishNode(n, k) ==
  /\ serverPc = "recv" /\ n \in members
  /\ Offers[n][k] # {} /\ <<n, k>> \notin published
  /\ k = "ctrl" => <<n, "pm">> \in published
  /\ published' = published \cup {<<n, k>>}
  /\ UNCHANGED <<members, leaves>>
  /\ NoteReturn(n)

\* check_if_network_node_is_alive; what the node published stays.
RemoveNode(n) ==
  /\ n \in members /\ leaves < MaxLeaves
  /\ members' = members \ {n}
  /\ left' = left \cup {n}
  /\ leaves' = leaves + 1
  /\ UNCHANGED published

NodeStep ==
  /\ \E n \in Nodes :
       RegisterNode(n) \/ (\E k \in Kinds : PublishNode(n, k)) \/ RemoveNode(n)
  /\ UNCHANGED <<stack, registered, granted, server, client, generator, kills, restarts>>

-----------------------------------------------------------------------------
(* RegisterAicApp, on one REQ socket per controller, without a timeout.    *)

\* A new process starts once nothing is left of what an earlier one had sent.
StartController(c) ==
  /\ pc[c] = "off" /\ inbox[c] = "none" /\ (serving # Nobody => serving[1] # c)
  /\ (\E i \in DOMAIN AppsOf[c] : AppsOf[c][i] = Template) => genPc \in {"done", "switched"}
  /\ pc' = [pc EXCEPT ![c] = "register"]
  /\ at' = [at EXCEPT ![c] = 1]
  /\ inbox' = [inbox EXCEPT ![c] = "register"]
  /\ UNCHANGED <<stack, redis, server, generator, left, bounds>>

\* The register serves what the process has sent all the same.
KillController(c) ==
  /\ pc[c] # "off" /\ kills < MaxKills
  /\ pc' = [pc EXCEPT ![c] = "off"]
  /\ kills' = kills + 1
  /\ UNCHANGED <<stack, redis, server, at, inbox, generator, left, restarts, leaves>>

\* What register_aic_app does with an answer: an error ends the process, and
\* after the last application the controller connects to the broker.
AfterReply(c, ok) ==
  CASE ~ok -> "off"
    [] ok /\ pc[c] = "register" -> "request"
    [] ok /\ pc[c] = "request" /\ at[c] < Len(AppsOf[c]) -> "register"
    [] OTHER -> "up"

Reply(c, ok) ==
  LET here == pc[c] = serving[2]
      next == AfterReply(c, ok) IN
  /\ serverPc' = "recv" /\ serving' = Nobody /\ todo' = {} /\ met' = {}
  /\ IF here
     THEN /\ pc' = [pc EXCEPT ![c] = next]
          /\ at' = [at EXCEPT ![c] = IF pc[c] = "request" /\ next = "register" THEN @ + 1 ELSE @]
          /\ inbox' = [inbox EXCEPT ![c] = IF next \in {"register", "request"} THEN next ELSE "none"]
     ELSE UNCHANGED client

-----------------------------------------------------------------------------
(* handle_ai_app_msg, a Redis command at a time.                           *)

ReceiveRequest(c) ==
  /\ serverPc = "recv" /\ inbox[c] # "none"
  /\ serving' = <<c, inbox[c]>>
  /\ inbox' = [inbox EXCEPT ![c] = "none"]
  /\ serverPc' = IF inbox[c] = "register" THEN "add" ELSE "app"
  /\ met' = members
  /\ UNCHANGED <<todo, pc, at, registered, granted>>

App == AppOf(serving[1])

\* Mutant: an application that is registered is refused, as a node is.
RegisterAiAppOnce ==
  /\ serverPc = "add"
  /\ registered' = registered \cup {App}
  /\ Reply(serving[1], App \notin registered)
  /\ UNCHANGED granted

\* register_ai_app: one that is registered already is told so.
RegisterAiApp ==
  /\ serverPc = "add"
  /\ registered' = registered \cup {App}
  /\ Reply(serving[1], TRUE)
  /\ UNCHANGED granted

\* register_ai_app_actions: is the application registered?
CheckApp ==
  /\ serverPc = "app"
  /\ IF App \in registered
     THEN /\ serverPc' = "nodes" /\ todo' = WantOf(App).nodes
          /\ UNCHANGED <<serving, met, client>>
     ELSE Reply(serving[1], FALSE)
  /\ UNCHANGED <<registered, granted>>

\* Is each node registered?  One look after another.
CheckNode ==
  /\ serverPc = "nodes"
  /\ \/ \E n \in todo :
          IF n \in members
          THEN todo' = todo \ {n} /\ UNCHANGED <<serverPc, serving, met, client>>
          ELSE Reply(serving[1], FALSE)
     \/ todo = {} /\ serverPc' = "caps" /\ UNCHANGED <<serving, todo, met, client>>
  /\ UNCHANGED <<registered, granted>>

\* Mutant: the legacy form, in which every node has to have each of them.
CheckCapsOfAll ==
  LET want == WantOf(App)
      has(n, x) == \E y \in Available : y[1] = n /\ y[3] = x[3] IN
  /\ serverPc = "caps"
  /\ IF \A x \in want.caps : \A n \in want.nodes : has(n, x)
     THEN serverPc' = "store" /\ UNCHANGED <<serving, todo, met, client>>
     ELSE Reply(serving[1], FALSE)
  /\ UNCHANGED <<registered, granted>>

\* Has each node published what is asked of it?  All looks at once: while a
\* request is served nothing is published, and nothing ever withdrawn.
CheckCaps ==
  /\ serverPc = "caps"
  /\ IF /\ {x[1] : x \in WantOf(App).caps} \subseteq WantOf(App).nodes
        /\ WantOf(App).caps \subseteq Available
     THEN serverPc' = "store" /\ UNCHANGED <<serving, todo, met, client>>
     ELSE Reply(serving[1], FALSE)
  /\ UNCHANGED <<registered, granted>>

StoreActions ==
  /\ serverPc = "store"
  /\ granted' = [a \in DOMAIN granted \cup {App} |->
                   IF a = App THEN WantOf(App) ELSE granted[a]]
  /\ Reply(serving[1], TRUE)
  /\ UNCHANGED registered

Serve == RegisterAiApp \/ CheckApp \/ CheckNode \/ CheckCaps \/ StoreActions
Elsewhere == <<stack, members, published, generator, left, bounds>>
ServerStep == (Serve \/ \E c \in Controllers : ReceiveRequest(c)) /\ UNCHANGED Elsewhere

\* The register dies and is started again: what it had received is lost, and
\* who sent it waits for ever.
RestartRegister ==
  /\ restarts < MaxRestarts
  /\ restarts' = restarts + 1
  /\ serverPc' = "recv" /\ serving' = Nobody /\ todo' = {} /\ met' = {}
  /\ \E lost \in SUBSET Controllers :
       inbox' = [c \in Controllers |-> IF c \in lost THEN "none" ELSE inbox[c]]
  /\ UNCHANGED <<stack, redis, pc, at, generator, left, kills, leaves>>

-----------------------------------------------------------------------------
(* generate_template_app.py, a process of its own that reads Redis.        *)

\* Without nodes it ends with an error.
ListForTemplate ==
  /\ genPc = "off"
  /\ members # {}
  /\ genNodes' = members /\ genTodo' = members \X Kinds /\ genCaps' = {}
  /\ left' = {}
  /\ genPc' = "collect"
  /\ UNCHANGED template

\* The nodes in ascending order, of each the measurements and the controls.
First(x, y) == x[1] < y[1] \/ (x[1] = y[1] /\ (x[2] = "pm" \/ y[2] = "ctrl"))
CollectCaps ==
  /\ genPc = "collect" /\ genTodo # {}
  /\ LET x == CHOOSE y \in genTodo : \A z \in genTodo : First(y, z) IN
     /\ genCaps' = IF x \in published THEN genCaps \cup CapsOf(x[1], x[2]) ELSE genCaps
     /\ genTodo' = genTodo \ {x}
  /\ UNCHANGED <<genPc, genNodes, template, left>>

\* _render_aic_app: nodes that have published nothing yet do not appear.
WriteTemplate ==
  /\ genPc = "collect" /\ genTodo = {}
  /\ template' = [nodes |-> {x[1] : x \in genCaps}, caps |-> genCaps]
  /\ genPc' = "done"
  /\ UNCHANGED <<genTodo, genNodes, genCaps, left>>

Generate ==
  /\ ListForTemplate \/ CollectCaps \/ WriteTemplate
  /\ UNCHANGED <<stack, redis, server, client, bounds>>

\* _render_docker_compose: the nodes of the generated stack.
ComposeNodes == genNodes \cap Services

\* Mutant: Redis has a volume.
SwitchStackKept ==
  /\ genPc = "done"
  /\ genPc' = "switched"
  /\ stack' = ComposeNodes
  /\ left' = Nodes
  /\ serverPc' = "recv" /\ serving' = Nobody /\ todo' = {} /\ met' = {}
  /\ pc' = [c \in Controllers |-> "off"] /\ at' = [c \in Controllers |-> 1]
  /\ inbox' = [c \in Controllers |-> "none"]
  /\ UNCHANGED <<redis, genTodo, genNodes, genCaps, template, bounds>>

\* docker compose down, and up with the generated file.  Redis keeps nothing.
SwitchStack ==
  /\ genPc = "done"
  /\ genPc' = "switched"
  /\ stack' = ComposeNodes
  /\ members' = {} /\ published' = {} /\ registered' = {} /\ granted' = <<>>
  /\ left' = Nodes
  /\ serverPc' = "recv" /\ serving' = Nobody /\ todo' = {} /\ met' = {}
  /\ pc' = [c \in Controllers |-> "off"] /\ at' = [c \in Controllers |-> 1]
  /\ inbox' = [c \in Controllers |-> "none"]
  /\ UNCHANGED <<genTodo, genNodes, genCaps, template, bounds>>

Next ==
  \/ NodeStep \/ ServerStep \/ RestartRegister
  \/ \E c \in Controllers : StartController(c) \/ KillController(c)
  \/ Generate \/ SwitchStack

\* The register's thread runs and its socket takes requests from all in turn.
AccessSpec ==
  /\ Init /\ [][Next]_accessVars
  /\ WF_accessVars(ServerStep)
  /\ \A c \in Controllers : SF_accessVars(ReceiveRequest(c) /\ UNCHANGED Elsewhere)

-----------------------------------------------------------------------------
\* The type of every variable.
AccessTypeOK ==
  /\ stack \subseteq Nodes /\ members \subseteq stack
  /\ published \subseteq stack \X Kinds
  /\ registered \subseteq Apps
  /\ DOMAIN granted \subseteq registered /\ \A a \in DOMAIN granted : granted[a] \in Wants
  /\ serverPc \in {"recv", "add", "app", "nodes", "caps", "store"}
  /\ serverPc = "recv" <=> serving = Nobody
  /\ serving # Nobody => serving \in Controllers \X {"register", "request"}
  /\ todo \subseteq Nodes /\ met \subseteq Nodes /\ left \subseteq Nodes
  /\ pc \in [Controllers -> {"off", "register", "request", "up"}]
  /\ at \in [Controllers -> Nat] /\ \A c \in Controllers : at[c] \in DOMAIN AppsOf[c]
  /\ inbox \in [Controllers -> {"none", "register", "request"}]
  /\ genPc \in {"off", "collect", "done", "switched"}
  /\ genTodo \subseteq Nodes \X Kinds /\ genNodes \subseteq Nodes /\ genCaps \subseteq Caps
  /\ template \in Wants
  /\ kills \in 0..MaxKills /\ restarts \in 0..MaxRestarts /\ leaves \in 0..MaxLeaves

\* An application is granted only nodes that were all registered at one
\* moment, though the register looks for one after another while its other
\* thread removes some, and only what these have published.
GrantedTogether ==
  [][\A a \in DOMAIN granted' :
       (a \notin DOMAIN granted \/ granted'[a] # granted[a]) =>
          granted'[a].nodes \subseteq met /\ granted'[a].caps \subseteq Available]_accessVars

\* An application as the generator wrote it is refused only if one of its nodes
\* has been removed since the generator listed it, or, in the generated stack,
\* is not there again with all it offers: whatever the generator read of nodes
\* that were still publishing, the register finds it all, and finds it again
\* once the nodes are back.
Refused(c) == serverPc # "recv" /\ serving[1] = c /\ pc[c] = "request" /\ pc'[c] = "off"
CollectedGetsIn ==
  [][\A c \in Controllers :
       Refused(c) /\ kills' = kills /\ genPc' = genPc /\ AppOf(c) = Template
         => template.nodes \cap left # {}]_accessVars

\* A controller that is started again whenever it ends comes up, if its nodes
\* are and stay registered from some time on and have published: what an
\* earlier start of it, which may have been killed or refused half-way, has
\* left in Redis does not stop it.
Ready(c) ==
  \A i \in DOMAIN AppsOf[c] :
    LET want == WantOf(AppsOf[c][i]) IN
    want.nodes \subseteq members /\ want.caps \subseteq Available
StartsAgain ==
  [](restarts = 0) =>
    \A c \in Controllers : <>[]Ready(c) /\ []<>(pc[c] # "off") => <>(pc[c] = "up")
=============================================================================
