--------------------------- MODULE CommandDelivery --------------------------
(***************************************************************************)
(* From AicController.send_command to handle_command on a node.  Each call *)
(* of send_command puts an envelope on the controller's PUSH socket; the   *)
(* command broker publishes it; NodeRunner's command thread receives what  *)
(* its subscription matches, drops what it has seen by idempotency key and *)
(* calls handle_command.  The broker and the nodes may stop at any moment  *)
(* and be started again; what a node has seen is in memory only.           *)
(***************************************************************************)
EXTENDS Naturals, Sequences, SequencesExt

CONSTANTS
  Nodes,        \* nodes with controls: they subscribe to commands
  Sends,        \* calls of send_command, and messages of others, once each
  Addressee,    \* the node_id a command is sent to
  Prefix,       \* <<n, a>>: the decimal form of n begins that of a
  GivenKey,     \* the idempotency_key given to send_command, or NoKey
  Plain,        \* messages without an envelope, from other programs
  Malformed,    \* messages the command thread cannot decode
  MaxPending,   \* NODE_MAX_PENDING_COMMANDS
  SendLimit, ReceiveLimit, \* the queues of the bus
  NoKey, NoMessage

ASSUME DeliveryAssumption ==
  /\ \A n \in Nodes : <<n, n>> \in Prefix
  /\ Plain \subseteq Sends /\ Malformed \subseteq Sends
  /\ MaxPending \in Nat \ {0}
  /\ SendLimit \in Nat \ {0} /\ ReceiveLimit \in Nat \ {0}
  /\ NoMessage \notin Sends

VARIABLES
  outbox, relaying, inbox, joined, brokerUp,  \* the command broker
  phase,  \* where run() of each node is
  hand,   \* the message whose handle_command is running
  seen,   \* seen_idempotency, oldest first
  log,    \* history: what was sent, in order
  life,   \* history: what a node handled since it was started
  handled \* history: the positions in log of all it handled, in order

\* SUBSCRIBE is a prefix filter on "<node_id>;<envelope>".
Matches == {x \in Nodes \X Sends : <<x[1], Addressee[x[2]]>> \in Prefix}

Bus == INSTANCE MessageBus WITH Subscribers <- Nodes, Filter <- Matches

busVars == <<outbox, relaying, inbox, joined, brokerUp>>
nodeVars == <<phase, hand, seen, life, handled>>
deliveryVars == <<busVars, nodeVars, log>>

Init ==
  /\ Bus!BusInit
  /\ phase = [n \in Nodes |-> "off"]
  /\ hand = [n \in Nodes |-> NoMessage]
  /\ seen = [n \in Nodes |-> <<>>]
  /\ log = <<>>
  /\ life = [n \in Nodes |-> <<>>]
  /\ handled = [n \in Nodes |-> <<>>]

-----------------------------------------------------------------------------
(* send_command and the envelope.                                          *)

\* MessageEnvelope.to_dict: without a key the correlation id is the key, and
\* send_command draws a new one for every call.
WireKey(s) ==
  IF s \in Plain THEN NoKey
  ELSE IF GivenKey[s] # NoKey THEN GivenKey[s] ELSE s

\* send_string blocks while the socket has no room.
SendCommand(s) ==
  /\ s \notin ToSet(log)
  /\ Bus!Push(s)
  /\ log' = Append(log, s)
  /\ UNCHANGED nodeVars

-----------------------------------------------------------------------------
(* NodeRunner.                                                             *)

\* run() up to setup(): the node is registered and its listener connected.
StartNode(n) ==
  /\ phase[n] = "off"
  /\ phase' = [phase EXCEPT ![n] = "setup"]
  /\ UNCHANGED <<busVars, hand, seen, life, handled, log>>

Subscribe(n) ==
  /\ phase[n] # "off"
  /\ Bus!Join(n)
  /\ UNCHANGED <<nodeVars, log>>

\* setup() returns and the threads start.
StartThreads(n) ==
  /\ phase[n] = "setup"
  /\ phase' = [phase EXCEPT ![n] = "listening"]
  /\ UNCHANGED <<busVars, hand, seen, life, handled, log>>

\* setup() raises, a signal, or the end of the process at any point of it.
StopNode(n) ==
  /\ phase[n] # "off"
  /\ phase' = [phase EXCEPT ![n] = "off"]
  /\ hand' = [hand EXCEPT ![n] = NoMessage]
  /\ seen' = [seen EXCEPT ![n] = <<>>]
  /\ life' = [life EXCEPT ![n] = <<>>]
  /\ Bus!Leave(n)
  /\ UNCHANGED <<handled, log>>

\* Mutants: the oldest key goes one too early; no key goes.
RememberOneLess(keys, k) ==
  IF Len(keys) + 1 >= MaxPending THEN Tail(Append(keys, k)) ELSE Append(keys, k)
RememberAll(keys, k) == Append(keys, k)

Remember(keys, k) ==
  IF Len(keys) + 1 > MaxPending THEN Tail(Append(keys, k)) ELSE Append(keys, k)

\* recv_string, the test for a key already seen and its entry in the cache.
Receive(n) ==
  LET s == Head(inbox[n])
      k == WireKey(s)
      dropped == s \in Malformed \/ (k # NoKey /\ k \in ToSet(seen[n]))
  IN
  /\ phase[n] = "listening" /\ hand[n] = NoMessage
  /\ Bus!TakeFrom(n)
  /\ hand' = [hand EXCEPT ![n] = IF dropped THEN NoMessage ELSE s]
  /\ seen' = [seen EXCEPT ![n] = IF dropped \/ k = NoKey THEN @ ELSE Remember(@, k)]
  /\ UNCHANGED <<phase, life, handled, log>>

\* handle_command returns or raises; the loop goes on in either case.
HandleCommand(n) ==
  /\ hand[n] # NoMessage
  /\ life' = [life EXCEPT ![n] = Append(@, hand[n])]
  /\ handled' = [handled EXCEPT ![n] = Append(@, CHOOSE i \in DOMAIN log : log[i] = hand[n])]
  /\ hand' = [hand EXCEPT ![n] = NoMessage]
  /\ UNCHANGED <<busVars, phase, seen, log>>

-----------------------------------------------------------------------------
RelayCommand == Bus!BrokerStep /\ UNCHANGED <<nodeVars, log>>
StopBroker == Bus!BrokerCrash /\ UNCHANGED <<nodeVars, log>>
StartBroker == Bus!BrokerRestart /\ UNCHANGED <<nodeVars, log>>

CommandLoop(n) == Receive(n) \/ HandleCommand(n)

Next ==
  \/ \E s \in Sends : SendCommand(s)
  \/ RelayCommand \/ StopBroker \/ StartBroker
  \/ \E n \in Nodes :
       StartNode(n) \/ Subscribe(n) \/ StartThreads(n) \/ StopNode(n) \/ CommandLoop(n)

\* The broker's thread and the command threads run while their processes do;
\* nobody need send, start or stop anything.
DeliverySpec ==
  /\ Init /\ [][Next]_deliveryVars
  /\ WF_deliveryVars(RelayCommand)
  /\ \A n \in Nodes : WF_deliveryVars(CommandLoop(n))

-----------------------------------------------------------------------------
\* The type of every variable; the cache of keys is bounded.
DeliveryTypeOK ==
  /\ Bus!BusTypeOK(Sends)
  /\ phase \in [Nodes -> {"off", "setup", "listening"}]
  /\ hand \in [Nodes -> Sends \cup {NoMessage}]
  /\ seen \in [Nodes -> Seq({WireKey(s) : s \in Sends} \ {NoKey})]
  /\ \A n \in Nodes : Len(seen[n]) <= MaxPending
  /\ log \in Seq(Sends)
  /\ life \in [Nodes -> Seq(Sends)]
  /\ handled \in [Nodes -> Seq(DOMAIN log)]

\* The nodes whose filter lets through what is addressed to them only.  A node
\* whose id begins another's, as 1 begins 10, gets the commands of both, and
\* handle_command is not told the addressee: of these nodes the contract, that
\* commands go to their addressee, does not hold.
Exact == {n \in Nodes : \A s \in Sends : <<n, s>> \in Matches => Addressee[s] = n}

\* Such a node handles the commands addressed to it and no others, in the order
\* in which they were sent and each at most once, through crashes of the broker
\* and of the node itself.
Log == INSTANCE CommandLog WITH
  Nodes <- Exact,
  Commands <- Sends,
  Addressed <- {x \in Nodes \X Sends : Addressee[x[2]] = x[1]},
  handled <- [n \in Exact |-> handled[n]]
ImplementsCommandLog == Log!CommandLogSpec

\* Any node, also one that gets the commands of others, handles what it gets in
\* the order in which it was sent, whoever it was sent to, and nothing twice.
HandledInOrder ==
  \A n \in Nodes : \A i, j \in DOMAIN handled[n] :
    i < j => handled[n][i] < handled[n][j]

\* Between two commands with one key that a node handles without a restart
\* lie at least MaxPending commands with other keys: the cache forgets a key
\* only for MaxPending newer ones.
KeysBetween(h, i, j) == {WireKey(h[m]) : m \in (i + 1)..(j - 1)} \ {NoKey}
AppliedOnce ==
  \A n \in Nodes : \A i, j \in DOMAIN life[n] :
    i < j /\ WireKey(life[n][i]) = WireKey(life[n][j]) /\ WireKey(life[n][i]) # NoKey
      => Cardinality(KeysBetween(life[n], i, j) \ {WireKey(life[n][i])}) >= MaxPending

\* While the broker and a subscribed, listening node stay up and its queue
\* never fills, every command for it that waits on the socket is handled, or one
\* with its key was.
Steady(n) == brokerUp /\ n \in joined /\ phase[n] = "listening" /\ Bus!HasRoom(n)
Answered(n, s) ==
  \E r \in ToSet(life[n]) : r = s \/ (WireKey(s) # NoKey /\ WireKey(r) = WireKey(s))
Delivered ==
  \A n \in Nodes : \A s \in {x \in Sends \ Malformed : Addressee[x] = n} :
    (s \in ToSet(outbox) /\ []Steady(n)) ~> Answered(n, s)
=============================================================================
