----------------------------- MODULE MessageBus -----------------------------
(***************************************************************************)
(* One direction of node_msg_broker: senders PUSH to the broker, whose     *)
(* thread receives on a PULL socket and publishes on a PUB socket, and     *)
(* each subscriber has a queue of what matched its subscription.  The      *)
(* command broker and the measurement broker are the same loop on other    *)
(* ports.  ZeroMQ's part: PUSH blocks when SendLimit messages wait, PUB    *)
(* drops what a subscriber has no room for or has not subscribed to, and a *)
(* broker that dies takes what it holds along.                             *)
(***************************************************************************)
EXTENDS Naturals, Sequences

CONSTANTS
  Subscribers,      \* those that may subscribe
  Filter,           \* <<s, m>>: the topic of m begins with what s subscribes to
  SendLimit,        \* SNDHWM of the PUSH socket
  ReceiveLimit,     \* RCVHWM of a subscriber
  NoMessage         \* the broker thread holds no message

VARIABLES
  outbox,    \* pushed and not yet received by the broker thread
  relaying,  \* received and not yet published
  inbox,     \* published to a subscriber and not yet received by it
  joined,    \* subscribers whose subscription has reached the broker
  brokerUp   \* the broker process runs

busVars == <<outbox, relaying, inbox, joined, brokerUp>>

BusInit ==
  /\ outbox = <<>>
  /\ relaying = NoMessage
  /\ inbox = [s \in Subscribers |-> <<>>]
  /\ joined = {}
  /\ brokerUp = TRUE

Push(m) ==
  /\ Len(outbox) < SendLimit
  /\ outbox' = Append(outbox, m)
  /\ UNCHANGED <<relaying, inbox, joined, brokerUp>>

BrokerReceive ==
  /\ brokerUp /\ relaying = NoMessage
  /\ outbox # <<>>
  /\ relaying' = Head(outbox)
  /\ outbox' = Tail(outbox)
  /\ UNCHANGED <<inbox, joined, brokerUp>>

Gets(s, m) == s \in joined /\ <<s, m>> \in Filter
HasRoom(s) == Len(inbox[s]) < ReceiveLimit

\* Mutants: the message is published once more; a subscriber without room
\* keeps it from the others.
BrokerPublishAgain ==
  /\ brokerUp /\ relaying # NoMessage
  /\ inbox' = [s \in Subscribers |->
                 IF Gets(s, relaying) /\ HasRoom(s)
                 THEN Append(inbox[s], relaying) ELSE inbox[s]]
  /\ relaying' \in {relaying, NoMessage}
  /\ UNCHANGED <<outbox, joined, brokerUp>>
BrokerPublishToAll ==
  /\ brokerUp /\ relaying # NoMessage
  /\ LET to == {s \in Subscribers : Gets(s, relaying)} IN
     inbox' = [s \in Subscribers |->
                 IF s \in to /\ \A r \in to : HasRoom(r)
                 THEN Append(inbox[s], relaying) ELSE inbox[s]]
  /\ relaying' = NoMessage
  /\ UNCHANGED <<outbox, joined, brokerUp>>

BrokerPublish ==
  /\ brokerUp /\ relaying # NoMessage
  /\ inbox' = [s \in Subscribers |->
                 IF Gets(s, relaying) /\ HasRoom(s)
                 THEN Append(inbox[s], relaying) ELSE inbox[s]]
  /\ relaying' = NoMessage
  /\ UNCHANGED <<outbox, joined, brokerUp>>

\* What the broker's sockets had buffered is gone: the oldest of outbox and the
\* newest of each inbox.
BrokerCrash ==
  /\ brokerUp
  /\ brokerUp' = FALSE
  /\ relaying' = NoMessage
  /\ joined' = {}
  /\ \E k \in 0..Len(outbox) : outbox' = SubSeq(outbox, k + 1, Len(outbox))
  /\ \E kept \in [Subscribers -> 0..ReceiveLimit] :
       /\ \A s \in Subscribers : kept[s] <= Len(inbox[s])
       /\ inbox' = [s \in Subscribers |-> SubSeq(inbox[s], 1, kept[s])]

BrokerRestart ==
  /\ ~brokerUp
  /\ brokerUp' = TRUE
  /\ UNCHANGED <<outbox, relaying, inbox, joined>>

\* The subscription of s, which connects by itself and again after a crash,
\* reaches the broker.
Join(s) ==
  /\ brokerUp /\ s \notin joined
  /\ joined' = joined \cup {s}
  /\ UNCHANGED <<outbox, relaying, inbox, brokerUp>>

\* s receives the oldest message in its queue.
TakeFrom(s) ==
  /\ inbox[s] # <<>>
  /\ inbox' = [inbox EXCEPT ![s] = Tail(@)]
  /\ UNCHANGED <<outbox, relaying, joined, brokerUp>>

\* s closes its socket or dies.
Leave(s) ==
  /\ inbox' = [inbox EXCEPT ![s] = <<>>]
  /\ joined' = joined \ {s}
  /\ UNCHANGED <<outbox, relaying, brokerUp>>

BrokerStep == BrokerReceive \/ BrokerPublish

BusTypeOK(Messages) ==
  /\ outbox \in Seq(Messages) /\ Len(outbox) <= SendLimit
  /\ relaying \in Messages \cup {NoMessage}
  /\ inbox \in [Subscribers -> Seq(Messages)]
  /\ \A s \in Subscribers : Len(inbox[s]) <= ReceiveLimit
  /\ joined \subseteq Subscribers
  /\ brokerUp \in BOOLEAN
=============================================================================
