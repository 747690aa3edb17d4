--------------------------- MODULE DeliveryProofs ---------------------------
(***************************************************************************)
(* Type correctness of CommandDelivery, that it implements CommandLog, and *)
(* what the idempotency cache of a node guarantees, for any nodes, any     *)
(* subscriptions, any messages and any lengths of the queues.              *)
(***************************************************************************)
EXTENDS CommandDelivery, FiniteSetTheorems, TLAPS

(***************************************************************************)
(* Why a node handles in the order of the log.  What is on the way to node *)
(* n lies in four places one behind the other: the hand of its command     *)
(* thread, its queue, the broker, and the controller's socket.  In each    *)
(* the messages are in the order of the log, every message in one place is *)
(* older than every message in the places behind it, and what the node has *)
(* handled is older than all of them.                                      *)
(***************************************************************************)
At(l, m) == CHOOSE i \in DOMAIN l : l[i] = m
Rising(l, q) == \A i, j \in DOMAIN q : i < j => At(l, q[i]) < At(l, q[j])
Before(l, S, T) == \A x \in S, y \in T : At(l, x) < At(l, y)

Held(n) == {hand[n]} \ {NoMessage}
Waiting(n) == ToSet(inbox[n])
Relayed == {relaying} \ {NoMessage}
Pushed == ToSet(outbox)

SourceInOrder ==
  /\ IsInjective(log)
  /\ Pushed \subseteq ToSet(log) /\ Relayed \subseteq ToSet(log)
  /\ Rising(log, outbox) /\ Before(log, Relayed, Pushed)
NodeInOrder(n) ==
  /\ \A m \in Held(n) \cup Waiting(n) : m \in ToSet(log) /\ <<n, m>> \in Matches
  /\ Rising(log, inbox[n])
  /\ Before(log, Waiting(n), Relayed \cup Pushed)
  /\ Before(log, Held(n), Waiting(n) \cup Relayed \cup Pushed)
  /\ \A i \in ToSet(handled[n]) : \A m \in Held(n) \cup Waiting(n) \cup Relayed \cup Pushed :
       i < At(log, m)
OrderInv == DeliveryTypeOK /\ SourceInOrder /\ \A n \in Nodes : NodeInOrder(n)

USE DeliveryAssumption

-----------------------------------------------------------------------------
(* Sequences of messages in the order of a log.                            *)

LEMMA RisingTail ==
  ASSUME NEW l, NEW q \in Seq(Sends), q # <<>>, Rising(l, q)
  PROVE  /\ Head(q) \in Sends /\ Tail(q) \in Seq(Sends) /\ Len(Tail(q)) = Len(q) - 1
         /\ Head(q) \in ToSet(q) /\ ToSet(Tail(q)) \subseteq ToSet(q)
         /\ Rising(l, Tail(q)) /\ Before(l, {Head(q)}, ToSet(Tail(q)))
<1>1. /\ Head(q) \in Sends /\ Tail(q) \in Seq(Sends) /\ Len(Tail(q)) = Len(q) - 1
      /\ Head(q) = q[1] /\ 1 \in DOMAIN q
      /\ \A i \in 1..(Len(q) - 1) : Tail(q)[i] = q[i + 1] /\ i + 1 \in DOMAIN q
  OBVIOUS
<1>2. Head(q) \in ToSet(q) /\ ToSet(Tail(q)) \subseteq ToSet(q)
  BY <1>1 DEF ToSet
<1>3. Rising(l, Tail(q))
  BY <1>1 DEF Rising
<1>4. Before(l, {Head(q)}, ToSet(Tail(q)))
  BY <1>1 DEF Rising, Before, ToSet
<1>5. QED
  BY <1>1, <1>2, <1>3, <1>4

LEMMA RisingAppend ==
  ASSUME NEW l, NEW q \in Seq(Sends), NEW m \in Sends, Rising(l, q), Before(l, ToSet(q), {m})
  PROVE  /\ Append(q, m) \in Seq(Sends) /\ Len(Append(q, m)) = Len(q) + 1
         /\ ToSet(Append(q, m)) = ToSet(q) \cup {m} /\ Rising(l, Append(q, m))
<1>1. /\ Append(q, m) \in Seq(Sends) /\ Len(Append(q, m)) = Len(q) + 1
      /\ DOMAIN Append(q, m) = DOMAIN q \cup {Len(q) + 1}
      /\ Append(q, m)[Len(q) + 1] = m
      /\ \A i \in DOMAIN q : Append(q, m)[i] = q[i]
  OBVIOUS
<1>2. \A i \in DOMAIN q : At(l, q[i]) < At(l, m)
  BY DEF Before, ToSet
<1>3. Rising(l, Append(q, m))
  BY <1>1, <1>2 DEF Rising
<1>4. ToSet(Append(q, m)) = ToSet(q) \cup {m}
  BY <1>1 DEF ToSet
<1>5. QED
  BY <1>1, <1>3, <1>4

LEMMA RisingSubSeq ==
  ASSUME NEW l, NEW q \in Seq(Sends), Rising(l, q),
         NEW a \in 1..(Len(q) + 1), NEW b \in 0..Len(q)
  PROVE  /\ SubSeq(q, a, b) \in Seq(Sends) /\ Len(SubSeq(q, a, b)) <= Len(q)
         /\ ToSet(SubSeq(q, a, b)) \subseteq ToSet(q) /\ Rising(l, SubSeq(q, a, b))
<1>1. /\ SubSeq(q, a, b) \in Seq(Sends)
      /\ Len(SubSeq(q, a, b)) = IF a <= b THEN b - a + 1 ELSE 0
      /\ \A i \in 1..(b - a + 1) : SubSeq(q, a, b)[i] = q[a + i - 1]
  OBVIOUS
<1>2. \A i \in DOMAIN SubSeq(q, a, b) :
        a + i - 1 \in DOMAIN q /\ SubSeq(q, a, b)[i] = q[a + i - 1]
  BY <1>1
<1>3. ToSet(SubSeq(q, a, b)) \subseteq ToSet(q)
  BY <1>2 DEF ToSet
<1>4. Rising(l, SubSeq(q, a, b))
  <2>1. \A i, j \in DOMAIN SubSeq(q, a, b) : i < j => a + i - 1 < a + j - 1
    BY <1>1
  <2>2. QED
    BY <1>2, <2>1 DEF Rising
<1>5. QED
  BY <1>1, <1>3, <1>4

\* A message written to the log leaves the places of the earlier ones, and
\* comes after all of them.
LEMMA AtAppend ==
  ASSUME NEW l \in Seq(Sends), IsInjective(l), NEW s \in Sends, s \notin ToSet(l)
  PROVE  /\ Append(l, s) \in Seq(Sends) /\ IsInjective(Append(l, s))
         /\ ToSet(Append(l, s)) = ToSet(l) \cup {s}
         /\ At(Append(l, s), s) = Len(l) + 1
         /\ \A m \in ToSet(l) :
              At(Append(l, s), m) = At(l, m) /\ At(l, m) \in DOMAIN l /\ l[At(l, m)] = m
<1>1. /\ Append(l, s) \in Seq(Sends) /\ DOMAIN Append(l, s) = DOMAIN l \cup {Len(l) + 1}
      /\ Append(l, s)[Len(l) + 1] = s
      /\ \A i \in DOMAIN l : Append(l, s)[i] = l[i]
  OBVIOUS
<1>2. \A i \in DOMAIN l : l[i] # s
  BY DEF ToSet
<1>3. IsInjective(Append(l, s)) /\ ToSet(Append(l, s)) = ToSet(l) \cup {s}
  BY <1>1, <1>2 DEF IsInjective, ToSet
<1>4. At(Append(l, s), s) = Len(l) + 1
  BY <1>1, <1>2 DEF At
<1>5. ASSUME NEW m \in ToSet(l)
      PROVE  At(Append(l, s), m) = At(l, m) /\ At(l, m) \in DOMAIN l /\ l[At(l, m)] = m
  <2>1. PICK i \in DOMAIN l : l[i] = m
    BY DEF ToSet
  <2>2. At(l, m) = i
    BY <2>1 DEF At, IsInjective
  <2>3. At(Append(l, s), m) = i
    BY <1>1, <1>3, <2>1 DEF At, IsInjective
  <2>4. QED
    BY <2>1, <2>2, <2>3
<1>6. QED
  BY <1>1, <1>3, <1>4, <1>5

LEMMA AtOf ==
  ASSUME NEW l, IsInjective(l), NEW m \in ToSet(l)
  PROVE  At(l, m) \in DOMAIN l /\ l[At(l, m)] = m
BY DEF At, ToSet

-----------------------------------------------------------------------------
(* Types and order, step by step.                                          *)

LEMMA InitInv == Init => OrderInv
<1> SUFFICES ASSUME Init PROVE OrderInv
  OBVIOUS
<1>1. DeliveryTypeOK
  BY DEF Init, DeliveryTypeOK, Bus!BusInit, Bus!BusTypeOK
<1>2. ToSet(outbox) = {} /\ \A n \in Nodes : ToSet(inbox[n]) = {} /\ ToSet(handled[n]) = {}
  BY DEF Init, Bus!BusInit, ToSet
<1>3. SourceInOrder
  BY <1>2 DEF Init, Bus!BusInit, SourceInOrder, Pushed, Relayed, Rising, Before, IsInjective
<1>4. \A n \in Nodes : NodeInOrder(n)
  BY <1>2 DEF Init, Bus!BusInit, NodeInOrder, Held, Waiting, Pushed, Relayed, Rising, Before
<1>5. QED
  BY <1>1, <1>3, <1>4 DEF OrderInv

\* Steps that only take messages out of the places, or leave them there.
LEMMA NodeKeepsOrder ==
  ASSUME NEW n \in Nodes, NodeInOrder(n), log' = log,
         Held(n)' \subseteq Held(n), Waiting(n)' \subseteq Waiting(n),
         Relayed' \cup Pushed' \subseteq Relayed \cup Pushed,
         ToSet(handled[n])' \subseteq ToSet(handled[n]), Rising(log, inbox'[n])
  PROVE  NodeInOrder(n)'
<1>1. \A m \in (Held(n) \cup Waiting(n))' : m \in ToSet(log') /\ <<n, m>> \in Matches
  BY DEF NodeInOrder
<1>2. Before(log, Waiting(n), Relayed \cup Pushed)'
  BY DEF NodeInOrder, Before
<1>3. Before(log, Held(n), Waiting(n) \cup Relayed \cup Pushed)'
  BY DEF NodeInOrder, Before
<1>4. \A i \in ToSet(handled[n])' : \A m \in (Held(n) \cup Waiting(n) \cup Relayed \cup Pushed)' :
        i < At(log', m)
  BY DEF NodeInOrder
<1>5. Matches' = Matches
  BY DEF Matches
<1>6. QED
  BY <1>1, <1>2, <1>3, <1>4, <1>5 DEF NodeInOrder

LEMMA SendOrder ==
  ASSUME OrderInv, NEW s \in Sends, SendCommand(s)
  PROVE  OrderInv'
<1>t. DeliveryTypeOK /\ SourceInOrder
  BY DEF OrderInv
<1>1. /\ s \notin ToSet(log) /\ log' = Append(log, s) /\ Len(outbox) < SendLimit
      /\ outbox' = Append(outbox, s)
      /\ UNCHANGED <<relaying, inbox, joined, brokerUp, phase, hand, seen, life, handled>>
  BY DEF SendCommand, Bus!Push, nodeVars
<1>2. log \in Seq(Sends) /\ outbox \in Seq(Sends) /\ IsInjective(log)
  BY <1>t DEF DeliveryTypeOK, Bus!BusTypeOK, SourceInOrder
<1>3. /\ log' \in Seq(Sends) /\ IsInjective(log') /\ ToSet(log') = ToSet(log) \cup {s}
      /\ At(log', s) = Len(log) + 1
      /\ \A m \in ToSet(log) : At(log', m) = At(log, m) /\ At(log, m) \in DOMAIN log
  BY <1>1, <1>2, AtAppend
<1>4. \A m \in ToSet(log) : At(log', m) < At(log', s)
  BY <1>2, <1>3
<1>5. Pushed \subseteq ToSet(log) /\ Relayed \subseteq ToSet(log)
  BY <1>t DEF SourceInOrder
<1>6. /\ outbox' \in Seq(Sends) /\ Len(outbox') = Len(outbox) + 1
      /\ Pushed' = Pushed \cup {s} /\ Rising(log', outbox')
  <2>1. Rising(log', outbox)
    BY <1>3, <1>5, <1>t DEF SourceInOrder, Rising, Pushed, ToSet
  <2>2. Before(log', ToSet(outbox), {s})
    BY <1>4, <1>5 DEF Before, Pushed
  <2>3. QED
    BY <1>1, <1>2, <2>1, <2>2, RisingAppend DEF Pushed
<1>7. Relayed' = Relayed /\ \A n \in Nodes : Held(n)' = Held(n) /\ Waiting(n)' = Waiting(n)
  BY <1>1 DEF Relayed, Held, Waiting
<1>8. SourceInOrder'
  <2>1. Before(log', Relayed', Pushed')
    BY <1>3, <1>4, <1>5, <1>6, <1>7, <1>t DEF SourceInOrder, Before
  <2>2. QED
    BY <1>3, <1>5, <1>6, <1>7, <2>1 DEF SourceInOrder
<1>9. ASSUME NEW n \in Nodes PROVE NodeInOrder(n)'
  <2>1. NodeInOrder(n) /\ Matches' = Matches
    BY DEF OrderInv, Matches
  <2>2. \A m \in Held(n) \cup Waiting(n) : m \in ToSet(log) /\ <<n, m>> \in Matches
    BY <2>1 DEF NodeInOrder
  <2>3. Rising(log', inbox[n])
    BY <1>3, <2>1, <2>2 DEF NodeInOrder, Rising, Waiting, ToSet
  <2>4. Before(log', Waiting(n), Relayed \cup Pushed')
    BY <1>3, <1>4, <1>5, <1>6, <2>1, <2>2 DEF NodeInOrder, Before
  <2>5. Before(log', Held(n), Waiting(n) \cup Relayed \cup Pushed')
    BY <1>3, <1>4, <1>5, <1>6, <2>1, <2>2 DEF NodeInOrder, Before
  <2>6. \A i \in ToSet(handled[n]) :
          \A m \in Held(n) \cup Waiting(n) \cup Relayed \cup Pushed' : i < At(log', m)
    <3>1. \A i \in ToSet(handled[n]) : i \in DOMAIN log
      BY <1>t DEF DeliveryTypeOK, ToSet
    <3>2. \A i \in ToSet(handled[n]) : i < At(log', s)
      BY <1>2, <1>3, <3>1
    <3>3. QED
      BY <1>3, <1>5, <1>6, <2>1, <2>2, <3>2 DEF NodeInOrder
  <2>7. QED
    BY <1>1, <1>3, <1>7, <2>1, <2>2, <2>3, <2>4, <2>5, <2>6 DEF NodeInOrder
<1>10. DeliveryTypeOK'
  <2>1. Bus!BusTypeOK(Sends)'
    BY <1>t, <1>1, <1>6 DEF DeliveryTypeOK, Bus!BusTypeOK
  <2>2. handled' \in [Nodes -> Seq(DOMAIN log')]
    <3>1. DOMAIN log \subseteq DOMAIN log'
      BY <1>1, <1>2
    <3>2. \A h \in Seq(DOMAIN log) : h \in Seq(DOMAIN log')
      BY <3>1
    <3>3. QED
      BY <1>t, <1>1, <3>2 DEF DeliveryTypeOK
  <2>3. QED
    BY <1>t, <1>1, <1>3, <2>1, <2>2 DEF DeliveryTypeOK, WireKey
<1>11. QED
  BY <1>8, <1>9, <1>10 DEF OrderInv

\* The broker, alive, dying and started again.
LEMMA BrokerOrder ==
  ASSUME OrderInv, RelayCommand \/ StopBroker \/ StartBroker
  PROVE  OrderInv'
<1>t. DeliveryTypeOK /\ SourceInOrder
  BY DEF OrderInv
<1>u. UNCHANGED <<phase, hand, seen, life, handled, log>>
  BY DEF RelayCommand, StopBroker, StartBroker, nodeVars
<1>b. /\ outbox \in Seq(Sends) /\ Len(outbox) <= SendLimit /\ inbox \in [Nodes -> Seq(Sends)]
      /\ \A n \in Nodes : Len(inbox[n]) <= ReceiveLimit
      /\ relaying \in Sends \cup {NoMessage} /\ brokerUp \in BOOLEAN /\ joined \subseteq Nodes
      /\ Rising(log, outbox) /\ \A n \in Nodes : Rising(log, inbox[n])
  BY DEF OrderInv, DeliveryTypeOK, Bus!BusTypeOK, SourceInOrder, NodeInOrder
<1>h. \A n \in Nodes : Held(n)' = Held(n) /\ ToSet(handled[n])' = ToSet(handled[n])
  BY <1>u DEF Held
<1>1. CASE Bus!BrokerReceive
  <2>1. /\ relaying = NoMessage /\ outbox # <<>> /\ relaying' = Head(outbox)
        /\ outbox' = Tail(outbox) /\ UNCHANGED <<inbox, joined, brokerUp>>
    BY <1>1 DEF Bus!BrokerReceive
  <2>2. /\ Head(outbox) \in Sends /\ outbox' \in Seq(Sends) /\ Len(outbox') = Len(outbox) - 1
        /\ Head(outbox) \in Pushed /\ Pushed' \subseteq Pushed
        /\ Rising(log, outbox') /\ Before(log, {Head(outbox)}, Pushed')
    BY <1>b, <2>1, RisingTail DEF Pushed
  <2>3. Relayed' = {Head(outbox)} /\ Relayed = {} /\ \A n \in Nodes : Waiting(n)' = Waiting(n)
    BY <2>1, <2>2 DEF Relayed, Waiting
  <2>4. SourceInOrder'
    BY <1>t, <1>u, <2>2, <2>3 DEF SourceInOrder
  <2>5. \A n \in Nodes : NodeInOrder(n)'
    BY <1>u, <1>b, <1>h, <2>1, <2>2, <2>3, NodeKeepsOrder DEF OrderInv
  <2>6. Bus!BusTypeOK(Sends)'
    BY <1>b, <2>1, <2>2 DEF Bus!BusTypeOK
  <2>7. QED
    BY <1>t, <1>u, <2>4, <2>5, <2>6 DEF OrderInv, DeliveryTypeOK, WireKey
<1>2. CASE Bus!BrokerPublish
  <2>1. /\ relaying # NoMessage /\ relaying \in Sends /\ relaying' = NoMessage
        /\ inbox' = [n \in Nodes |-> IF Bus!Gets(n, relaying) /\ Bus!HasRoom(n)
                                     THEN Append(inbox[n], relaying) ELSE inbox[n]]
        /\ UNCHANGED <<outbox, joined, brokerUp>>
    BY <1>2, <1>b DEF Bus!BrokerPublish
  <2>2. Relayed = {relaying} /\ Relayed' = {} /\ Pushed' = Pushed
    BY <2>1 DEF Relayed, Pushed
  <2>3. SourceInOrder'
    BY <1>t, <1>u, <2>1, <2>2 DEF SourceInOrder, Before
  <2>4. ASSUME NEW n \in Nodes
        PROVE  NodeInOrder(n)' /\ inbox'[n] \in Seq(Sends) /\ Len(inbox'[n]) <= ReceiveLimit
    <3>1. NodeInOrder(n) /\ Matches' = Matches
      BY DEF OrderInv, Matches
    <3>2. CASE Bus!Gets(n, relaying) /\ Bus!HasRoom(n)
      <4>1. inbox'[n] = Append(inbox[n], relaying) /\ <<n, relaying>> \in Matches
            /\ Len(inbox[n]) < ReceiveLimit
        BY <2>1, <3>2 DEF Bus!Gets, Bus!HasRoom
      <4>2. inbox[n] \in Seq(Sends) /\ Before(log, ToSet(inbox[n]), {relaying})
        BY <1>b, <2>2, <3>1 DEF NodeInOrder, Before, Waiting
      <4>3. /\ inbox'[n] \in Seq(Sends) /\ Len(inbox'[n]) = Len(inbox[n]) + 1
            /\ Waiting(n)' = Waiting(n) \cup {relaying} /\ Rising(log, inbox'[n])
        BY <1>b, <2>1, <4>1, <4>2, RisingAppend DEF Waiting
      <4>4. Before(log, Waiting(n)', Pushed)
        BY <1>t, <2>2, <3>1, <4>3 DEF SourceInOrder, NodeInOrder, Before
      <4>5. Before(log, Held(n), Waiting(n)' \cup Pushed)
        BY <2>2, <3>1, <4>3 DEF NodeInOrder, Before
      <4>6. \A i \in ToSet(handled[n]) : \A m \in Held(n) \cup Waiting(n)' \cup Pushed :
              i < At(log, m)
        BY <2>2, <3>1, <4>3 DEF NodeInOrder
      <4>7. \A m \in Held(n) \cup Waiting(n)' : m \in ToSet(log) /\ <<n, m>> \in Matches
        BY <1>t, <2>2, <3>1, <4>1, <4>3 DEF SourceInOrder, NodeInOrder
      <4>8. NodeInOrder(n)'
        BY <1>u, <1>h, <2>2, <3>1, <4>3, <4>4, <4>5, <4>6, <4>7 DEF NodeInOrder
      <4>9. Len(inbox[n]) \in Nat
        BY <4>2
      <4>10. QED
        BY <4>1, <4>3, <4>8, <4>9
    <3>3. CASE ~(Bus!Gets(n, relaying) /\ Bus!HasRoom(n))
      <4>1. inbox'[n] = inbox[n]
        BY <2>1, <3>3
      <4>2. Waiting(n)' = Waiting(n)
        BY <4>1 DEF Waiting
      <4>3. NodeInOrder(n)'
        BY <1>u, <1>b, <1>h, <2>2, <3>1, <4>1, <4>2, NodeKeepsOrder
      <4>4. QED
        BY <1>b, <4>1, <4>3
    <3>4. QED
      BY <3>2, <3>3
  <2>5. Bus!BusTypeOK(Sends)'
    <3>1. inbox' \in [Nodes -> Seq(Sends)]
      BY <2>1, <2>4
    <3>2. QED
      BY <1>b, <2>1, <2>4, <3>1 DEF Bus!BusTypeOK
  <2>6. QED
    BY <1>t, <1>u, <2>3, <2>4, <2>5 DEF OrderInv, DeliveryTypeOK, WireKey
<1>3. CASE Bus!BrokerCrash
  <2>1. brokerUp' = FALSE /\ relaying' = NoMessage /\ joined' = {}
    BY <1>3 DEF Bus!BrokerCrash
  <2>2. outbox' \in Seq(Sends) /\ Len(outbox') <= SendLimit /\ Pushed' \subseteq Pushed
        /\ Rising(log, outbox')
    <3>1. PICK k \in 0..Len(outbox) : outbox' = SubSeq(outbox, k + 1, Len(outbox))
      BY <1>3 DEF Bus!BrokerCrash
    <3>2. k + 1 \in 1..(Len(outbox) + 1) /\ Len(outbox) \in 0..Len(outbox)
          /\ Len(outbox) \in Nat
      BY <1>b, <3>1
    <3>3. /\ outbox' \in Seq(Sends) /\ Len(outbox') <= Len(outbox)
          /\ ToSet(outbox') \subseteq ToSet(outbox) /\ Rising(log, outbox')
      BY <1>b, <3>1, <3>2, RisingSubSeq
    <3>4. Len(outbox') \in Nat
      BY <3>3
    <3>5. QED
      BY <1>b, <3>2, <3>3, <3>4 DEF Pushed
  <2>3. PICK kept \in [Nodes -> 0..ReceiveLimit] :
          /\ \A n \in Nodes : kept[n] <= Len(inbox[n])
          /\ inbox' = [n \in Nodes |-> SubSeq(inbox[n], 1, kept[n])]
    BY <1>3 DEF Bus!BrokerCrash
  <2>4. ASSUME NEW n \in Nodes
        PROVE  /\ inbox'[n] \in Seq(Sends) /\ Len(inbox'[n]) <= ReceiveLimit
               /\ Waiting(n)' \subseteq Waiting(n) /\ Rising(log, inbox'[n])
    <3>1. inbox[n] \in Seq(Sends) /\ Len(inbox[n]) \in Nat /\ Len(inbox[n]) <= ReceiveLimit
          /\ Rising(log, inbox[n])
      BY <1>b
    <3>2. 1 \in 1..(Len(inbox[n]) + 1) /\ kept[n] \in 0..Len(inbox[n])
      BY <2>3, <3>1
    <3>3. inbox'[n] = SubSeq(inbox[n], 1, kept[n])
      BY <2>3
    <3>4. /\ inbox'[n] \in Seq(Sends) /\ Len(inbox'[n]) <= Len(inbox[n])
          /\ ToSet(inbox'[n]) \subseteq ToSet(inbox[n]) /\ Rising(log, inbox'[n])
      BY <3>1, <3>2, <3>3, RisingSubSeq
    <3>5. Len(inbox'[n]) \in Nat
      BY <3>4
    <3>6. QED
      BY <3>1, <3>4, <3>5 DEF Waiting
  <2>5. Relayed' = {}
    BY <2>1 DEF Relayed
  <2>6. SourceInOrder'
    BY <1>t, <1>u, <2>2, <2>5 DEF SourceInOrder, Before
  <2>7. \A n \in Nodes : NodeInOrder(n)'
    BY <1>u, <1>h, <2>2, <2>4, <2>5, NodeKeepsOrder DEF OrderInv
  <2>8. Bus!BusTypeOK(Sends)'
    <3>1. inbox' \in [Nodes -> Seq(Sends)]
      BY <2>3, <2>4
    <3>2. QED
      BY <2>1, <2>2, <2>4, <3>1 DEF Bus!BusTypeOK
  <2>9. QED
    BY <1>t, <1>u, <2>6, <2>7, <2>8 DEF OrderInv, DeliveryTypeOK, WireKey
<1>4. CASE Bus!BrokerRestart
  <2>1. brokerUp' = TRUE /\ UNCHANGED <<outbox, relaying, inbox, joined>>
    BY <1>4 DEF Bus!BrokerRestart
  <2>2. Relayed' = Relayed /\ Pushed' = Pushed /\ \A n \in Nodes : Waiting(n)' = Waiting(n)
    BY <2>1 DEF Relayed, Pushed, Waiting
  <2>3. SourceInOrder'
    BY <1>t, <1>u, <2>1, <2>2 DEF SourceInOrder
  <2>4. \A n \in Nodes : NodeInOrder(n)'
    BY <1>u, <1>b, <1>h, <2>1, <2>2, NodeKeepsOrder DEF OrderInv
  <2>5. Bus!BusTypeOK(Sends)'
    BY <1>b, <2>1 DEF Bus!BusTypeOK
  <2>6. QED
    BY <1>t, <1>u, <2>3, <2>4, <2>5 DEF OrderInv, DeliveryTypeOK, WireKey
<1>5. QED
  BY <1>1, <1>2, <1>3, <1>4 DEF RelayCommand, StopBroker, StartBroker, Bus!BrokerStep

Keys == {WireKey(s) : s \in Sends} \ {NoKey}

\* The cache takes a key in and stays within its bound.
LEMMA RememberType ==
  ASSUME NEW keys \in Seq(Keys), Len(keys) <= MaxPending, NEW k \in Keys
  PROVE  Remember(keys, k) \in Seq(Keys) /\ Len(Remember(keys, k)) <= MaxPending
<1>1. Append(keys, k) \in Seq(Keys) /\ Len(Append(keys, k)) = Len(keys) + 1
      /\ Append(keys, k) # <<>>
  OBVIOUS
<1>2. Tail(Append(keys, k)) \in Seq(Keys) /\ Len(Tail(Append(keys, k))) = Len(keys)
  BY <1>1
<1>3. Len(keys) \in Nat
  OBVIOUS
<1>4. QED
  BY <1>1, <1>2, <1>3 DEF Remember

\* The steps of a node: one message at most leaves a queue, for the hand.
LEMMA NodeOrder ==
  ASSUME OrderInv, NEW n \in Nodes,
         StartNode(n) \/ Subscribe(n) \/ StartThreads(n) \/ StopNode(n) \/ CommandLoop(n)
  PROVE  OrderInv'
<1>t. DeliveryTypeOK /\ SourceInOrder /\ \A o \in Nodes : NodeInOrder(o)
  BY DEF OrderInv
<1>u. UNCHANGED <<outbox, relaying, brokerUp, log>>
  BY DEF StartNode, Subscribe, StartThreads, StopNode, CommandLoop, Receive, HandleCommand,
         busVars, nodeVars, Bus!Join, Bus!Leave, Bus!TakeFrom
<1>s. SourceInOrder' /\ Relayed' = Relayed /\ Pushed' = Pushed
  BY <1>t, <1>u DEF SourceInOrder, Relayed, Pushed
<1>b. /\ inbox \in [Nodes -> Seq(Sends)] /\ \A o \in Nodes : Len(inbox[o]) <= ReceiveLimit
      /\ hand \in [Nodes -> Sends \cup {NoMessage}]
      /\ seen \in [Nodes -> Seq(Keys)] /\ \A o \in Nodes : Len(seen[o]) <= MaxPending
      /\ joined \subseteq Nodes /\ phase \in [Nodes -> {"off", "setup", "listening"}]
      /\ life \in [Nodes -> Seq(Sends)] /\ handled \in [Nodes -> Seq(DOMAIN log)]
  BY <1>t DEF DeliveryTypeOK, Bus!BusTypeOK, Keys
\* The places of the other nodes are left alone, and those of n only emptied.
<1>k. ASSUME NEW o \in Nodes, hand'[o] \in {hand[o], NoMessage},
             inbox'[o] \in {inbox[o], <<>>}, handled'[o] = handled[o]
      PROVE  NodeInOrder(o)'
  <2>1. Held(o)' \subseteq Held(o) /\ ToSet(handled'[o]) \subseteq ToSet(handled[o])
    BY <1>k DEF Held
  <2>2. Waiting(o)' \subseteq Waiting(o) /\ Rising(log, inbox'[o])
    <3>1. CASE inbox'[o] = inbox[o]
      BY <1>t, <3>1 DEF Waiting, NodeInOrder
    <3>2. CASE inbox'[o] = <<>>
      BY <3>2 DEF Waiting, ToSet, Rising
    <3>3. QED
      BY <1>k, <3>1, <3>2
  <2>3. QED
    BY <1>t, <1>u, <1>s, <2>1, <2>2, NodeKeepsOrder
<1>1. CASE StartNode(n) \/ StartThreads(n) \/ Subscribe(n)
  <2>1. /\ UNCHANGED <<inbox, hand, seen, life, handled>>
        /\ joined' \subseteq Nodes /\ phase' \in [Nodes -> {"off", "setup", "listening"}]
    BY <1>1, <1>b DEF StartNode, StartThreads, Subscribe, Bus!Join, busVars, nodeVars
  <2>2. \A o \in Nodes : NodeInOrder(o)'
    BY <1>k, <2>1
  <2>3. DeliveryTypeOK'
    BY <1>t, <1>u, <2>1 DEF DeliveryTypeOK, Bus!BusTypeOK, WireKey
  <2>4. QED
    BY <1>s, <2>2, <2>3 DEF OrderInv
<1>2. CASE StopNode(n)
  <2>1. /\ hand' = [hand EXCEPT ![n] = NoMessage] /\ seen' = [seen EXCEPT ![n] = <<>>]
        /\ life' = [life EXCEPT ![n] = <<>>] /\ inbox' = [inbox EXCEPT ![n] = <<>>]
        /\ phase' = [phase EXCEPT ![n] = "off"] /\ joined' = joined \ {n} /\ handled' = handled
    BY <1>2 DEF StopNode, Bus!Leave
  <2>2. \A o \in Nodes : NodeInOrder(o)'
    <3>1. \A o \in Nodes : hand'[o] \in {hand[o], NoMessage} /\ inbox'[o] \in {inbox[o], <<>>}
      BY <1>b, <2>1
    <3>2. QED
      BY <1>k, <2>1, <3>1
  <2>3. DeliveryTypeOK'
    <3>1. /\ hand' \in [Nodes -> Sends \cup {NoMessage}] /\ life' \in [Nodes -> Seq(Sends)]
          /\ inbox' \in [Nodes -> Seq(Sends)] /\ \A o \in Nodes : Len(inbox'[o]) <= ReceiveLimit
      BY <1>b, <2>1
    <3>2. seen' \in [Nodes -> Seq(Keys)] /\ \A o \in Nodes : Len(seen'[o]) <= MaxPending
      BY <1>b, <2>1
    <3>3. Bus!BusTypeOK(Sends)'
      BY <1>t, <1>u, <2>1, <3>1 DEF DeliveryTypeOK, Bus!BusTypeOK
    <3>4. QED
      BY <1>t, <1>u, <2>1, <3>1, <3>2, <3>3 DEF DeliveryTypeOK, Keys, WireKey
  <2>4. QED
    BY <1>s, <2>2, <2>3 DEF OrderInv
<1>3. CASE Receive(n)
  <2> DEFINE s == Head(inbox[n])
             k == WireKey(s)
             dropped == s \in Malformed \/ (k # NoKey /\ k \in ToSet(seen[n]))
  <2>1. /\ hand[n] = NoMessage /\ inbox[n] # <<>> /\ UNCHANGED <<phase, life, handled, joined>>
        /\ inbox' = [inbox EXCEPT ![n] = Tail(inbox[n])]
        /\ hand' = [hand EXCEPT ![n] = IF dropped THEN NoMessage ELSE s]
        /\ seen' = [seen EXCEPT ![n] = IF dropped \/ k = NoKey THEN seen[n] ELSE Remember(seen[n], k)]
    BY <1>3, <1>b DEF Receive, Bus!TakeFrom
  <2>2. /\ s \in Sends /\ Tail(inbox[n]) \in Seq(Sends) /\ Len(Tail(inbox[n])) = Len(inbox[n]) - 1
        /\ s \in Waiting(n) /\ ToSet(Tail(inbox[n])) \subseteq Waiting(n)
        /\ Rising(log, Tail(inbox[n])) /\ Before(log, {s}, ToSet(Tail(inbox[n])))
    <3>1. inbox[n] \in Seq(Sends) /\ Rising(log, inbox[n])
      BY <1>b, <1>t DEF NodeInOrder
    <3>2. QED
      BY <2>1, <3>1, RisingTail DEF Waiting
  <2>3. seen' \in [Nodes -> Seq(Keys)] /\ \A o \in Nodes : Len(seen'[o]) <= MaxPending
    <3>1. k # NoKey => k \in Keys
      BY <2>2 DEF Keys
    <3>2. k # NoKey => Remember(seen[n], k) \in Seq(Keys) /\ Len(Remember(seen[n], k)) <= MaxPending
      BY <1>b, <3>1, RememberType
    <3>3. QED
      BY <1>b, <2>1, <3>2
  <2> HIDE DEF s, k, dropped
  <2>4. ASSUME NEW o \in Nodes PROVE NodeInOrder(o)'
    <3>1. CASE o # n
      BY <1>b, <1>k, <2>1, <3>1
    <3>2. CASE o = n
      <4>1. Held(n) = {} /\ Held(n)' \subseteq {s}
        BY <1>b, <2>1, <2>2 DEF Held
      <4>2. Waiting(n)' = ToSet(Tail(inbox[n])) /\ inbox'[n] = Tail(inbox[n])
        BY <1>b, <2>1 DEF Waiting
      <4>3. NodeInOrder(n) /\ Matches' = Matches
        BY <1>t DEF Matches
      <4>4. \A m \in Held(n)' \cup Waiting(n)' : m \in ToSet(log) /\ <<n, m>> \in Matches
        BY <2>2, <4>1, <4>2, <4>3 DEF NodeInOrder
      <4>5. Before(log, Waiting(n)', Relayed \cup Pushed)
        BY <2>2, <4>2, <4>3 DEF NodeInOrder, Before
      <4>6. Before(log, Held(n)', Waiting(n)' \cup Relayed \cup Pushed)
        BY <2>2, <4>1, <4>2, <4>3 DEF NodeInOrder, Before
      <4>7. \A i \in ToSet(handled[n]) :
              \A m \in Held(n)' \cup Waiting(n)' \cup Relayed \cup Pushed : i < At(log, m)
        BY <2>2, <4>1, <4>2, <4>3 DEF NodeInOrder
      <4>8. QED
        BY <1>u, <1>s, <2>1, <2>2, <3>2, <4>2, <4>3, <4>4, <4>5, <4>6, <4>7 DEF NodeInOrder
    <3>3. QED
      BY <3>1, <3>2
  <2>5. DeliveryTypeOK'
    <3>1. inbox' \in [Nodes -> Seq(Sends)] /\ \A o \in Nodes : Len(inbox'[o]) <= ReceiveLimit
      <4>1. inbox' \in [Nodes -> Seq(Sends)]
        BY <1>b, <2>1, <2>2
      <4>2. Len(inbox[n]) \in Nat /\ Len(inbox[n]) <= ReceiveLimit
        BY <1>b
      <4>3. QED
        BY <1>b, <2>1, <2>2, <4>1, <4>2
    <3>2. hand' \in [Nodes -> Sends \cup {NoMessage}]
      BY <1>b, <2>1, <2>2
    <3>3. Bus!BusTypeOK(Sends)'
      BY <1>t, <1>u, <2>1, <3>1 DEF DeliveryTypeOK, Bus!BusTypeOK
    <3>4. QED
      BY <1>t, <1>u, <2>1, <2>3, <3>2, <3>3 DEF DeliveryTypeOK, Keys, WireKey
  <2>6. QED
    BY <1>s, <2>4, <2>5 DEF OrderInv
<1>4. CASE HandleCommand(n)
  <2>1. /\ hand[n] # NoMessage /\ hand[n] \in Held(n)
        /\ hand' = [hand EXCEPT ![n] = NoMessage]
        /\ life' = [life EXCEPT ![n] = Append(life[n], hand[n])]
        /\ handled' = [handled EXCEPT ![n] = Append(handled[n], At(log, hand[n]))]
        /\ UNCHANGED <<inbox, joined, phase, seen>>
    BY <1>4 DEF HandleCommand, busVars, Held, At
  <2>2. At(log, hand[n]) \in DOMAIN log
    BY <1>t, <2>1, AtOf DEF SourceInOrder, NodeInOrder
  <2>3. ToSet(handled'[n]) = ToSet(handled[n]) \cup {At(log, hand[n])}
    <3>1. handled'[n] = Append(handled[n], At(log, hand[n])) /\ handled[n] \in Seq(DOMAIN log)
      BY <1>b, <2>1
    <3>2. /\ DOMAIN handled'[n] = DOMAIN handled[n] \cup {Len(handled[n]) + 1}
          /\ handled'[n][Len(handled[n]) + 1] = At(log, hand[n])
          /\ \A i \in DOMAIN handled[n] : handled'[n][i] = handled[n][i]
      BY <2>2, <3>1
    <3>3. QED
      BY <3>2 DEF ToSet
  <2>4. ASSUME NEW o \in Nodes PROVE NodeInOrder(o)'
    <3>1. CASE o # n
      BY <1>b, <1>k, <2>1, <3>1
    <3>2. CASE o = n
      <4>1. Held(n)' = {} /\ Waiting(n)' = Waiting(n)
        BY <1>b, <2>1 DEF Held, Waiting
      <4>2. NodeInOrder(n) /\ Matches' = Matches
        BY <1>t DEF Matches
      <4>3. \A i \in ToSet(handled'[n]) : \A m \in Waiting(n) \cup Relayed \cup Pushed : i < At(log, m)
        BY <2>1, <2>3, <4>2 DEF NodeInOrder, Before
      <4>4. QED
        BY <1>u, <1>s, <2>1, <3>2, <4>1, <4>2, <4>3 DEF NodeInOrder, Before
    <3>3. QED
      BY <3>1, <3>2
  <2>5. DeliveryTypeOK'
    <3>1. handled' \in [Nodes -> Seq(DOMAIN log)]
      <4>1. Append(handled[n], At(log, hand[n])) \in Seq(DOMAIN log)
        BY <1>b, <2>2
      <4>2. QED
        BY <1>b, <2>1, <4>1
    <3>2. life' \in [Nodes -> Seq(Sends)] /\ hand' \in [Nodes -> Sends \cup {NoMessage}]
      <4>1. Append(life[n], hand[n]) \in Seq(Sends)
        BY <1>b, <2>1
      <4>2. QED
        BY <1>b, <2>1, <4>1
    <3>3. QED
      BY <1>t, <1>u, <2>1, <3>1, <3>2 DEF DeliveryTypeOK, Bus!BusTypeOK, WireKey
  <2>6. QED
    BY <1>s, <2>4, <2>5 DEF OrderInv
<1>5. QED
  BY <1>1, <1>2, <1>3, <1>4 DEF CommandLoop

LEMMA StepInv == OrderInv /\ [Next]_deliveryVars => OrderInv'
<1> SUFFICES ASSUME OrderInv, [Next]_deliveryVars
             PROVE  OrderInv'
  OBVIOUS
<1>1. CASE UNCHANGED deliveryVars
  <2>1. UNCHANGED <<outbox, relaying, inbox, joined, brokerUp, phase, hand, seen, life, handled, log>>
    BY <1>1 DEF deliveryVars, busVars, nodeVars
  <2>2. DeliveryTypeOK'
    BY <2>1 DEF OrderInv, DeliveryTypeOK, Bus!BusTypeOK, WireKey
  <2>3. Relayed' = Relayed /\ Pushed' = Pushed
        /\ \A n \in Nodes : Held(n)' = Held(n) /\ Waiting(n)' = Waiting(n)
    BY <2>1 DEF Relayed, Pushed, Held, Waiting
  <2>4. SourceInOrder'
    BY <2>1, <2>3 DEF OrderInv, SourceInOrder
  <2>5. \A n \in Nodes : NodeInOrder(n)'
    BY <2>1, <2>3, NodeKeepsOrder DEF OrderInv, NodeInOrder
  <2>6. QED
    BY <2>2, <2>4, <2>5 DEF OrderInv
<1>2. CASE Next
  BY <1>2, SendOrder, BrokerOrder, NodeOrder DEF Next
<1>3. QED
  BY <1>1, <1>2

LEMMA Invariance == DeliverySpec => []OrderInv
BY InitInv, StepInv, PTL DEF DeliverySpec

-----------------------------------------------------------------------------
\* Every variable keeps its type, no queue of the bus outgrows its high-water
\* mark, and no cache of idempotency keys NODE_MAX_PENDING_COMMANDS.
THEOREM TypeCorrect == DeliverySpec => []DeliveryTypeOK
<1>1. OrderInv => DeliveryTypeOK
  BY DEF OrderInv
<1>2. QED
  BY <1>1, Invariance, PTL

\* A node that handles a command adds a later place of the log to what it has
\* handled, that of a command its filter matches.
LEMMA HandleStep ==
  ASSUME OrderInv, NEW n \in Nodes, HandleCommand(n)
  PROVE  \E i \in DOMAIN log \ ToSet(handled[n]) :
           /\ \A j \in ToSet(handled[n]) : j < i
           /\ <<n, log[i]>> \in Matches
           /\ log' = log /\ handled' = [handled EXCEPT ![n] = Append(handled[n], i)]
<1> DEFINE i == At(log, hand[n])
<1>1. /\ hand[n] \in Held(n)
      /\ handled' = [handled EXCEPT ![n] = Append(handled[n], i)]
      /\ log' = log
  BY DEF HandleCommand, Held, At
<1>2. NodeInOrder(n) /\ SourceInOrder
  BY DEF OrderInv
<1>3. hand[n] \in ToSet(log) /\ <<n, hand[n]>> \in Matches
      /\ \A j \in ToSet(handled[n]) : j < i
  BY <1>1, <1>2 DEF NodeInOrder
<1>4. i \in DOMAIN log /\ log[i] = hand[n]
  BY <1>2, <1>3, AtOf DEF SourceInOrder
<1>5. i \in Nat
  BY <1>4 DEF OrderInv, DeliveryTypeOK
<1>6. i \notin ToSet(handled[n])
  BY <1>3, <1>5
<1> HIDE DEF i
<1>7. QED
  BY <1>1, <1>3, <1>4, <1>6

\* No other step changes what has been handled.
LEMMA HandledElsewhere ==
  ASSUME [Next]_deliveryVars
  PROVE  \/ (\E n \in Nodes : HandleCommand(n))
         \/ handled' = handled /\ (log' = log \/ \E s \in Sends : log' = Append(log, s))
<1>1. CASE UNCHANGED deliveryVars
  BY <1>1 DEF deliveryVars, nodeVars
<1>2. ASSUME NEW s \in Sends, SendCommand(s)
      PROVE  handled' = handled /\ log' = Append(log, s)
  BY <1>2 DEF SendCommand, nodeVars
<1>3. CASE RelayCommand \/ StopBroker \/ StartBroker
  BY <1>3 DEF RelayCommand, StopBroker, StartBroker, nodeVars
<1>4. ASSUME NEW n \in Nodes,
             StartNode(n) \/ Subscribe(n) \/ StartThreads(n) \/ StopNode(n) \/ Receive(n)
      PROVE  UNCHANGED <<log, handled>>
  BY <1>4 DEF StartNode, Subscribe, StartThreads, StopNode, Receive, nodeVars
<1>5. QED
  BY <1>1, <1>2, <1>3, <1>4 DEF Next, CommandLoop

LEMMA InOrderStep == OrderInv /\ HandledInOrder /\ [Next]_deliveryVars => HandledInOrder'
<1> SUFFICES ASSUME OrderInv, HandledInOrder, NEW n \in Nodes, HandleCommand(n)
             PROVE  HandledInOrder'
  BY HandledElsewhere DEF HandledInOrder
<1>1. PICK i \in DOMAIN log : /\ \A j \in ToSet(handled[n]) : j < i
                              /\ handled' = [handled EXCEPT ![n] = Append(handled[n], i)]
  BY HandleStep
<1>2. handled \in [Nodes -> Seq(DOMAIN log)]
  BY DEF OrderInv, DeliveryTypeOK
<1>3. handled'[n] = Append(handled[n], i) /\ \A m \in Nodes \ {n} : handled'[m] = handled[m]
  BY <1>1, <1>2
<1>4. ASSUME NEW q \in Seq(DOMAIN log), \A j \in ToSet(q) : j < i,
             \A j, k \in DOMAIN q : j < k => q[j] < q[k]
      PROVE  \A j, k \in DOMAIN Append(q, i) : j < k => Append(q, i)[j] < Append(q, i)[k]
  <2>1. /\ DOMAIN Append(q, i) = DOMAIN q \cup {Len(q) + 1}
        /\ Append(q, i)[Len(q) + 1] = i /\ Len(q) \in Nat /\ DOMAIN q = 1..Len(q)
        /\ \A j \in DOMAIN q : Append(q, i)[j] = q[j]
    OBVIOUS
  <2>2. \A j \in DOMAIN q : q[j] < i
    BY <1>4 DEF ToSet
  <2>3. QED
    BY <1>4, <2>1, <2>2
<1>5. \A j, k \in DOMAIN handled'[n] : j < k => handled'[n][j] < handled'[n][k]
  BY <1>1, <1>2, <1>3, <1>4 DEF HandledInOrder
<1>6. QED
  BY <1>3, <1>5 DEF HandledInOrder

\* A node handles what it gets in the order in which it was sent and nothing
\* twice, whatever the broker drops or takes along when it dies, however often a
\* node restarts, and whether or not its filter is exact.
THEOREM EveryNodeInOrder == DeliverySpec => []HandledInOrder
<1>1. Init => HandledInOrder
  BY DEF Init, HandledInOrder
<1>2. QED
  BY <1>1, InOrderStep, Invariance, PTL DEF DeliverySpec

LEMMA StepRefines ==
  OrderInv /\ [Next]_deliveryVars =>
    [Log!CommandLogNext]_<<log, [n \in Exact |-> handled[n]]>>
<1> SUFFICES ASSUME OrderInv, [Next]_deliveryVars
             PROVE  Log!CommandLogNext \/ UNCHANGED <<log, [n \in Exact |-> handled[n]]>>
  OBVIOUS
<1>e. Exact \subseteq Nodes /\ Exact' = Exact
  BY DEF Exact, Matches
<1>1. ASSUME NEW n \in Nodes, HandleCommand(n)
      PROVE  (Log!Handle(n) /\ n \in Exact) \/ UNCHANGED <<log, [m \in Exact |-> handled[m]]>>
  <2>1. PICK i \in DOMAIN log \ ToSet(handled[n]) :
           /\ \A j \in ToSet(handled[n]) : j < i
           /\ <<n, log[i]>> \in Matches
           /\ log' = log /\ handled' = [handled EXCEPT ![n] = Append(handled[n], i)]
    BY <1>1, HandleStep
  <2>2. handled \in [Nodes -> Seq(DOMAIN log)] /\ \A j \in DOMAIN log : log[j] \in Sends
    BY DEF OrderInv, DeliveryTypeOK
  <2>3. CASE n \in Exact
    <3>1. <<n, log[i]>> \in {x \in Nodes \X Sends : Addressee[x[2]] = x[1]}
      BY <2>1, <2>2, <2>3 DEF Exact
    <3>2. [m \in Exact |-> handled[m]]' =
            [[m \in Exact |-> handled[m]] EXCEPT ![n] = Append(handled[n], i)]
      BY <1>e, <2>1, <2>2, <2>3
    <3>3. Log!ToSet(handled[n]) = ToSet(handled[n])
      BY DEF Log!ToSet, ToSet
    <3>4. [m \in Exact |-> handled[m]][n] = handled[n]
      BY <2>3
    <3>5. Log!Handle(n)
      BY <2>1, <3>1, <3>2, <3>3, <3>4 DEF Log!Handle
    <3>6. QED
      BY <2>3, <3>5
  <2>4. CASE n \notin Exact
    <3>1. \A m \in Exact : handled'[m] = handled[m]
      BY <1>e, <2>1, <2>2, <2>4
    <3>2. QED
      BY <1>e, <2>1, <3>1
  <2>5. QED
    BY <2>3, <2>4
<1>2. ASSUME NEW s \in Sends, log' = Append(log, s), handled' = handled
      PROVE  Log!Write(s)
  BY <1>e, <1>2 DEF Log!Write
<1>3. CASE handled' = handled /\ log' = log
  BY <1>e, <1>3
<1>4. QED
  BY <1>1, <1>2, <1>3, HandledElsewhere DEF Log!CommandLogNext

\* From send_command to handle_command is one log, and a node whose id begins no
\* other one's handles what is addressed to it and nothing else, in the order it
\* was sent, each at most once, through losses, crashes and restarts.
THEOREM DeliveryImplementsLog == DeliverySpec => ImplementsCommandLog
<1>1. Init => Log!CommandLogInit
  BY DEF Init, Log!CommandLogInit, Exact
<1>2. QED
  BY <1>1, StepRefines, Invariance, PTL DEF DeliverySpec, ImplementsCommandLog, Log!CommandLogSpec

-----------------------------------------------------------------------------
(* The cache of idempotency keys.  Keys are in it in the order in which    *)
(* the node met them; one that is not in it any more was pushed out by     *)
(* MaxPending different keys of messages the node has met since.           *)

KeysAfter(h, i) == KeysBetween(h, i, Len(h) + 1)
Keyed(h, i) == WireKey(h[i]) # NoKey

PushedOut(h, c) ==
  \A i \in DOMAIN h : Keyed(h, i) /\ WireKey(h[i]) \notin ToSet(c) =>
    Len(c) = MaxPending /\ ToSet(c) \subseteq KeysAfter(h, i)
InMeetingOrder(h, c) ==
  \A a, b \in DOMAIN c : \A i \in DOMAIN h :
    a < b /\ WireKey(h[i]) = c[a] => c[b] \in KeysAfter(h, i)
Spaced(h) ==
  \A i, j \in DOMAIN h : i < j /\ WireKey(h[i]) = WireKey(h[j]) /\ Keyed(h, i) =>
    Cardinality(KeysBetween(h, i, j) \ {WireKey(h[i])}) >= MaxPending
Recalls(h, c) == IsInjective(c) /\ PushedOut(h, c) /\ InMeetingOrder(h, c) /\ Spaced(h)

\* What a node has handled since it was started, and what it is handling.
Met(n) == IF hand[n] = NoMessage THEN life[n] ELSE Append(life[n], hand[n])
CacheInv == \A n \in Nodes : Recalls(Met(n), seen[n])

LEMMA KeysFinite ==
  ASSUME NEW h, NEW i \in Nat, NEW j \in Nat
  PROVE  IsFiniteSet(KeysBetween(h, i, j))
<1> DEFINE D == (i + 1)..(j - 1)
           T == {WireKey(h[m]) : m \in D}
           f == [m \in D |-> WireKey(h[m])]
<1>1. IsFiniteSet(D)
  BY FS_Interval
<1>2. f \in Surjection(D, T)
  BY DEF Surjection
<1>3. IsFiniteSet(T)
  BY <1>1, <1>2, FS_Surjection
<1>4. KeysBetween(h, i, j) \subseteq T
  BY DEF KeysBetween
<1>5. QED
  BY <1>3, <1>4, FS_Subset

LEMMA CacheCardinality ==
  ASSUME NEW c \in Seq(Keys), IsInjective(c)
  PROVE  IsFiniteSet(ToSet(c)) /\ Cardinality(ToSet(c)) = Len(c)
<1>1. c \in Injection(1..Len(c), ToSet(c)) /\ c \in Surjection(1..Len(c), ToSet(c))
  BY DEF Injection, Surjection, ToSet, IsInjective
<1>2. IsFiniteSet(1..Len(c)) /\ Cardinality(1..Len(c)) = Len(c)
  <2>1. Len(c) \in Nat
    OBVIOUS
  <2>2. Cardinality(1..Len(c)) = IF 1 > Len(c) THEN 0 ELSE Len(c) - 1 + 1
    BY <2>1, FS_Interval
  <2>3. QED
    BY <2>1, <2>2, FS_Interval
<1>3. QED
  BY <1>1, <1>2, FS_Surjection

\* The keys a message adds to those after an earlier one.
LEMMA KeysAppend ==
  ASSUME NEW h \in Seq(Sends), NEW s \in Sends
  PROVE  /\ Append(h, s) \in Seq(Sends) /\ DOMAIN Append(h, s) = DOMAIN h \cup {Len(h) + 1}
         /\ Append(h, s)[Len(h) + 1] = s
         /\ \A i \in DOMAIN h : Append(h, s)[i] = h[i]
         /\ \A i \in DOMAIN h : \A j \in 1..(Len(h) + 1) :
              KeysBetween(Append(h, s), i, j) = KeysBetween(h, i, j)
         /\ \A i \in DOMAIN h :
              KeysAfter(Append(h, s), i) = KeysAfter(h, i) \cup ({WireKey(s)} \ {NoKey})
<1>1. /\ Append(h, s) \in Seq(Sends) /\ DOMAIN Append(h, s) = DOMAIN h \cup {Len(h) + 1}
      /\ Append(h, s)[Len(h) + 1] = s /\ Len(Append(h, s)) = Len(h) + 1 /\ Len(h) \in Nat
      /\ \A i \in DOMAIN h : Append(h, s)[i] = h[i]
  OBVIOUS
<1>2. ASSUME NEW i \in DOMAIN h, NEW j \in 1..(Len(h) + 1)
      PROVE  KeysBetween(Append(h, s), i, j) = KeysBetween(h, i, j)
  <2>1. \A m \in (i + 1)..(j - 1) : m \in DOMAIN h
    BY <1>1
  <2>2. QED
    BY <1>1, <2>1 DEF KeysBetween
<1>3. ASSUME NEW i \in DOMAIN h
      PROVE  KeysAfter(Append(h, s), i) = KeysAfter(h, i) \cup ({WireKey(s)} \ {NoKey})
  <2>1. (i + 1)..(Len(Append(h, s)) + 1 - 1) = ((i + 1)..(Len(h) + 1 - 1)) \cup {Len(h) + 1}
    BY <1>1
  <2>2. \A m \in (i + 1)..(Len(h) + 1 - 1) : Append(h, s)[m] = h[m]
    BY <1>1
  <2>3. QED
    BY <1>1, <2>1, <2>2 DEF KeysAfter, KeysBetween
<1>4. QED
  BY <1>1, <1>2, <1>3

\* A message whose key the cache does not hold is met.
LEMMA MeetNew ==
  ASSUME NEW h \in Seq(Sends), NEW c \in Seq(Keys), Len(c) <= MaxPending, Recalls(h, c),
         NEW s \in Sends, WireKey(s) \notin ToSet(c)
  PROVE  Recalls(Append(h, s), IF WireKey(s) = NoKey THEN c ELSE Remember(c, WireKey(s)))
<1> DEFINE g == Append(h, s)
           k == WireKey(s)
           new == Len(h) + 1
<1>1. /\ g \in Seq(Sends) /\ DOMAIN g = DOMAIN h \cup {new} /\ g[new] = s
      /\ \A i \in DOMAIN h : g[i] = h[i] /\ Keyed(g, i) = Keyed(h, i)
      /\ \A i \in DOMAIN h : \A j \in 1..new : KeysBetween(g, i, j) = KeysBetween(h, i, j)
      /\ \A i \in DOMAIN h : KeysAfter(g, i) = KeysAfter(h, i) \cup ({k} \ {NoKey})
      /\ Len(h) \in Nat /\ Len(c) \in Nat /\ \A i \in DOMAIN h : i < new /\ i \in Nat
  BY KeysAppend DEF Keyed
<1>2. IsInjective(c) /\ PushedOut(h, c) /\ InMeetingOrder(h, c) /\ Spaced(h)
  BY DEF Recalls
<1> HIDE DEF g, k, new
<1>3. Spaced(g)
  <2>1. SUFFICES ASSUME NEW i \in DOMAIN g, NEW j \in DOMAIN g, i < j,
                        WireKey(g[i]) = WireKey(g[j]), Keyed(g, i)
                 PROVE  Cardinality(KeysBetween(g, i, j) \ {WireKey(g[i])}) >= MaxPending
    BY DEF Spaced
  <2>2. i \in DOMAIN h
    BY <1>1, <2>1 DEF new
  <2>3. CASE j \in DOMAIN h
    <3>1. j \in 1..new
      BY <1>1, <2>3 DEF new
    <3>2. KeysBetween(g, i, j) = KeysBetween(h, i, j) /\ g[i] = h[i] /\ g[j] = h[j] /\ Keyed(h, i)
      BY <1>1, <2>1, <2>2, <2>3, <3>1
    <3>3. QED
      BY <1>2, <2>1, <2>2, <2>3, <3>2 DEF Spaced
  <2>4. CASE j = new
    <3>1. WireKey(g[i]) = k /\ WireKey(h[i]) = k /\ Keyed(h, i)
      BY <1>1, <2>1, <2>2, <2>4 DEF k
    <3>2. Len(c) = MaxPending /\ ToSet(c) \subseteq KeysAfter(h, i)
      BY <1>2, <2>2, <3>1 DEF PushedOut, k
    <3>3. KeysBetween(g, i, j) = KeysAfter(h, i)
      BY <1>1, <2>2, <2>4 DEF KeysAfter, new
    <3>4. ToSet(c) \subseteq KeysBetween(g, i, j) \ {k}
      BY <3>2, <3>3 DEF k
    <3>5. IsFiniteSet(KeysBetween(g, i, j) \ {k})
      <4>1. i \in Nat /\ j \in Nat
        BY <1>1, <2>2, <2>4 DEF new
      <4>2. IsFiniteSet(KeysBetween(g, i, j))
        BY <4>1, KeysFinite
      <4>3. QED
        BY <4>2, FS_Subset
    <3>6. /\ Cardinality(ToSet(c)) = Len(c)
          /\ Cardinality(ToSet(c)) <= Cardinality(KeysBetween(g, i, j) \ {k})
      BY <1>2, <3>4, <3>5, CacheCardinality, FS_Subset
    <3>7. QED
      BY <3>1, <3>2, <3>6
  <2>5. QED
    BY <1>1, <2>1, <2>3, <2>4
<1>4. CASE k = NoKey
  <2>1. \A i \in DOMAIN g : Keyed(g, i) => i \in DOMAIN h
    BY <1>1, <1>4 DEF Keyed, k
  <2>2. PushedOut(g, c)
    BY <1>1, <1>2, <2>1 DEF PushedOut
  <2>3. InMeetingOrder(g, c)
    <3>1. \A a \in DOMAIN c : c[a] # NoKey
      BY DEF Keys
    <3>2. ASSUME NEW a \in DOMAIN c, NEW b \in DOMAIN c, NEW i \in DOMAIN g,
                 a < b, WireKey(g[i]) = c[a]
          PROVE  c[b] \in KeysAfter(g, i)
      <4>1. i \in DOMAIN h /\ WireKey(h[i]) = c[a]
        BY <1>1, <2>1, <3>1, <3>2 DEF Keyed
      <4>2. QED
        BY <1>1, <1>2, <3>2, <4>1 DEF InMeetingOrder
    <3>3. QED
      BY <3>2 DEF InMeetingOrder
  <2>4. QED
    BY <1>2, <1>3, <1>4, <2>2, <2>3 DEF Recalls, g, k
<1>5. CASE k # NoKey
  <2> DEFINE d == Append(c, k)
  <2>1. k \in Keys /\ k \notin ToSet(c)
    BY <1>5 DEF Keys, k
  <2>2. /\ d \in Seq(Keys) /\ d # <<>> /\ Len(d) = Len(c) + 1 /\ d[Len(c) + 1] = k
        /\ \A a \in DOMAIN c : d[a] = c[a] /\ a <= Len(c) /\ a \in Nat
        /\ DOMAIN d = DOMAIN c \cup {Len(c) + 1}
    BY <2>1
  <2>3. IsInjective(d) /\ ToSet(d) = ToSet(c) \cup {k}
    <3>1. \A a \in DOMAIN c : c[a] # k
      BY <2>1 DEF ToSet
    <3>2. QED
      BY <1>2, <2>2, <3>1 DEF IsInjective, ToSet
\* The order goes on as if nothing were pushed out.
  <2> HIDE DEF d
  <2>4. InMeetingOrder(g, d)
    <3>1. SUFFICES ASSUME NEW a \in DOMAIN d, NEW b \in DOMAIN d, NEW i \in DOMAIN g,
                          a < b, WireKey(g[i]) = d[a]
                   PROVE  d[b] \in KeysAfter(g, i)
      BY DEF InMeetingOrder
    <3>2. a \in DOMAIN c
      BY <1>1, <2>2, <3>1
    <3>3. i \in DOMAIN h /\ WireKey(h[i]) = c[a]
      <4>1. c[a] \in ToSet(c) /\ d[a] = c[a]
        BY <2>2, <3>2 DEF ToSet
      <4>2. i # new
        BY <1>1, <2>1, <3>1, <4>1 DEF k
      <4>3. QED
        BY <1>1, <3>1, <4>1, <4>2
    <3>4. CASE b \in DOMAIN c
      <4>1. c[b] \in KeysAfter(h, i) /\ d[b] = c[b]
        BY <1>2, <2>2, <3>1, <3>2, <3>3, <3>4 DEF InMeetingOrder
      <4>2. QED
        BY <1>1, <3>3, <4>1
    <3>5. CASE b = Len(c) + 1
      BY <1>1, <1>5, <2>2, <3>3, <3>5
    <3>6. QED
      BY <2>2, <3>4, <3>5
  <2>5. CASE Len(c) + 1 <= MaxPending
    <3>1. PushedOut(g, d)
      <4>1. \A i \in DOMAIN h : Keyed(h, i) => WireKey(h[i]) \in ToSet(c)
        BY <1>1, <1>2, <2>5 DEF PushedOut
      <4>2. \A i \in DOMAIN g : Keyed(g, i) => WireKey(g[i]) \in ToSet(d)
        BY <1>1, <2>3, <4>1 DEF k
      <4>3. QED
        BY <4>2 DEF PushedOut
    <3>2. Remember(c, k) = d
      BY <1>1, <2>5 DEF Remember, d
    <3>3. QED
      BY <1>3, <1>5, <2>3, <2>4, <3>1, <3>2 DEF Recalls, g, k
  <2>6. CASE Len(c) + 1 > MaxPending
    <3> DEFINE e == Tail(d)
    <3>1. /\ Len(c) = MaxPending /\ Len(e) = MaxPending /\ DOMAIN e = 1..MaxPending
          /\ \A a \in DOMAIN e : a + 1 \in DOMAIN d /\ e[a] = d[a + 1] /\ a \in Nat
          /\ \A a \in DOMAIN d : a # 1 => a - 1 \in DOMAIN e /\ e[a - 1] = d[a]
          /\ 1 \in DOMAIN c
      BY <1>1, <2>2, <2>6
    <3>2. Remember(c, k) = e
      BY <1>1, <2>6 DEF Remember, d
    <3> HIDE DEF e
    <3>3. IsInjective(e)
      <4>1. SUFFICES ASSUME NEW a \in DOMAIN e, NEW b \in DOMAIN e, e[a] = e[b]
                     PROVE  a = b
        BY DEF IsInjective
      <4>2. a + 1 = b + 1
        BY <2>3, <3>1, <4>1 DEF IsInjective
      <4>3. QED
        BY <3>1, <4>2
    <3>4. InMeetingOrder(g, e)
      <4>1. SUFFICES ASSUME NEW a \in DOMAIN e, NEW b \in DOMAIN e, NEW i \in DOMAIN g,
                            a < b, WireKey(g[i]) = e[a]
                     PROVE  e[b] \in KeysAfter(g, i)
        BY DEF InMeetingOrder
      <4>2. a + 1 < b + 1 /\ a + 1 \in DOMAIN d /\ b + 1 \in DOMAIN d /\ WireKey(g[i]) = d[a + 1]
        BY <3>1, <4>1
      <4>3. d[b + 1] \in KeysAfter(g, i)
        BY <2>4, <4>2 DEF InMeetingOrder
      <4>4. QED
        BY <3>1, <4>3
    <3>5. \A x \in ToSet(d) : x = d[1] \/ x \in ToSet(e)
      BY <3>1 DEF ToSet
    <3>6. \A x \in ToSet(e) : x \in ToSet(d) /\ \E a \in DOMAIN d : 1 < a /\ x = d[a]
      <4>1. ASSUME NEW x \in ToSet(e)
            PROVE  x \in ToSet(d) /\ \E a \in DOMAIN d : 1 < a /\ x = d[a]
        <5>1. PICK a \in DOMAIN e : x = e[a]
          BY DEF ToSet
        <5>2. a + 1 \in DOMAIN d /\ x = d[a + 1] /\ 1 < a + 1
          BY <3>1, <5>1
        <5>3. QED
          BY <5>2 DEF ToSet
      <4>2. QED
        BY <4>1
    <3>7. PushedOut(g, e)
      <4>1. SUFFICES ASSUME NEW i \in DOMAIN g, Keyed(g, i), WireKey(g[i]) \notin ToSet(e)
                     PROVE  ToSet(e) \subseteq KeysAfter(g, i)
        BY <3>1 DEF PushedOut
      <4>2. CASE WireKey(g[i]) = d[1]
        <5>1. 1 \in DOMAIN d
          BY <2>2, <3>1
        <5>2. QED
          BY <2>4, <3>6, <4>2, <5>1 DEF InMeetingOrder
      <4>3. CASE WireKey(g[i]) # d[1]
        <5>1. WireKey(g[i]) \notin ToSet(d)
          BY <3>5, <4>1, <4>3
        <5>2. i \in DOMAIN h /\ WireKey(h[i]) \notin ToSet(c) /\ Keyed(h, i)
          BY <1>1, <2>3, <4>1, <5>1 DEF k
        <5>3. ToSet(c) \subseteq KeysAfter(h, i)
          BY <1>2, <5>2 DEF PushedOut
        <5>4. ToSet(d) \subseteq KeysAfter(g, i)
          BY <1>1, <1>5, <2>3, <5>2, <5>3
        <5>5. QED
          BY <3>6, <5>4
      <4>4. QED
        BY <4>2, <4>3
    <3>8. QED
      BY <1>3, <1>5, <3>2, <3>3, <3>4, <3>7 DEF Recalls, g, k
  <2>7. QED
    BY <1>1, <2>5, <2>6
<1>6. QED
  BY <1>4, <1>5

LEMMA CacheInit == Init => CacheInv
<1>1. SUFFICES ASSUME Init, NEW n \in Nodes
               PROVE  Recalls(Met(n), seen[n])
  BY DEF CacheInv
<1>2. Met(n) = <<>> /\ seen[n] = <<>>
  BY <1>1 DEF Init, Met
<1>3. Recalls(<<>>, <<>>)
  BY DEF Recalls, IsInjective, PushedOut, InMeetingOrder, Spaced
<1>4. QED
  BY <1>2, <1>3

LEMMA CacheStep ==
  ASSUME DeliveryTypeOK, CacheInv, [Next]_deliveryVars
  PROVE  CacheInv'
<1>1. SUFFICES ASSUME NEW n \in Nodes
               PROVE  Recalls(Met(n), seen[n])'
  BY DEF CacheInv
<1>2. Recalls(Met(n), seen[n])
  BY DEF CacheInv
\* Whatever leaves these three alone leaves the cache right.
<1>3. CASE hand'[n] = hand[n] /\ life'[n] = life[n] /\ seen'[n] = seen[n]
  <2>1. Met(n)' = Met(n)
    BY <1>3 DEF Met
  <2>2. (Recalls(Met(n), seen[n]))' <=> Recalls(Met(n)', seen[n]')
    BY DEF Recalls, PushedOut, InMeetingOrder, Spaced, KeysAfter, KeysBetween, Keyed, IsInjective
  <2>3. QED
    BY <1>2, <1>3, <2>1, <2>2
<1>4. ASSUME NEW m \in Nodes, m # n, StopNode(m) \/ Receive(m) \/ HandleCommand(m)
      PROVE  hand'[n] = hand[n] /\ life'[n] = life[n] /\ seen'[n] = seen[n]
  BY <1>4 DEF StopNode, Receive, HandleCommand, DeliveryTypeOK
<1>5. ASSUME NEW m \in Nodes, StartNode(m) \/ Subscribe(m) \/ StartThreads(m)
      PROVE  hand'[n] = hand[n] /\ life'[n] = life[n] /\ seen'[n] = seen[n]
  BY <1>5 DEF StartNode, Subscribe, StartThreads, nodeVars
<1>6. ASSUME \/ \E s \in Sends : SendCommand(s)
             \/ RelayCommand \/ StopBroker \/ StartBroker
             \/ UNCHANGED deliveryVars
      PROVE  hand'[n] = hand[n] /\ life'[n] = life[n] /\ seen'[n] = seen[n]
  BY <1>6 DEF SendCommand, RelayCommand, StopBroker, StartBroker, nodeVars, deliveryVars
<1>7. CASE StopNode(n)
  <2>1. Met(n)' = <<>> /\ seen'[n] = <<>>
    BY <1>7 DEF StopNode, Met, DeliveryTypeOK
  <2>2. Recalls(<<>>, <<>>)
    BY DEF Recalls, IsInjective, PushedOut, InMeetingOrder, Spaced
  <2>3. QED
    BY <2>1, <2>2
<1>8. CASE Receive(n)
  <2> DEFINE s == Head(inbox[n])
             k == WireKey(s)
             dropped == s \in Malformed \/ (k # NoKey /\ k \in ToSet(seen[n]))
  <2>1. /\ hand[n] = NoMessage
        /\ hand' = [hand EXCEPT ![n] = IF dropped THEN NoMessage ELSE s]
        /\ seen' = [seen EXCEPT ![n] = IF dropped \/ k = NoKey THEN seen[n]
                                                  ELSE Remember(seen[n], k)]
        /\ life' = life
        /\ inbox[n] # <<>>
    BY <1>8 DEF Receive, Bus!TakeFrom
  <2>2. /\ s \in Sends /\ life[n] \in Seq(Sends)
        /\ seen[n] \in Seq(Keys) /\ Len(seen[n]) <= MaxPending
    <3>1. inbox[n] \in Seq(Sends) /\ life[n] \in Seq(Sends)
      BY DEF DeliveryTypeOK, Bus!BusTypeOK
    <3>2. seen[n] \in Seq(Keys) /\ Len(seen[n]) <= MaxPending
      BY DEF DeliveryTypeOK, Keys
    <3>3. QED
      BY <2>1, <3>1, <3>2
  <2>3. Met(n) = life[n]
    BY <2>1 DEF Met
  <2> HIDE DEF s, k, dropped
  <2>4. CASE dropped
    <3>1. hand'[n] = hand[n] /\ life'[n] = life[n] /\ seen'[n] = seen[n]
      BY <2>1, <2>4 DEF DeliveryTypeOK
    <3>2. QED
      BY <1>3, <3>1
  <2>5. CASE ~dropped
    <3>1. k \notin ToSet(seen[n])
      <4>1. NoKey \notin ToSet(seen[n])
        BY <2>2 DEF ToSet, Keys
      <4>2. QED
        BY <2>5, <4>1 DEF dropped
    <3>2. Met(n)' = Append(life[n], s)
      BY <2>1, <2>2, <2>5 DEF Met, DeliveryTypeOK
    <3>3. seen'[n] = IF k = NoKey THEN seen[n] ELSE Remember(seen[n], k)
      BY <2>1, <2>5 DEF DeliveryTypeOK
    <3>4. Recalls(Append(life[n], s), seen'[n])
      <4>1. Recalls(life[n], seen[n])
        BY <1>2, <2>3
      <4>2. QED
        BY <2>2, <3>1, <3>3, <4>1, MeetNew DEF k
    <3>5. QED
      BY <3>2, <3>4
  <2>6. QED
    BY <2>4, <2>5
<1>9. CASE HandleCommand(n)
  <2>1. Met(n)' = Met(n) /\ seen'[n] = seen[n]
    BY <1>9 DEF HandleCommand, Met, DeliveryTypeOK
  <2>2. QED
    BY <1>2, <2>1
<1>10. QED
  BY <1>3, <1>4, <1>5, <1>6, <1>7, <1>8, <1>9 DEF Next, CommandLoop

\* What was handled is the beginning of what was met.
LEMMA AppliedOnceHolds ==
  ASSUME DeliveryTypeOK, CacheInv
  PROVE  AppliedOnce
<1>1. SUFFICES ASSUME NEW n \in Nodes
               PROVE  Spaced(life[n])
  BY DEF AppliedOnce, Spaced, Keyed
<1>2. Spaced(Met(n))
  BY DEF CacheInv, Recalls
<1>3. CASE hand[n] = NoMessage
  BY <1>2, <1>3 DEF Met
<1>4. CASE hand[n] # NoMessage
  <2> DEFINE h == life[n]
             g == Append(h, hand[n])
  <2>1. h \in Seq(Sends) /\ hand[n] \in Sends
    BY <1>4 DEF DeliveryTypeOK
  <2>2. Spaced(g)
    BY <1>2, <1>4 DEF Met
  <2>3. \A i \in DOMAIN h : i \in 1..(Len(h) + 1) /\ i \in DOMAIN g /\ g[i] = h[i]
    BY <2>1
  <2>4. \A i, j \in DOMAIN h : KeysBetween(g, i, j) = KeysBetween(h, i, j)
    BY <2>1, <2>3, KeysAppend
  <2> HIDE DEF g, h
  <2>5. Spaced(h)
    BY <2>2, <2>3, <2>4 DEF Spaced, Keyed
  <2>6. QED
    BY <2>5 DEF h
<1>5. QED
  BY <1>3, <1>4

\* A key is applied again in the life of a node only when MaxPending other
\* keys came between: the bounded cache forgets the oldest and no other.
THEOREM KeysAppliedOnce == DeliverySpec => []AppliedOnce
<1>1. Init => CacheInv
  BY CacheInit
<1>2. DeliveryTypeOK /\ CacheInv /\ [Next]_deliveryVars => CacheInv'
  BY CacheStep
<1>3. DeliveryTypeOK /\ CacheInv => AppliedOnce
  BY AppliedOnceHolds
<1>4. QED
  BY <1>1, <1>2, <1>3, TypeCorrect, PTL DEF DeliverySpec
=============================================================================
