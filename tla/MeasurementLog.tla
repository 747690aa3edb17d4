--------------------------- MODULE MeasurementLog ---------------------------
(***************************************************************************)
(* What the controller promises the loops of its apps about the            *)
(* measurements of one node: measurements are numbered in the order they   *)
(* were received, an app may miss some of them (the oldest it has not read *)
(* or the one just received), each is taken by at most one loop of an app, *)
(* and a loop always takes the oldest one there is.  What a loop hands to  *)
(* process() is therefore ordered oldest first and never older than what   *)
(* the same loop handed over before.                                       *)
(***************************************************************************)
EXTENDS Naturals, Sequences

CONSTANTS Apps, Loops, AppOf(_)

VARIABLES
  offered,  \* how many measurements have been received
  avail,    \* those an app can still get
  hand,     \* those a loop has taken for its next call of process()
  seen      \* the newest one a loop handed to process()

logVars == <<offered, avail, hand, seen>>

Oldest(S) == CHOOSE i \in S : \A j \in S : i <= j

Init ==
  /\ offered = 0
  /\ avail = [a \in Apps |-> {}]
  /\ hand = [l \in Loops |-> <<>>]
  /\ seen = [l \in Loops |-> 0]

Offer ==
  /\ offered' = offered + 1
  /\ avail' = [a \in Apps |-> avail[a] \cup {offered + 1}]
  /\ UNCHANGED <<hand, seen>>

Lose ==
  /\ \A a \in Apps :
       \/ avail'[a] = avail[a] \ {offered}
       \/ avail[a] # {} /\ avail'[a] = avail[a] \ {Oldest(avail[a])}
       \/ avail'[a] = avail[a]
  /\ DOMAIN avail' = Apps
  /\ UNCHANGED <<offered, hand, seen>>

Take(l) ==
  LET a == AppOf(l) IN
  /\ avail[a] # {}
  /\ hand' = [hand EXCEPT ![l] = Append(@, Oldest(avail[a]))]
  /\ avail' = [avail EXCEPT ![a] = @ \ {Oldest(avail[a])}]
  /\ UNCHANGED <<offered, seen>>

Process(l) ==
  /\ hand[l] # <<>>
  /\ seen' = [seen EXCEPT ![l] = hand[l][Len(hand[l])]]
  /\ hand' = [hand EXCEPT ![l] = <<>>]
  /\ UNCHANGED <<offered, avail>>

\* A loop dies with what it holds, perhaps of the measurement it took last.
Crash(l) ==
  /\ hand' = [hand EXCEPT ![l] = <<>>]
  /\ LET a == AppOf(l) IN
     avail' \in {avail, [avail EXCEPT ![a] = @ \ {Oldest(@ \cup {offered})}]}
  /\ UNCHANGED <<offered, seen>>

Next ==
  \/ Offer \/ Lose
  \/ \E l \in Loops : Take(l) \/ Process(l) \/ Crash(l)

Spec == Init /\ [][Next]_logVars
=============================================================================
