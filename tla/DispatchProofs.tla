--------------------------- MODULE DispatchProofs ---------------------------
(***************************************************************************)
(* Type correctness of CommandDispatch, that a command in flight is in one *)
(* place, and that the mitigator drops a command only for one that goes    *)
(* on in its stead, for any apps, callers and commands.                    *)
(***************************************************************************)
EXTENDS CommandDispatch, FiniteSetTheorems, WellFoundedInduction, TLAPS

(***************************************************************************)
(* What the properties rest on.  A thread has a command in hand exactly    *)
(* while it dispatches one.  A managed app's deque holds its own commands, *)
(* so what the mitigator has drained is ordered by the rank of the app; it *)
(* holds commands only while it drains.  And what won against a superseded *)
(* command is on its way through the mitigator's own deque, from which no  *)
(* command returns, or is settled.                                         *)
(***************************************************************************)
Dispatching == {"check", "stamp", "compare", "record", "send"}
ThreadAt ==
  /\ \A p \in Threads : hand[p] # None <=> pc[p] \in Dispatching
  /\ pc[Mitigator] # "drain" => pending = <<>>

Drained ==
  /\ \A a \in ManagedApps : \A c \in ToSet(queue[a]) : Owner[c] = a
  /\ \A c \in ToSet(queue[Mitigator]) : Owner[c] \in ManagedApps
  /\ \A i \in DOMAIN pending :
       Owner[pending[i]] \in ManagedApps /\ Rank(pending[i]) <= draining
  /\ \A i, j \in DOMAIN pending : i < j => Rank(pending[i]) <= Rank(pending[j])

Forwarded(w) ==
  outcome[w] \in {"sent", "rejected", "lost"} \/ w \in ToSet(queue[Mitigator]) \/ hand[Mitigator] = w
Outranked ==
  \A c \in Commands : outcome[c] = "superseded" =>
    \E w \in Commands \ {c} :
      /\ Target[w] = Target[c] /\ Owner[w] \in ManagedApps
      /\ Rank(w) <= Rank(c)
      /\ Forwarded(w)

DispatchInv == DispatchTypeOK /\ ThreadAt /\ OnePlace /\ Drained /\ Outranked

placeVars == <<queue, hand, pending, outcome>>

USE DispatchAssumption

-----------------------------------------------------------------------------
(* Deques of commands that are all different.                              *)

LEMMA Popped ==
  ASSUME NEW q \in Seq(Commands), q # <<>>, IsInjective(q)
  PROVE  /\ Head(q) \in Commands /\ Tail(q) \in Seq(Commands) /\ IsInjective(Tail(q))
         /\ Head(q) \in ToSet(q) /\ ToSet(Tail(q)) = ToSet(q) \ {Head(q)}
<1>1. /\ Head(q) \in Commands /\ Tail(q) \in Seq(Commands) /\ Len(Tail(q)) = Len(q) - 1
      /\ Head(q) = q[1] /\ 1 \in DOMAIN q
      /\ \A i \in 1..(Len(q) - 1) : Tail(q)[i] = q[i + 1]
  OBVIOUS
<1>2. \A i, j \in DOMAIN q : q[i] = q[j] => i = j
  BY DEF IsInjective
<1>3. IsInjective(Tail(q))
  BY <1>1, <1>2 DEF IsInjective
<1>4. ASSUME NEW c \in ToSet(Tail(q)) PROVE c \in ToSet(q) /\ c # Head(q)
  <2>1. PICK i \in 1..(Len(q) - 1) : c = q[i + 1]
    BY <1>1 DEF ToSet
  <2>2. QED
    BY <1>1, <1>2, <2>1 DEF ToSet
<1>5. ASSUME NEW c \in ToSet(q), c # Head(q) PROVE c \in ToSet(Tail(q))
  <2>1. PICK i \in DOMAIN q : c = q[i]
    BY DEF ToSet
  <2>2. i - 1 \in 1..(Len(q) - 1) /\ Tail(q)[i - 1] = q[i] /\ i - 1 \in DOMAIN Tail(q)
    BY <1>1, <1>5, <2>1
  <2>3. QED
    BY <2>1, <2>2 DEF ToSet
<1>6. Head(q) \in ToSet(q)
  BY <1>1 DEF ToSet
<1>7. QED
  BY <1>1, <1>3, <1>4, <1>5, <1>6

LEMMA Pushed ==
  ASSUME NEW q \in Seq(Commands), NEW c \in Commands, c \notin ToSet(q), IsInjective(q)
  PROVE  /\ Append(q, c) \in Seq(Commands) /\ IsInjective(Append(q, c))
         /\ ToSet(Append(q, c)) = ToSet(q) \cup {c}
<1>1. /\ Append(q, c) \in Seq(Commands) /\ DOMAIN Append(q, c) = DOMAIN q \cup {Len(q) + 1}
      /\ Append(q, c)[Len(q) + 1] = c
      /\ \A i \in DOMAIN q : Append(q, c)[i] = q[i]
  OBVIOUS
<1>2. \A i \in DOMAIN q : q[i] # c
  BY DEF ToSet
<1>3. IsInjective(Append(q, c))
  BY <1>1, <1>2 DEF IsInjective
<1>4. ToSet(Append(q, c)) = ToSet(q) \cup {c}
  BY <1>1 DEF ToSet
<1>5. QED
  BY <1>1, <1>3, <1>4

LEMMA Joined ==
  ASSUME NEW q \in Seq(Commands), NEW r \in Seq(Commands),
         IsInjective(q), IsInjective(r), ToSet(q) \cap ToSet(r) = {}
  PROVE  /\ q \o r \in Seq(Commands) /\ IsInjective(q \o r)
         /\ ToSet(q \o r) = ToSet(q) \cup ToSet(r)
<1>1. /\ q \o r \in Seq(Commands) /\ Len(q \o r) = Len(q) + Len(r)
      /\ \A i \in 1..(Len(q) + Len(r)) :
           (q \o r)[i] = IF i <= Len(q) THEN q[i] ELSE r[i - Len(q)]
  OBVIOUS
<1>2. \A i \in DOMAIN q, j \in DOMAIN r : q[i] # r[j]
  BY DEF ToSet
<1>3. \A i \in (Len(q) + 1)..(Len(q) + Len(r)) : i - Len(q) \in DOMAIN r
  OBVIOUS
<1>4. IsInjective(q \o r)
  <2>1. SUFFICES ASSUME NEW i \in 1..(Len(q) + Len(r)), NEW j \in 1..(Len(q) + Len(r)),
                        (q \o r)[i] = (q \o r)[j]
                 PROVE  i = j
    BY <1>1 DEF IsInjective
  <2>2. CASE i <= Len(q) /\ j <= Len(q)
    BY <1>1, <2>1, <2>2 DEF IsInjective
  <2>3. CASE i > Len(q) /\ j > Len(q)
    <3>1. i - Len(q) \in DOMAIN r /\ j - Len(q) \in DOMAIN r /\ r[i - Len(q)] = r[j - Len(q)]
      BY <1>1, <1>3, <2>1, <2>3
    <3>2. i - Len(q) = j - Len(q)
      BY <3>1 DEF IsInjective
    <3>3. QED
      BY <3>2
  <2>4. QED
    BY <1>1, <1>2, <1>3, <2>1, <2>2, <2>3
<1>5. ToSet(q \o r) = ToSet(q) \cup ToSet(r)
  <2>1. \A i \in DOMAIN q : i \in DOMAIN (q \o r) /\ (q \o r)[i] = q[i]
    BY <1>1
  <2>2. \A i \in DOMAIN r : i + Len(q) \in DOMAIN (q \o r) /\ (q \o r)[i + Len(q)] = r[i]
    BY <1>1
  <2>3. \A i \in DOMAIN (q \o r) : (q \o r)[i] \in ToSet(q) \cup ToSet(r)
    BY <1>1, <1>3 DEF ToSet
  <2>4. ToSet(q) \subseteq ToSet(q \o r)
    BY <2>1 DEF ToSet
  <2>5. ToSet(r) \subseteq ToSet(q \o r)
    BY <2>2 DEF ToSet
  <2>6. ToSet(q \o r) \subseteq ToSet(q) \cup ToSet(r)
    BY <2>3 DEF ToSet
  <2>7. QED
    BY <2>4, <2>5, <2>6
<1>6. QED
  BY <1>1, <1>4, <1>5

\* A set of natural numbers that is not empty has a least member.
LEMMA LeastMember ==
  ASSUME NEW S \in SUBSET Nat, S # {}
  PROVE  \E i \in S : \A j \in S : i <= j
<1>1. PICK i \in S : \A j \in S : <<j, i>> \notin OpToRel(<, Nat)
  BY NatLessThanWellFounded, WFMin
<1>2. \A j \in S : ~(j < i)
  BY <1>1 DEF OpToRel
<1>3. QED
  BY <1>2

LEMMA RankOf ==
  ASSUME NEW c, Owner[c] \in ManagedApps
  PROVE  /\ Rank(c) \in DOMAIN Managed
         /\ \A i \in DOMAIN Managed : Managed[i] = Owner[c] <=> Rank(c) = i
<1>1. \E i \in DOMAIN Managed : Managed[i] = Owner[c]
  BY DEF ManagedApps
<1>2. Rank(c) \in DOMAIN Managed /\ Managed[Rank(c)] = Owner[c]
  BY <1>1 DEF Rank
<1>3. QED
  BY <1>2 DEF IsInjective

-----------------------------------------------------------------------------
(* Type correctness, action by action.                                     *)

LEMMA ConstantTypes ==
  /\ Mitigator \in Apps /\ Mitigator \in Threads /\ Mitigator \notin Callers
  /\ ManagedApps \subseteq Apps /\ Apps \subseteq Threads /\ Callers \subseteq Threads
  /\ \A c \in Commands : Owner[c] \in ManagedApps \cup Callers /\ Target[c] \in Targets
  /\ Len(Managed) \in Nat /\ DOMAIN Managed = 1..Len(Managed)
  /\ \A i \in DOMAIN Managed : Managed[i] \in ManagedApps
  /\ \A a \in ManagedApps : a # Mitigator
BY DEF Apps, Threads, ManagedApps, Targets

LEMMA InitInv == Init => DispatchInv
<1> SUFFICES ASSUME Init PROVE DispatchInv
  OBVIOUS
<1>1. DispatchTypeOK
  BY ConstantTypes DEF Init, DispatchTypeOK, Outcomes, mitigatorVars
<1>2. ThreadAt
  BY DEF Init, ThreadAt, Dispatching
<1>3. \A a \in Apps : ToSet(queue[a]) = {} /\ IsInjective(queue[a])
  BY DEF Init, ToSet, IsInjective
<1>4. ToSet(pending) = {} /\ IsInjective(pending)
  BY DEF Init, ToSet, IsInjective
<1>5. OnePlace
  BY <1>3, <1>4 DEF Init, OnePlace, Queued, Held
<1>6. Drained
  BY <1>3, <1>4, ConstantTypes DEF Init, Drained
<1>7. Outranked
  BY DEF Init, Outranked
<1>8. QED
  BY <1>1, <1>2, <1>5, <1>6, <1>7 DEF DispatchInv

\* The parts of the invariant that speak of where the commands are follow from
\* where they are.
LEMMA PlacesStay ==
  ASSUME DispatchInv, UNCHANGED <<queue, hand, pending, outcome>>, draining' = draining
  PROVE  OnePlace' /\ Drained' /\ Outranked'
<1>1. OnePlace'
  <2>1. Queued' = Queued /\ Held' = Held
    BY DEF Queued, Held
  <2>2. QED
    BY <2>1 DEF DispatchInv, OnePlace
<1>2. Drained'
  BY DEF DispatchInv, Drained
<1>3. Outranked'
  BY DEF DispatchInv, Outranked, Forwarded
<1>4. QED
  BY <1>1, <1>2, <1>3

\* What is in flight is open.
LEMMA InFlightOpen ==
  ASSUME DispatchInv
  PROVE  /\ \A p \in Threads : hand[p] # None => hand[p] \in Commands /\ outcome[hand[p]] = "open"
         /\ \A a \in Apps : \A c \in ToSet(queue[a]) : c \in Commands /\ outcome[c] = "open"
         /\ \A c \in ToSet(pending) : c \in Commands /\ outcome[c] = "open"
BY DEF DispatchInv, OnePlace, Queued, Held

\* A command that went on keeps on its way.
LEMMA OutrankedStays ==
  ASSUME DispatchInv,
         \A c \in Commands : outcome'[c] = "superseded" => outcome[c] = "superseded",
         \A w \in Commands : Forwarded(w) => Forwarded(w)'
  PROVE  Outranked'
BY DEF DispatchInv, Outranked

-----------------------------------------------------------------------------
(* The steps that move a command.                                          *)

LEMMA SettleInv ==
  ASSUME DispatchInv, NEW p \in Threads, hand[p] # None,
         NEW what \in {"sent", "rejected", "lost"}, NEW label, Settle(p, what, label),
         UNCHANGED <<queue, pending, draining>>
  PROVE  /\ OnePlace' /\ Drained' /\ Outranked'
         /\ hand' \in [Threads -> Commands \cup {None}] /\ outcome' \in [Commands -> Outcomes]
<1> DEFINE c == hand[p]
<1>1. c \in Commands /\ outcome[c] = "open" /\ c \notin Queued /\ c \notin ToSet(pending)
      /\ \A q \in Threads : q # p => hand[q] # c
  BY InFlightOpen DEF DispatchInv, OnePlace, Held
<1>2. /\ hand \in [Threads -> Commands \cup {None}] /\ outcome \in [Commands -> Outcomes]
      /\ hand' = [hand EXCEPT ![p] = None] /\ outcome' = [outcome EXCEPT ![c] = what]
  BY DEF DispatchInv, DispatchTypeOK, Settle
<1> HIDE DEF c
<1>3. Queued' = Queued /\ Held' = Held \ {c}
  <2>1. \A q \in Threads : hand'[q] = IF q = p THEN None ELSE hand[q]
    BY <1>2
  <2>2. c = hand[p] /\ c # None
    BY DEF c
  <2>3. QED
    BY <1>1, <2>1, <2>2 DEF Queued, Held
<1>4. {x \in Commands : outcome'[x] = "open"} = {x \in Commands : outcome[x] = "open"} \ {c}
  BY <1>1, <1>2
<1>5. OnePlace'
  <2>1. \A q, r \in Threads : q # r /\ hand'[q] # None => hand'[q] # hand'[r]
    BY <1>2 DEF DispatchInv, OnePlace
  <2>2. QED
    BY <1>1, <1>3, <1>4, <2>1 DEF DispatchInv, OnePlace
<1>6. Drained'
  BY DEF DispatchInv, Drained
<1>7. Outranked'
  <2>1. \A w \in Commands : Forwarded(w) => Forwarded(w)'
    BY <1>1, <1>2, ConstantTypes DEF Forwarded, c
  <2>2. \A w \in Commands : outcome'[w] = "superseded" => outcome[w] = "superseded"
    BY <1>1, <1>2
  <2>3. QED
    BY <2>1, <2>2, OutrankedStays
<1>8. QED
  BY <1>1, <1>2, <1>5, <1>6, <1>7 DEF Outcomes

\* One deque changes, to commands that are in no other.
LEMMA DequeChanges ==
  ASSUME DispatchInv, NEW a \in Apps, NEW q \in Seq(Commands), IsInjective(q),
         queue' = [queue EXCEPT ![a] = q],
         \A b \in Apps : \A x \in ToSet(q) : b # a => x \notin ToSet(queue[b])
  PROVE  /\ queue' \in [Apps -> Seq(Commands)]
         /\ queue'[a] = q /\ \A b \in Apps : b # a => queue'[b] = queue[b]
         /\ \A b \in Apps : IsInjective(queue'[b])
         /\ \A b, d \in Apps : b # d => ToSet(queue'[b]) \cap ToSet(queue'[d]) = {}
         /\ Queued' = (Queued \ ToSet(queue[a])) \cup ToSet(q)
<1>1. queue \in [Apps -> Seq(Commands)]
  BY DEF DispatchInv, DispatchTypeOK
<1>2. queue'[a] = q /\ \A b \in Apps : b # a => queue'[b] = queue[b]
  BY <1>1
<1>3. \A b \in Apps : IsInjective(queue'[b])
  BY <1>2 DEF DispatchInv, OnePlace
<1>4. \A b, d \in Apps : \A x : b # d => ~(x \in ToSet(queue[b]) /\ x \in ToSet(queue[d]))
  BY DEF DispatchInv, OnePlace
<1>5. ASSUME NEW b \in Apps, NEW d \in Apps, b # d,
             NEW x \in ToSet(queue'[b]), x \in ToSet(queue'[d])
      PROVE  FALSE
  <2>1. CASE b = a
    <3>1. x \in ToSet(q) /\ x \in ToSet(queue[d])
      BY <1>2, <1>5, <2>1
    <3>2. QED
      BY <1>5, <2>1, <3>1
  <2>2. CASE d = a
    <3>1. x \in ToSet(q) /\ x \in ToSet(queue[b])
      BY <1>2, <1>5, <2>2
    <3>2. QED
      BY <1>5, <2>2, <3>1
  <2>3. CASE b # a /\ d # a
    <3>1. x \in ToSet(queue[b]) /\ x \in ToSet(queue[d])
      BY <1>2, <1>5, <2>3
    <3>2. QED
      BY <1>4, <1>5, <3>1
  <2>4. QED
    BY <2>1, <2>2, <2>3
<1>6. Queued' = (Queued \ ToSet(queue[a])) \cup ToSet(q)
  <2>1. \A x : x \in Queued' <=> \E b \in Apps : x \in ToSet(queue'[b])
    BY DEF Queued
  <2>2. \A x : x \in Queued <=> \E b \in Apps : x \in ToSet(queue[b])
    BY DEF Queued
  <2>3. ASSUME NEW x \in Queued'
        PROVE  x \in (Queued \ ToSet(queue[a])) \cup ToSet(q)
    <3>1. PICK b \in Apps : x \in ToSet(queue'[b])
      BY <2>1
    <3>2. CASE b = a
      BY <1>2, <3>1, <3>2
    <3>3. CASE b # a
      <4>1. x \in ToSet(queue[b])
        BY <1>2, <3>1, <3>3
      <4>2. QED
        BY <1>4, <2>2, <3>3, <4>1
    <3>4. QED
      BY <3>2, <3>3
  <2>4. ASSUME NEW x \in (Queued \ ToSet(queue[a])) \cup ToSet(q)
        PROVE  x \in Queued'
    <3>1. CASE x \in ToSet(q)
      BY <1>2, <2>1, <3>1
    <3>2. CASE x \in Queued /\ x \notin ToSet(queue[a])
      <4>1. PICK b \in Apps : x \in ToSet(queue[b])
        BY <2>2, <3>2
      <4>2. x \in ToSet(queue'[b])
        BY <1>2, <3>2, <4>1
      <4>3. QED
        BY <2>1, <4>2
    <3>3. QED
      BY <2>4, <3>1, <3>2
  <2>5. QED
    BY <2>3, <2>4
<1>7. queue' \in [Apps -> Seq(Commands)]
  BY <1>1
<1>8. QED
  BY <1>2, <1>3, <1>5, <1>6, <1>7

LEMMA EnqueueInv ==
  ASSUME DispatchInv, NEW a \in ManagedApps, NEW c \in Commands,
         Owner[c] = a, outcome[c] = "new",
         queue' = [queue EXCEPT ![a] = Append(queue[a], c)],
         outcome' = [outcome EXCEPT ![c] = "open"],
         UNCHANGED <<hand, pending, draining>>
  PROVE  /\ OnePlace' /\ Drained' /\ Outranked'
         /\ queue' \in [Apps -> Seq(Commands)] /\ outcome' \in [Commands -> Outcomes]
<1>1. queue \in [Apps -> Seq(Commands)] /\ outcome \in [Commands -> Outcomes]
      /\ a \in Apps /\ a # Mitigator
  BY ConstantTypes DEF DispatchInv, DispatchTypeOK
<1>2. c \notin Queued /\ c \notin Held /\ c \notin ToSet(pending)
  BY DEF DispatchInv, OnePlace
<1>3. \A b \in Apps : c \notin ToSet(queue[b])
  BY <1>2 DEF Queued
<1>4. /\ Append(queue[a], c) \in Seq(Commands) /\ IsInjective(Append(queue[a], c))
      /\ ToSet(Append(queue[a], c)) = ToSet(queue[a]) \cup {c}
  <2>1. queue[a] \in Seq(Commands) /\ IsInjective(queue[a])
    BY <1>1 DEF DispatchInv, OnePlace
  <2>2. QED
    BY <1>3, <2>1, Pushed, <1>1
<1>5. \A b \in Apps : \A x \in ToSet(Append(queue[a], c)) : b # a => x \notin ToSet(queue[b])
  BY <1>1, <1>3, <1>4 DEF DispatchInv, OnePlace
<1>6. /\ queue' \in [Apps -> Seq(Commands)]
      /\ queue'[a] = Append(queue[a], c) /\ \A b \in Apps : b # a => queue'[b] = queue[b]
      /\ \A b \in Apps : IsInjective(queue'[b])
      /\ \A b, d \in Apps : b # d => ToSet(queue'[b]) \cap ToSet(queue'[d]) = {}
      /\ Queued' = (Queued \ ToSet(queue[a])) \cup ToSet(Append(queue[a], c))
  <2> DEFINE q == Append(queue[a], c)
  <2>1. /\ q \in Seq(Commands) /\ IsInjective(q) /\ queue' = [queue EXCEPT ![a] = q]
        /\ \A b \in Apps : \A x \in ToSet(q) : b # a => x \notin ToSet(queue[b])
    BY <1>4, <1>5
  <2> HIDE DEF q
  <2>2. /\ queue' \in [Apps -> Seq(Commands)]
        /\ queue'[a] = q /\ \A b \in Apps : b # a => queue'[b] = queue[b]
        /\ \A b \in Apps : IsInjective(queue'[b])
        /\ \A b, d \in Apps : b # d => ToSet(queue'[b]) \cap ToSet(queue'[d]) = {}
        /\ Queued' = (Queued \ ToSet(queue[a])) \cup ToSet(q)
    BY <1>1, <2>1, DequeChanges
  <2>3. QED
    BY <2>2 DEF q
<1>7. outcome' \in [Commands -> Outcomes]
  BY <1>1 DEF Outcomes
<1>8. OnePlace'
  <2>1. Queued' = Queued \cup {c} /\ Held' = Held
    BY <1>1, <1>4, <1>6 DEF Queued, Held
  <2>2. {x \in Commands : outcome'[x] = "open"} = {x \in Commands : outcome[x] = "open"} \cup {c}
    BY <1>1
  <2>3. QED
    BY <1>2, <1>6, <2>1, <2>2 DEF DispatchInv, OnePlace
<1>9. Drained'
  <2>1. queue'[Mitigator] = queue[Mitigator] /\ \A b \in ManagedApps : b \in Apps
    BY <1>1, <1>6, ConstantTypes
  <2>2. \A b \in ManagedApps : \A x \in ToSet(queue'[b]) : Owner[x] = b
    BY <1>4, <1>6, <2>1 DEF DispatchInv, Drained
  <2>3. QED
    BY <2>1, <2>2 DEF DispatchInv, Drained
<1>10. Outranked'
  <2>1. \A w \in Commands : Forwarded(w) => Forwarded(w)'
    BY <1>1, <1>6, ConstantTypes DEF Forwarded
  <2>2. \A w \in Commands : outcome'[w] = "superseded" => outcome[w] = "superseded"
    BY <1>1
  <2>3. QED
    BY <2>1, <2>2, OutrankedStays
<1>11. QED
  BY <1>6, <1>7, <1>8, <1>9, <1>10

\* The head of a deque is popped, by the loop of its app or by the mitigator.
LEMMA DequePopped ==
  ASSUME DispatchInv, NEW a \in Apps, queue[a] # <<>>,
         queue' = [queue EXCEPT ![a] = Tail(queue[a])]
  PROVE  /\ Head(queue[a]) \in Commands /\ outcome[Head(queue[a])] = "open"
         /\ Head(queue[a]) \in ToSet(queue[a]) /\ Head(queue[a]) \in Queued
         /\ ToSet(Tail(queue[a])) = ToSet(queue[a]) \ {Head(queue[a])}
         /\ queue' \in [Apps -> Seq(Commands)]
         /\ queue'[a] = Tail(queue[a]) /\ \A b \in Apps : b # a => queue'[b] = queue[b]
         /\ \A b \in Apps : IsInjective(queue'[b])
         /\ \A b, d \in Apps : b # d => ToSet(queue'[b]) \cap ToSet(queue'[d]) = {}
         /\ Queued' = Queued \ {Head(queue[a])}
<1> DEFINE q == Tail(queue[a])
           h == Head(queue[a])
<1>1. queue[a] \in Seq(Commands) /\ IsInjective(queue[a])
  BY DEF DispatchInv, DispatchTypeOK, OnePlace
<1>2. /\ h \in Commands /\ q \in Seq(Commands) /\ IsInjective(q)
      /\ h \in ToSet(queue[a]) /\ ToSet(q) = ToSet(queue[a]) \ {h}
  BY <1>1, Popped
<1>3. outcome[h] = "open"
  BY <1>2, InFlightOpen
<1>4. /\ queue' = [queue EXCEPT ![a] = q]
      /\ \A b \in Apps : \A x \in ToSet(q) : b # a => x \notin ToSet(queue[b])
  BY <1>2 DEF DispatchInv, OnePlace
<1> HIDE DEF q, h
<1>5. /\ queue' \in [Apps -> Seq(Commands)]
      /\ queue'[a] = q /\ \A b \in Apps : b # a => queue'[b] = queue[b]
      /\ \A b \in Apps : IsInjective(queue'[b])
      /\ \A b, d \in Apps : b # d => ToSet(queue'[b]) \cap ToSet(queue'[d]) = {}
      /\ Queued' = (Queued \ ToSet(queue[a])) \cup ToSet(q)
  BY <1>2, <1>4, DequeChanges
<1>6. ToSet(queue[a]) \subseteq Queued
  BY DEF Queued
<1>7. h \in Queued /\ Queued' = Queued \ {h}
  BY <1>2, <1>5, <1>6
<1>8. QED
  BY <1>2, <1>3, <1>5, <1>7 DEF q, h

LEMMA TakeInv ==
  ASSUME DispatchInv, NEW a \in Apps, queue[a] # <<>>, hand[a] = None,
         queue' = [queue EXCEPT ![a] = Tail(queue[a])],
         hand' = [hand EXCEPT ![a] = Head(queue[a])],
         UNCHANGED <<pending, draining, outcome>>
  PROVE  /\ OnePlace' /\ Drained' /\ Outranked'
         /\ queue' \in [Apps -> Seq(Commands)] /\ hand' \in [Threads -> Commands \cup {None}]
         /\ hand'[a] # None
<1> DEFINE h == Head(queue[a])
<1>1. a \in Threads /\ hand \in [Threads -> Commands \cup {None}]
  BY ConstantTypes DEF DispatchInv, DispatchTypeOK
<1>2. /\ h \in Commands /\ h # None /\ h \in ToSet(queue[a]) /\ h \in Queued
      /\ h \notin Held /\ h \notin ToSet(pending)
      /\ ToSet(queue'[a]) = ToSet(queue[a]) \ {h}
      /\ \A b \in Apps : b # a => queue'[b] = queue[b]
      /\ Queued' = Queued \ {h}
  <2>1. /\ h \in Commands /\ h \in ToSet(queue[a]) /\ h \in Queued
        /\ ToSet(queue'[a]) = ToSet(queue[a]) \ {h}
        /\ \A b \in Apps : b # a => queue'[b] = queue[b]
        /\ Queued' = Queued \ {h}
    BY DequePopped
  <2>2. h \notin Held /\ h \notin ToSet(pending)
    BY <2>1 DEF DispatchInv, OnePlace
  <2>3. QED
    BY <2>1, <2>2
<1>3. /\ queue' \in [Apps -> Seq(Commands)]
      /\ \A b \in Apps : IsInjective(queue'[b])
      /\ \A b, d \in Apps : b # d => ToSet(queue'[b]) \cap ToSet(queue'[d]) = {}
  BY DequePopped
<1>4. hand' = [hand EXCEPT ![a] = h]
  OBVIOUS
<1> HIDE DEF h
<1>5. /\ hand' \in [Threads -> Commands \cup {None}] /\ hand'[a] = h
      /\ \A p \in Threads : p # a => hand'[p] = hand[p]
  BY <1>1, <1>2, <1>4
<1>6. Held' = Held \cup {h}
  BY <1>1, <1>2, <1>5 DEF Held
<1>7. OnePlace'
  <2>1. ASSUME NEW p \in Threads, NEW r \in Threads, p # r, hand'[p] # None
        PROVE  hand'[p] # hand'[r]
    <3>1. \A s \in Threads : hand[s] # h
      BY <1>2 DEF Held
    <3>2. hand[p] # None => hand[p] # hand[r]
      BY <2>1 DEF DispatchInv, OnePlace
    <3>3. QED
      BY <1>5, <2>1, <3>1, <3>2
  <2>2. QED
    BY <1>2, <1>3, <1>6, <2>1 DEF DispatchInv, OnePlace
<1>8. \A b \in Apps : ToSet(queue'[b]) \subseteq ToSet(queue[b])
  BY <1>2
<1>9. Drained'
  <2>1. \A b \in ManagedApps : \A c \in ToSet(queue'[b]) : Owner[c] = b
    BY <1>8, ConstantTypes DEF DispatchInv, Drained
  <2>2. \A c \in ToSet(queue'[Mitigator]) : Owner[c] \in ManagedApps
    BY <1>8, ConstantTypes DEF DispatchInv, Drained
  <2>3. QED
    BY <2>1, <2>2 DEF DispatchInv, Drained
<1>10. Outranked'
  <2>1. ASSUME NEW w \in Commands, Forwarded(w) PROVE Forwarded(w)'
    <3>1. CASE a = Mitigator
      BY <1>2, <1>5, <2>1, <3>1 DEF Forwarded
    <3>2. CASE a # Mitigator
      BY <1>2, <1>5, <2>1, <3>2, ConstantTypes DEF Forwarded
    <3>3. QED
      BY <3>1, <3>2
  <2>2. QED
    BY <2>1, OutrankedStays
<1>11. QED
  BY <1>2, <1>3, <1>5, <1>7, <1>9, <1>10

LEMMA CallInv ==
  ASSUME DispatchInv, NEW m \in Callers, hand[m] = None,
         NEW c \in Commands, outcome[c] = "new",
         hand' = [hand EXCEPT ![m] = c], outcome' = [outcome EXCEPT ![c] = "open"],
         UNCHANGED <<queue, pending, draining>>
  PROVE  /\ OnePlace' /\ Drained' /\ Outranked'
         /\ hand' \in [Threads -> Commands \cup {None}] /\ outcome' \in [Commands -> Outcomes]
         /\ hand'[m] # None
<1>1. /\ m \in Threads /\ m # Mitigator /\ hand \in [Threads -> Commands \cup {None}]
      /\ outcome \in [Commands -> Outcomes]
  BY ConstantTypes DEF DispatchInv, DispatchTypeOK
<1>2. c \notin Queued /\ c \notin Held /\ c \notin ToSet(pending) /\ c # None
  BY DEF DispatchInv, OnePlace
<1>3. /\ hand' \in [Threads -> Commands \cup {None}] /\ hand'[m] = c
      /\ \A p \in Threads : p # m => hand'[p] = hand[p]
      /\ outcome' \in [Commands -> Outcomes]
  BY <1>1 DEF Outcomes
<1>4. Queued' = Queued /\ Held' = Held \cup {c}
  BY <1>1, <1>2, <1>3 DEF Queued, Held
<1>5. {x \in Commands : outcome'[x] = "open"} = {x \in Commands : outcome[x] = "open"} \cup {c}
  BY <1>1
<1>6. OnePlace'
  <2>1. ASSUME NEW p \in Threads, NEW r \in Threads, p # r, hand'[p] # None
        PROVE  hand'[p] # hand'[r]
    <3>1. \A s \in Threads : hand[s] # c
      BY <1>2 DEF Held
    <3>2. hand[p] # None => hand[p] # hand[r]
      BY <2>1 DEF DispatchInv, OnePlace
    <3>3. QED
      BY <1>3, <2>1, <3>1, <3>2
  <2>2. QED
    BY <1>2, <1>4, <1>5, <2>1 DEF DispatchInv, OnePlace
<1>7. Drained'
  BY DEF DispatchInv, Drained
<1>8. Outranked'
  <2>1. \A w \in Commands : Forwarded(w) => Forwarded(w)'
    BY <1>1, <1>3, ConstantTypes DEF Forwarded
  <2>2. \A w \in Commands : outcome'[w] = "superseded" => outcome[w] = "superseded"
    BY <1>1
  <2>3. QED
    BY <2>1, <2>2, OutrankedStays
<1>9. QED
  BY <1>2, <1>3, <1>6, <1>7, <1>8

-----------------------------------------------------------------------------
(* The mitigator.                                                          *)

LEMMA DrainInv ==
  ASSUME DispatchInv, Drain
  PROVE  /\ OnePlace' /\ Drained' /\ Outranked'
         /\ queue' \in [Apps -> Seq(Commands)] /\ pending' \in Seq(Commands)
         /\ draining' \in 1..(Len(Managed) + 1)
<1> DEFINE a == Managed[draining]
<1>1. /\ draining \in DOMAIN Managed /\ a \in ManagedApps /\ a \in Apps /\ a # Mitigator
      /\ queue \in [Apps -> Seq(Commands)] /\ pending \in Seq(Commands)
      /\ UNCHANGED <<hand, outcome>>
  BY ConstantTypes DEF Drain, DispatchInv, DispatchTypeOK
<1>2. CASE queue[a] # <<>> /\ queue' = [queue EXCEPT ![a] = Tail(queue[a])]
           /\ pending' = Append(pending, Head(queue[a])) /\ draining' = draining
  <2> DEFINE h == Head(queue[a])
  <2>1. /\ h \in Commands /\ h \in ToSet(queue[a]) /\ h \in Queued
        /\ ToSet(queue'[a]) = ToSet(queue[a]) \ {h}
        /\ \A b \in Apps : b # a => queue'[b] = queue[b]
        /\ Queued' = Queued \ {h}
    BY <1>1, <1>2, DequePopped
  <2>2. /\ queue' \in [Apps -> Seq(Commands)]
        /\ \A b \in Apps : IsInjective(queue'[b])
        /\ \A b, d \in Apps : b # d => ToSet(queue'[b]) \cap ToSet(queue'[d]) = {}
    BY <1>1, <1>2, DequePopped
  <2>3. h \notin Held /\ h \notin ToSet(pending) /\ IsInjective(pending)
    BY <2>1 DEF DispatchInv, OnePlace
  <2>4. pending' = Append(pending, h)
    BY <1>2
  <2>5. Owner[h] = a
    BY <1>1, <2>1 DEF DispatchInv, Drained
  <2> HIDE DEF h
  <2>6. /\ pending' \in Seq(Commands) /\ IsInjective(pending')
        /\ ToSet(pending') = ToSet(pending) \cup {h}
    BY <1>1, <2>1, <2>3, <2>4, Pushed
  <2>7. OnePlace'
    <3>1. Held' = Held
      BY <1>1 DEF Held
    <3>2. {c \in Commands : outcome'[c] = "open"} = {c \in Commands : outcome[c] = "open"}
      BY <1>1
    <3>3. \A p, r \in Threads : p # r /\ hand'[p] # None => hand'[p] # hand'[r]
      BY <1>1 DEF DispatchInv, OnePlace
    <3>4. QED
      BY <2>1, <2>2, <2>3, <2>6, <3>1, <3>2, <3>3 DEF DispatchInv, OnePlace
  <2>8. Drained'
    <3>1. \A b \in ManagedApps : \A c \in ToSet(queue'[b]) : Owner[c] = b
      <4>1. \A b \in Apps : ToSet(queue'[b]) \subseteq ToSet(queue[b])
        BY <2>1
      <4>2. QED
        BY <4>1, ConstantTypes DEF DispatchInv, Drained
    <3>2. queue'[Mitigator] = queue[Mitigator]
      BY <1>1, <2>1, ConstantTypes
    <3>3. Rank(h) = draining /\ Owner[h] \in ManagedApps
      BY <1>1, <2>5, RankOf
    <3>4. /\ \A i \in DOMAIN pending : pending'[i] = pending[i]
          /\ \A i \in DOMAIN pending' : i \notin DOMAIN pending => pending'[i] = h /\ \A j \in DOMAIN pending : j < i
          /\ \A i, j \in DOMAIN pending' : i < j => i \in DOMAIN pending
      BY <1>1, <2>1, <2>4
    <3>5. \A i \in DOMAIN pending :
            Owner[pending[i]] \in ManagedApps /\ Rank(pending[i]) <= draining
      BY DEF DispatchInv, Drained
    <3>6. draining <= draining
      BY <1>1
    <3>7. \A i \in DOMAIN pending' :
            Owner[pending'[i]] \in ManagedApps /\ Rank(pending'[i]) <= draining
      BY <3>3, <3>4, <3>5, <3>6
    <3>8. \A i, j \in DOMAIN pending' : i < j => Rank(pending'[i]) <= Rank(pending'[j])
      BY <3>3, <3>4, <3>5 DEF DispatchInv, Drained
    <3>9. QED
      BY <1>2, <3>1, <3>2, <3>7, <3>8 DEF DispatchInv, Drained
  <2>9. Outranked'
    <3>1. \A w \in Commands : Forwarded(w) => Forwarded(w)'
      BY <1>1, <2>1, ConstantTypes DEF Forwarded
    <3>2. QED
      BY <1>1, <3>1, OutrankedStays
  <2>10. QED
    BY <1>1, <1>2, <2>2, <2>6, <2>7, <2>8, <2>9
<1>3. CASE UNCHANGED <<pending, queue>> /\ draining' = draining + 1
  <2>1. OnePlace'
    <3>1. Queued' = Queued /\ Held' = Held
      BY <1>1, <1>3 DEF Queued, Held
    <3>2. QED
      BY <1>1, <1>3, <3>1 DEF DispatchInv, OnePlace
  <2>2. Drained'
    <3>1. \A i \in DOMAIN pending : Rank(pending[i]) \in Nat
      BY RankOf, ConstantTypes DEF DispatchInv, Drained
    <3>2. \A i \in DOMAIN pending : Rank(pending[i]) <= draining + 1
      BY <1>1, <3>1 DEF DispatchInv, Drained
    <3>3. QED
      BY <1>3, <3>2 DEF DispatchInv, Drained
  <2>3. Outranked'
    BY <1>1, <1>3 DEF DispatchInv, Outranked, Forwarded
  <2>4. QED
    BY <1>1, <1>3, <2>1, <2>2, <2>3
<1>4. QED
  BY <1>1, <1>2, <1>3 DEF Drain

Won == {pending[i] : i \in Winners}

\* What the mitigator queues again: the winners, once each.
LEMMA WonSequence ==
  ASSUME DispatchInv, NEW won \in SetToSeqs(Winners)
  PROVE  LET r == [i \in DOMAIN won |-> pending[won[i]]]
         IN  r \in Seq(Commands) /\ IsInjective(r) /\ ToSet(r) = Won
<1> DEFINE n == Cardinality(Winners)
           r == [i \in DOMAIN won |-> pending[won[i]]]
<1>1. pending \in Seq(Commands) /\ IsInjective(pending)
  BY DEF DispatchInv, DispatchTypeOK, OnePlace
<1>2. Winners \subseteq 1..Len(pending) /\ IsFiniteSet(1..Len(pending))
  BY <1>1, FS_Interval DEF Winners
<1>3. IsFiniteSet(Winners) /\ n \in Nat
  BY <1>2, FS_Subset, FS_CardinalityType
<1>4. won \in [1..n -> Winners] /\ \A i, j \in 1..n : i # j => won[i] # won[j]
  BY DEF SetToSeqs
<1>5. won \in Surjection(1..n, Winners)
  <2>1. won \in Injection(1..n, Winners)
    BY <1>4 DEF Injection, IsInjective
  <2>2. Cardinality(1..n) = n
    BY <1>3, FS_Interval
  <2>3. QED
    BY <1>3, <2>1, <2>2, FS_Injection
<1>6. \A i \in Winners : \E k \in 1..n : won[k] = i
  BY <1>5 DEF Surjection
<1>7. DOMAIN won = 1..n /\ \A k \in 1..n : r[k] = pending[won[k]] /\ won[k] \in DOMAIN pending
  <2>1. DOMAIN pending = 1..Len(pending)
    BY <1>1
  <2>2. DOMAIN won = 1..n
    BY <1>4, Zenon
  <2>3. \A k \in 1..n : won[k] \in Winners
    BY <1>4, Zenon
  <2>4. \A k \in 1..n : r[k] = pending[won[k]]
    BY <2>2
  <2>5. QED
    BY <1>2, <2>1, <2>2, <2>3, <2>4
<1>8. r \in Seq(Commands)
  BY <1>1, <1>3, <1>7
<1>9. IsInjective(r)
  BY <1>1, <1>4, <1>7 DEF IsInjective
<1>10. ToSet(r) = Won
  BY <1>4, <1>6, <1>7 DEF ToSet, Won
<1>11. QED
  BY <1>8, <1>9, <1>10

\* Of what the mitigator had drained, every command that does not win stands
\* behind a winner for its target, from an app of at least its rank.
LEMMA LoserOutranked ==
  ASSUME DispatchInv, NEW c \in ToSet(pending), c \notin Won
  PROVE  \E w \in Commands \ {c} :
           /\ Target[w] = Target[c] /\ Owner[w] \in ManagedApps
           /\ Rank(w) <= Rank(c) /\ w \in Won
<1>1. pending \in Seq(Commands)
  BY DEF DispatchInv, DispatchTypeOK
<1>2. PICK k \in DOMAIN pending : pending[k] = c
  BY DEF ToSet
<1> DEFINE S == {i \in DOMAIN pending : Target[pending[i]] = Target[c]}
<1>3. PICK i \in S : \A j \in S : i <= j
  <2>1. S \in SUBSET Nat /\ S # {}
    BY <1>1, <1>2
  <2>2. QED
    BY <2>1, LeastMember
<1>4. i \in DOMAIN pending /\ i <= k /\ Target[pending[i]] = Target[c]
  BY <1>2, <1>3
<1>5. i \in Winners
  <2>1. \A j \in 1..(i - 1) : j \in DOMAIN pending /\ ~(i <= j)
    BY <1>1, <1>4
  <2>2. QED
    BY <1>3, <1>4, <2>1 DEF Winners
<1>6. pending[i] \in Won
  BY <1>5 DEF Won
<1>7. i < k
  BY <1>1, <1>2, <1>4, <1>6
<1>8. Rank(pending[i]) <= Rank(c) /\ Owner[pending[i]] \in ManagedApps
  BY <1>2, <1>4, <1>7 DEF DispatchInv, Drained
<1>9. pending[i] \in Commands \ {c}
  BY <1>1, <1>4, <1>6
<1>10. QED
  BY <1>4, <1>6, <1>8, <1>9

LEMMA ResolveInv ==
  ASSUME DispatchInv, Resolve
  PROVE  /\ OnePlace' /\ Drained' /\ Outranked'
         /\ queue' \in [Apps -> Seq(Commands)] /\ outcome' \in [Commands -> Outcomes]
<1>1. /\ queue \in [Apps -> Seq(Commands)] /\ outcome \in [Commands -> Outcomes]
      /\ pending \in Seq(Commands)
      /\ UNCHANGED <<hand, draining>> /\ pending' = <<>>
      /\ Mitigator \in Apps /\ Mitigator \notin ManagedApps
  BY ConstantTypes DEF DispatchInv, DispatchTypeOK, Resolve
<1>2. ToSet(pending') = {} /\ IsInjective(pending') /\ Held' = Held
  BY <1>1 DEF ToSet, IsInjective, Held
<1>3. \A c \in ToSet(pending) : c \in Commands /\ outcome[c] = "open" /\ c \notin Queued /\ c \notin Held
  BY InFlightOpen DEF DispatchInv, OnePlace
<1>4. Won \subseteq ToSet(pending)
  BY DEF Won, Winners, ToSet
<1>o. {c \in Commands : outcome[c] = "open"} = Queued \cup Held \cup ToSet(pending) /\ Queued \cap Held = {}
  BY DEF DispatchInv, OnePlace
<1>5. CASE /\ \E won \in SetToSeqs(Winners) :
                queue' = [queue EXCEPT ![Mitigator] =
                            queue[Mitigator] \o [i \in DOMAIN won |-> pending[won[i]]]]
           /\ outcome' = [c \in Commands |->
                            IF c \in ToSet(pending) \ Won THEN "superseded" ELSE outcome[c]]
  <2>1. PICK won \in SetToSeqs(Winners) :
               queue' = [queue EXCEPT ![Mitigator] =
                            queue[Mitigator] \o [i \in DOMAIN won |-> pending[won[i]]]]
    BY <1>5
  <2> DEFINE r == [i \in DOMAIN won |-> pending[won[i]]]
             q == queue[Mitigator] \o r
  <2>2. r \in Seq(Commands) /\ IsInjective(r) /\ ToSet(r) = Won
    BY WonSequence
  <2> HIDE DEF r
  <2>3. /\ q \in Seq(Commands) /\ IsInjective(q) /\ ToSet(q) = ToSet(queue[Mitigator]) \cup Won
    <3>1. queue[Mitigator] \in Seq(Commands) /\ IsInjective(queue[Mitigator])
          /\ ToSet(queue[Mitigator]) \cap Won = {}
      BY <1>1, <1>3, <1>4 DEF DispatchInv, OnePlace, Queued
    <3>2. QED
      BY <2>2, <3>1, Joined
  <2>4. queue' = [queue EXCEPT ![Mitigator] = q]
    BY <2>1 DEF r
  <2> HIDE DEF q
  <2>5. /\ queue' \in [Apps -> Seq(Commands)]
        /\ queue'[Mitigator] = q /\ \A b \in Apps : b # Mitigator => queue'[b] = queue[b]
        /\ \A b \in Apps : IsInjective(queue'[b])
        /\ \A b, d \in Apps : b # d => ToSet(queue'[b]) \cap ToSet(queue'[d]) = {}
        /\ Queued' = (Queued \ ToSet(queue[Mitigator])) \cup ToSet(q)
    <3>1. \A b \in Apps : \A x \in ToSet(q) : b # Mitigator => x \notin ToSet(queue[b])
      BY <1>1, <1>3, <1>4, <2>3 DEF DispatchInv, OnePlace, Queued
    <3>2. QED
      BY <1>1, <2>3, <2>4, <3>1, DequeChanges
  <2>6. Queued' = Queued \cup Won
    BY <1>1, <2>3, <2>5 DEF Queued
  <2>7. outcome' \in [Commands -> Outcomes]
    BY <1>1, <1>5 DEF Outcomes
  <2>8. OnePlace'
    <3>1. {c \in Commands : outcome'[c] = "open"} = {c \in Commands : outcome[c] = "open"} \ (ToSet(pending) \ Won)
      BY <1>5
    <3>2. {c \in Commands : outcome'[c] = "open"} = Queued' \cup Held'
      BY <1>2, <1>3, <1>4, <1>o, <2>6, <3>1
    <3>3. \A p, s \in Threads : p # s /\ hand'[p] # None => hand'[p] # hand'[s]
      BY <1>1 DEF DispatchInv, OnePlace
    <3>4. Queued' \cap Held' = {}
      BY <1>2, <1>3, <1>4, <1>o, <2>6
    <3>5. QED
      BY <1>2, <2>5, <3>2, <3>3, <3>4 DEF OnePlace
  <2>9. Drained'
    <3>1. \A b \in ManagedApps : queue'[b] = queue[b]
      BY <1>1, <2>5, ConstantTypes
    <3>2. \A c \in Won : Owner[c] \in ManagedApps
      BY DEF Won, Winners, DispatchInv, Drained
    <3>3. \A c \in ToSet(queue'[Mitigator]) : Owner[c] \in ManagedApps
      BY <2>3, <2>5, <3>2 DEF DispatchInv, Drained
    <3>4. DOMAIN pending' = {}
      BY <1>1
    <3>5. QED
      BY <3>1, <3>3, <3>4 DEF DispatchInv, Drained
  <2>10. Outranked'
    <3>1. \A w \in Commands : Forwarded(w) => Forwarded(w)'
      BY <1>1, <1>3, <1>5, <2>3, <2>5 DEF Forwarded
    <3>2. \A w \in Won : Forwarded(w)'
      BY <2>3, <2>5 DEF Forwarded
    <3>3. ASSUME NEW c \in Commands, outcome'[c] = "superseded"
          PROVE  \E w \in Commands \ {c} :
                   /\ Target[w] = Target[c] /\ Owner[w] \in ManagedApps
                   /\ Rank(w) <= Rank(c) /\ Forwarded(w)'
      <4>1. CASE outcome[c] = "superseded"
        BY <3>1, <4>1 DEF DispatchInv, Outranked
      <4>2. CASE outcome[c] # "superseded"
        <5>1. c \in ToSet(pending) /\ c \notin Won
          BY <1>5, <3>3, <4>2
        <5>2. QED
          BY <3>2, <5>1, LoserOutranked
      <4>3. QED
        BY <4>1, <4>2
    <3>4. QED
      BY <3>3 DEF Outranked
  <2>11. QED
    BY <2>5, <2>7, <2>8, <2>9, <2>10
<1>6. CASE /\ UNCHANGED queue
           /\ outcome' = [c \in Commands |->
                            IF c \in ToSet(pending) THEN "lost" ELSE outcome[c]]
  <2>1. outcome' \in [Commands -> Outcomes]
    BY <1>1, <1>6 DEF Outcomes
  <2>2. Queued' = Queued
    BY <1>6 DEF Queued
  <2>3. OnePlace'
    <3>1. {c \in Commands : outcome'[c] = "open"} = {c \in Commands : outcome[c] = "open"} \ ToSet(pending)
      BY <1>6
    <3>2. {c \in Commands : outcome'[c] = "open"} = Queued' \cup Held'
      BY <1>2, <1>3, <1>o, <2>2, <3>1
    <3>3. \A p, s \in Threads : p # s /\ hand'[p] # None => hand'[p] # hand'[s]
      BY <1>1 DEF DispatchInv, OnePlace
    <3>4. QED
      BY <1>2, <1>6, <2>2, <3>2, <3>3 DEF DispatchInv, OnePlace
  <2>4. Drained'
    <3>1. DOMAIN pending' = {}
      BY <1>1
    <3>2. QED
      BY <1>6, <3>1 DEF DispatchInv, Drained
  <2>5. Outranked'
    <3>1. \A w \in Commands : Forwarded(w) => Forwarded(w)'
      BY <1>1, <1>3, <1>6 DEF Forwarded
    <3>2. \A w \in Commands : outcome'[w] = "superseded" => outcome[w] = "superseded"
      BY <1>1, <1>6
    <3>3. QED
      BY <3>1, <3>2, OutrankedStays
  <2>6. QED
    BY <1>1, <1>6, <2>1, <2>3, <2>4, <2>5
<1>7. QED
  BY <1>5, <1>6 DEF Resolve, Won

-----------------------------------------------------------------------------
(* Every step keeps the invariant.                                         *)

\* The steps of an app between two turns and those of process_commands that
\* move no command.
LEMMA LoopStepInv ==
  ASSUME DispatchInv, NEW a \in Apps,
         ProcessApp(a) \/ TestQueue(a) \/ TakeCommand(a)
           \/ (a = Mitigator /\ (StartDrain \/ Drain \/ Resolve))
  PROVE  DispatchInv'
<1>t. DispatchTypeOK /\ ThreadAt /\ a \in Threads
  BY ConstantTypes DEF DispatchInv
<1>1. CASE ProcessApp(a)
  <2>1. CASE \E c \in Commands :
               /\ Owner[c] = a /\ outcome[c] = "new"
               /\ queue' = [queue EXCEPT ![a] = Append(@, c)]
               /\ outcome' = [outcome EXCEPT ![c] = "open"]
               /\ UNCHANGED pc
    <3>1. PICK c \in Commands :
               /\ Owner[c] = a /\ outcome[c] = "new"
               /\ queue' = [queue EXCEPT ![a] = Append(queue[a], c)]
               /\ outcome' = [outcome EXCEPT ![c] = "open"]
               /\ UNCHANGED pc
      BY <2>1
    <3>2. a \in ManagedApps /\ UNCHANGED <<hand, draining, pending, clock, now, lastTs>>
      BY <1>1 DEF ProcessApp, mitigatorVars, arbiterVars
    <3>3. /\ OnePlace' /\ Drained' /\ Outranked'
          /\ queue' \in [Apps -> Seq(Commands)] /\ outcome' \in [Commands -> Outcomes]
      BY <3>1, <3>2, EnqueueInv
    <3>4. DispatchTypeOK' /\ ThreadAt'
      BY <1>t, <3>1, <3>2, <3>3 DEF DispatchTypeOK, ThreadAt
    <3>5. QED
      BY <3>3, <3>4 DEF DispatchInv
  <2>2. CASE Goto(a, "test") /\ UNCHANGED <<queue, outcome>>
    <3>1. UNCHANGED <<queue, hand, pending, outcome, draining, clock, now, lastTs>>
          /\ pc[a] = "process" /\ pc' = [pc EXCEPT ![a] = "test"] /\ a \in ManagedApps
      BY <1>1, <2>2 DEF ProcessApp, Goto, mitigatorVars, arbiterVars
    <3>2. DispatchTypeOK' /\ ThreadAt'
      BY <1>t, <3>1, ConstantTypes DEF DispatchTypeOK, ThreadAt, Dispatching
    <3>3. QED
      BY <3>1, <3>2, PlacesStay DEF DispatchInv
  <2>3. QED
    BY <1>1, <2>1, <2>2 DEF ProcessApp
<1>2. CASE TestQueue(a)
  <2>1. /\ UNCHANGED <<queue, hand, pending, outcome, draining, clock, now, lastTs>>
        /\ pc[a] = "test" /\ \E l \in {"process", "take"} : pc' = [pc EXCEPT ![a] = l]
    BY <1>2 DEF TestQueue, Goto, mitigatorVars, arbiterVars
  <2>2. DispatchTypeOK' /\ ThreadAt'
    BY <1>t, <2>1 DEF DispatchTypeOK, ThreadAt, Dispatching
  <2>3. QED
    BY <2>1, <2>2, PlacesStay DEF DispatchInv
<1>3. CASE TakeCommand(a)
  <2>1. UNCHANGED <<pending, outcome, draining, clock, now, lastTs>> /\ pc[a] = "take"
    BY <1>3 DEF TakeCommand, mitigatorVars, arbiterVars
  <2>2. hand[a] = None
    BY <1>t, <2>1 DEF ThreadAt, Dispatching
  <2>3. CASE queue[a] # <<>>
    <3>1. /\ queue' = [queue EXCEPT ![a] = Tail(queue[a])]
          /\ hand' = [hand EXCEPT ![a] = Head(queue[a])]
          /\ pc' = [pc EXCEPT ![a] = "check"]
      BY <1>3, <2>3 DEF TakeCommand, Goto
    <3>2. /\ OnePlace' /\ Drained' /\ Outranked'
          /\ queue' \in [Apps -> Seq(Commands)] /\ hand' \in [Threads -> Commands \cup {None}]
          /\ hand'[a] # None
      BY <2>1, <2>2, <2>3, <3>1, TakeInv
    <3>3. \A p \in Threads : p # a => hand'[p] = hand[p] /\ pc'[p] = pc[p]
      BY <1>t, <3>1 DEF DispatchTypeOK
    <3>4. DispatchTypeOK' /\ ThreadAt'
      BY <1>t, <2>1, <3>1, <3>2, <3>3, ConstantTypes DEF DispatchTypeOK, ThreadAt, Dispatching
    <3>5. QED
      BY <3>2, <3>4 DEF DispatchInv
  <2>4. CASE queue[a] = <<>>
    <3>1. UNCHANGED <<queue, hand>> /\ pc' = [pc EXCEPT ![a] = "dead"]
      BY <1>3, <2>4 DEF TakeCommand, Goto
    <3>2. DispatchTypeOK' /\ ThreadAt'
      BY <1>t, <2>1, <3>1 DEF DispatchTypeOK, ThreadAt, Dispatching
    <3>3. QED
      BY <2>1, <3>1, <3>2, PlacesStay DEF DispatchInv
  <2>5. QED
    BY <2>3, <2>4
<1>4. CASE a = Mitigator /\ StartDrain
  <2>1. /\ UNCHANGED <<queue, hand, pending, outcome, clock, now, lastTs>>
        /\ pc[Mitigator] = "process" /\ pc' = [pc EXCEPT ![Mitigator] = "drain"]
        /\ draining' = 1 /\ pending = <<>>
    BY <1>4, <1>t DEF StartDrain, Goto, arbiterVars, ThreadAt
  <2>2. DispatchTypeOK' /\ ThreadAt'
    <3>1. draining' \in 1..(Len(Managed) + 1) /\ Mitigator \in Threads
      BY <2>1, ConstantTypes
    <3>2. DispatchTypeOK'
      BY <1>t, <2>1, <3>1 DEF DispatchTypeOK
    <3>3. ThreadAt'
      BY <1>t, <2>1, <3>1 DEF DispatchTypeOK, ThreadAt, Dispatching
    <3>4. QED
      BY <3>2, <3>3
  <2>3. OnePlace'
    <3>1. Queued' = Queued /\ Held' = Held
      BY <2>1 DEF Queued, Held
    <3>2. QED
      BY <2>1, <3>1 DEF DispatchInv, OnePlace
  <2>4. Drained'
    <3>1. DOMAIN pending' = {}
      BY <2>1
    <3>2. QED
      BY <2>1, <3>1 DEF DispatchInv, Drained
  <2>5. Outranked'
    BY <2>1 DEF DispatchInv, Outranked, Forwarded
  <2>6. QED
    BY <2>2, <2>3, <2>4, <2>5 DEF DispatchInv
<1>5. CASE a = Mitigator /\ Drain
  <2>1. UNCHANGED <<pc, hand, clock, now, lastTs, outcome>> /\ pc[Mitigator] = "drain"
    BY <1>5 DEF Drain, arbiterVars
  <2>2. DispatchTypeOK' /\ ThreadAt'
    BY <1>t, <1>5, <2>1, DrainInv DEF DispatchTypeOK, ThreadAt
  <2>3. QED
    BY <1>5, <2>2, DrainInv DEF DispatchInv
<1>6. CASE a = Mitigator /\ Resolve
  <2>1. /\ UNCHANGED <<hand, draining, clock, now, lastTs>> /\ pending' = <<>>
        /\ pc[Mitigator] = "drain"
        /\ \E l \in {"test", "dead"} : pc' = [pc EXCEPT ![Mitigator] = l]
    BY <1>6 DEF Resolve, Goto, arbiterVars
  <2>2. DispatchTypeOK' /\ ThreadAt'
    BY <1>t, <1>6, <2>1, ResolveInv, ConstantTypes DEF DispatchTypeOK, ThreadAt, Dispatching
  <2>3. QED
    BY <1>6, <2>2, ResolveInv DEF DispatchInv
<1>7. QED
  BY <1>1, <1>2, <1>3, <1>4, <1>5, <1>6

\* What a loop and a caller do with a command in hand.
LEMMA DispatchStepInv ==
  ASSUME DispatchInv, NEW p \in Threads, Dispatch(p)
  PROVE  DispatchInv'
<1>t. DispatchTypeOK /\ ThreadAt
  BY DEF DispatchInv
<1>1. /\ hand[p] \in Commands /\ hand[p] # None /\ Target[hand[p]] \in Targets
      /\ pc[p] \in Dispatching
      /\ UNCHANGED <<queue, draining, pending, clock>>
  <2>1. pc[p] \in Dispatching /\ UNCHANGED <<queue, draining, pending, clock>>
    BY DEF Dispatch, Check, Stamp, Compare, Record, Send, Dispatching, mitigatorVars, arbiterVars
  <2>2. QED
    BY <1>t, <2>1, ConstantTypes DEF DispatchTypeOK, ThreadAt
\* A command is done with.
<1>2. ASSUME NEW what \in {"sent", "rejected", "lost"},
             NEW label \in {"done", "test", "dead"}, Settle(p, what, label),
             now' \in [Threads -> 0..MaxClock], UNCHANGED lastTs
      PROVE  DispatchInv'
  <2>1. /\ OnePlace' /\ Drained' /\ Outranked'
        /\ hand' \in [Threads -> Commands \cup {None}] /\ outcome' \in [Commands -> Outcomes]
    BY <1>1, <1>2, SettleInv
  <2>2. pc' = [pc EXCEPT ![p] = label] /\ hand' = [hand EXCEPT ![p] = None]
    BY <1>2 DEF Settle, Goto
  <2>3. DispatchTypeOK'
    BY <1>t, <1>1, <1>2, <2>1, <2>2 DEF DispatchTypeOK
  <2>4. ThreadAt'
    BY <1>t, <1>1, <1>2, <2>2 DEF DispatchTypeOK, ThreadAt, Dispatching
  <2>5. QED
    BY <2>1, <2>3, <2>4 DEF DispatchInv
\* A thread goes on with it.
<1>3. ASSUME NEW label \in Dispatching, Goto(p, label), UNCHANGED <<hand, outcome>>,
             now' \in [Threads -> 0..MaxClock], lastTs' \in [Targets -> 0..MaxClock]
      PROVE  DispatchInv'
  <2>1. pc' = [pc EXCEPT ![p] = label]
    BY <1>3 DEF Goto
  <2>2. DispatchTypeOK'
    BY <1>t, <1>1, <1>3, <2>1 DEF DispatchTypeOK, Dispatching
  <2>3. ThreadAt'
    BY <1>t, <1>1, <1>3, <2>1 DEF DispatchTypeOK, ThreadAt, Dispatching
  <2>4. QED
    BY <1>1, <1>3, <2>2, <2>3, PlacesStay DEF DispatchInv
<1>4. /\ now \in [Threads -> 0..MaxClock] /\ lastTs \in [Targets -> 0..MaxClock]
      /\ clock \in 0..MaxClock /\ 0 \in 0..MaxClock /\ After(p) \in {"done", "test"}
  BY <1>t DEF DispatchTypeOK, After
<1>5. CASE Check(p)
  BY <1>2, <1>3, <1>4, <1>5 DEF Check, Dispatching, arbiterVars
<1>6. CASE Stamp(p)
  BY <1>3, <1>4, <1>6 DEF Stamp, Dispatching
<1>7. CASE Compare(p)
  BY <1>2, <1>3, <1>4, <1>7 DEF Compare, Dispatching
<1>8. CASE Record(p)
  BY <1>1, <1>3, <1>4, <1>8 DEF Record, Dispatching
<1>9. CASE Send(p)
  BY <1>2, <1>4, <1>9 DEF Send, RejectUnknown, HandlerRaises, SendCommand
<1>10. QED
  BY <1>5, <1>6, <1>7, <1>8, <1>9 DEF Dispatch

LEMMA CallStepInv ==
  ASSUME DispatchInv, NEW m \in Callers, Call(m)
  PROVE  DispatchInv'
<1>t. DispatchTypeOK /\ ThreadAt /\ m \in Threads /\ m # Mitigator
  BY ConstantTypes DEF DispatchInv
<1>1. /\ UNCHANGED <<queue, draining, pending, clock, now, lastTs>>
      /\ pc[m] = "idle" /\ pc' = [pc EXCEPT ![m] = "check"]
  BY DEF Call, Goto, mitigatorVars, arbiterVars
<1>2. PICK c \in Commands :
           /\ outcome[c] = "new" /\ hand' = [hand EXCEPT ![m] = c]
           /\ outcome' = [outcome EXCEPT ![c] = "open"]
  BY DEF Call
<1>3. hand[m] = None
  BY <1>t, <1>1 DEF ThreadAt, Dispatching
<1>4. /\ OnePlace' /\ Drained' /\ Outranked'
      /\ hand' \in [Threads -> Commands \cup {None}] /\ outcome' \in [Commands -> Outcomes]
      /\ hand'[m] # None
  BY <1>1, <1>2, <1>3, CallInv
<1>5. DispatchTypeOK' /\ ThreadAt'
  BY <1>t, <1>1, <1>2, <1>4 DEF DispatchTypeOK, ThreadAt, Dispatching
<1>6. QED
  BY <1>4, <1>5 DEF DispatchInv

LEMMA StepInv == DispatchInv /\ [Next]_dispatchVars => DispatchInv'
<1> SUFFICES ASSUME DispatchInv, [Next]_dispatchVars
             PROVE  DispatchInv'
  OBVIOUS
<1>t. DispatchTypeOK /\ ThreadAt
  BY DEF DispatchInv
<1>1. CASE UNCHANGED dispatchVars
  <2>1. DispatchTypeOK' /\ ThreadAt'
    BY <1>t, <1>1 DEF dispatchVars, DispatchTypeOK, ThreadAt
  <2>2. QED
    BY <1>1, <2>1, PlacesStay DEF dispatchVars, DispatchInv
<1>2. CASE Tick
  <2>1. DispatchTypeOK' /\ ThreadAt'
    BY <1>t, <1>2 DEF Tick, DispatchTypeOK, ThreadAt, mitigatorVars, arbiterVars
  <2>2. QED
    BY <1>2, <2>1, PlacesStay DEF Tick, DispatchInv, mitigatorVars
<1>3. ASSUME NEW a \in Apps, LoopStep(a)
      PROVE  DispatchInv'
  BY <1>3, ConstantTypes, LoopStepInv, DispatchStepInv DEF LoopStep
<1>4. ASSUME NEW m \in Callers, Call(m) \/ Dispatch(m)
      PROVE  DispatchInv'
  BY <1>4, ConstantTypes, CallStepInv, DispatchStepInv
<1>5. QED
  BY <1>1, <1>2, <1>3, <1>4 DEF Next

LEMMA Invariance == DispatchSpec => []DispatchInv
BY InitInv, StepInv, PTL DEF DispatchSpec

-----------------------------------------------------------------------------
\* Every variable keeps its type: no stamp of the arbitrator is ahead of the
\* clock's range, and each thread is at one of its steps.
THEOREM TypeCorrect == DispatchSpec => []DispatchTypeOK
<1>1. DispatchInv => DispatchTypeOK
  BY DEF DispatchInv
<1>2. QED
  BY <1>1, Invariance, PTL

\* While loops and the mitigator pop the same deques without a lock, and a loop
\* may die between its test and its popleft, no command is ever in two places
\* and none is forgotten.
THEOREM CommandsInOnePlace == DispatchSpec => []OnePlace
<1>1. DispatchInv => OnePlace
  BY DEF DispatchInv
<1>2. QED
  BY <1>1, Invariance, PTL

\* A command the mitigator drops was beaten by one for the same target, from an
\* app of at least its rank, that went on to the dispatch.
THEOREM WinnersGoOn == DispatchSpec => []PriorityWins
<1>1. DispatchInv => PriorityWins
  <2> SUFFICES ASSUME DispatchInv, NEW c \in Commands, outcome[c] = "superseded"
               PROVE  \E w \in Commands \ {c} :
                        /\ Target[w] = Target[c] /\ Owner[w] \in ManagedApps
                        /\ Rank(w) <= Rank(c)
                        /\ outcome[w] \notin {"new", "superseded"}
    BY DEF PriorityWins
  <2>1. PICK w \in Commands \ {c} :
          /\ Target[w] = Target[c] /\ Owner[w] \in ManagedApps
          /\ Rank(w) <= Rank(c) /\ Forwarded(w)
    BY DEF DispatchInv, Outranked
  <2>2. outcome[w] \notin {"new", "superseded"}
    BY <2>1, InFlightOpen, ConstantTypes DEF Forwarded
  <2>3. QED
    BY <2>1, <2>2
<1>2. QED
  BY <1>1, Invariance, PTL
=============================================================================
