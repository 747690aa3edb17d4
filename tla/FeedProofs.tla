----------------------------- MODULE FeedProofs -----------------------------
(***************************************************************************)
(* Type correctness of MeasurementFeed, and that it implements             *)
(* MeasurementLog, for any apps, any number of loop threads, any bound of  *)
(* the deques and any number of measurements.                              *)
(***************************************************************************)
EXTENDS MeasurementFeed, TLAPS

(***************************************************************************)
(* Why the head of a deque is the oldest measurement an app can still get: *)
(* a deque is strictly increasing, and what the reader has in hand for an  *)
(* app is newer than all of the app's deque.  The reader is at an app      *)
(* whenever it works on a deque.                                           *)
(***************************************************************************)
Increasing(q) == \A i, j \in DOMAIN q : i < j => q[i] < q[j]
Below(q, n) == \A i \in DOMAIN q : q[i] < n

ReaderAt ==
  /\ readerPc \in {"size", "evict", "append"} => position <= Len(Subscribers)
  /\ readerPc # "recv" => received > 0
Ordered == \A a \in Apps :
             Increasing(queue[a]) /\ (InHand(a) => Below(queue[a], received))
FeedInv == FeedTypeOK /\ ReaderAt /\ Ordered

USE FeedAssumption

-----------------------------------------------------------------------------
(* Sequences of numbers.                                                   *)

\* An increasing deque stays one when its oldest element is popped, which is
\* the only thing that leaves it.
LEMMA TailIncreasing ==
  ASSUME NEW n \in Nat, NEW q \in Seq(1..n), q # <<>>, Increasing(q)
  PROVE  /\ Head(q) \in 1..n /\ Tail(q) \in Seq(1..n) /\ Len(Tail(q)) = Len(q) - 1
         /\ Increasing(Tail(q))
         /\ \A m \in Nat : Below(q, m) => Below(Tail(q), m)
         /\ \A i \in DOMAIN q : Head(q) <= q[i]
         /\ ToSet(Tail(q)) = ToSet(q) \ {Head(q)}
<1>1. /\ Head(q) \in 1..n /\ Tail(q) \in Seq(1..n) /\ Len(Tail(q)) = Len(q) - 1
      /\ \A i \in 1..(Len(q) - 1) : Tail(q)[i] = q[i + 1]
  OBVIOUS
<1>2. \A i \in DOMAIN q : i # 1 => Head(q) < q[i]
  BY DEF Increasing
<1>3. Increasing(Tail(q))
  BY <1>1 DEF Increasing
<1>4. \A m \in Nat : Below(q, m) => Below(Tail(q), m)
  BY <1>1 DEF Below
<1>5. ToSet(Tail(q)) = ToSet(q) \ {Head(q)}
  <2>1. ASSUME NEW x \in ToSet(Tail(q)) PROVE x \in ToSet(q) /\ x # Head(q)
    <3>1. PICK i \in 1..(Len(q) - 1) : x = q[i + 1]
      BY <1>1 DEF ToSet
    <3>2. QED
      BY <3>1, <1>2 DEF ToSet
  <2>2. ASSUME NEW x \in ToSet(q), x # Head(q) PROVE x \in ToSet(Tail(q))
    <3>1. PICK i \in DOMAIN q : x = q[i]
      BY DEF ToSet
    <3>2. i - 1 \in 1..(Len(q) - 1) /\ Tail(q)[i - 1] = q[i] /\ i - 1 \in DOMAIN Tail(q)
      BY <1>1, <2>2, <3>1
    <3>3. QED
      BY <3>1, <3>2 DEF ToSet
  <2>3. QED
    BY <2>1, <2>2
<1>6. QED
  BY <1>1, <1>2, <1>3, <1>4, <1>5

\* What the append of a newer measurement does to a deque.
LEMMA AppendIncreasing ==
  ASSUME NEW n \in Nat, n > 0, NEW q \in Seq(1..n), Increasing(q), Below(q, n)
  PROVE  /\ Append(q, n) \in Seq(1..n) /\ Len(Append(q, n)) = Len(q) + 1
         /\ Increasing(Append(q, n))
         /\ ToSet(Append(q, n)) = ToSet(q) \cup {n}
<1>1. /\ Append(q, n) \in Seq(1..n) /\ Len(Append(q, n)) = Len(q) + 1
      /\ Append(q, n)[Len(q) + 1] = n
      /\ \A i \in 1..Len(q) : Append(q, n)[i] = q[i]
  OBVIOUS
<1>2. Increasing(Append(q, n))
  BY <1>1 DEF Increasing, Below
<1>3. ToSet(Append(q, n)) = ToSet(q) \cup {n}
  <2>1. DOMAIN Append(q, n) = DOMAIN q \cup {Len(q) + 1}
    BY <1>1
  <2>2. QED
    BY <1>1, <2>1 DEF ToSet
<1>4. QED
  BY <1>1, <1>2, <1>3

\* The least element of a set of numbers is what the log takes from it.
LEMMA OldestIs ==
  ASSUME NEW S \in SUBSET Nat, NEW m \in S, \A i \in S : m <= i
  PROVE  Log!Oldest(S) = m
<1>1. \E i \in S : \A j \in S : i <= j
  OBVIOUS
<1>2. Log!Oldest(S) \in S /\ \A j \in S : Log!Oldest(S) <= j
  BY <1>1 DEF Log!Oldest
<1>3. m \in Nat /\ Log!Oldest(S) \in Nat
  BY <1>2
<1>4. m <= Log!Oldest(S) /\ Log!Oldest(S) <= m
  BY <1>2
<1>5. QED
  BY <1>3, <1>4

-----------------------------------------------------------------------------
(* The inductive invariant.                                                *)

LEMMA ServingApp ==
  ASSUME FeedTypeOK, position <= Len(Subscribers)
  PROVE  Serving \in Apps /\ position \in 1..Len(Subscribers)
BY DEF FeedTypeOK, Serving, Apps

\* The app after which the reader moves on has no measurement in hand left, the
\* others keep theirs.
LEMMA InHandAfter ==
  ASSUME FeedTypeOK, position <= Len(Subscribers), readerPc # "recv",
         readerPc' # "recv", position' = position + 1, NEW a \in Apps
  PROVE  InHand(a)' <=> InHand(a) /\ a # Serving
<1>1. position \in 1..Len(Subscribers)
  BY ServingApp
<1>2. \A i \in position..Len(Subscribers) : i = position \/ i \in (position + 1)..Len(Subscribers)
  BY <1>1
<1>3. \A i, j \in 1..Len(Subscribers) : Subscribers[i] = Subscribers[j] => i = j
  BY DEF IsInjective
<1>4. QED
  BY <1>1, <1>2, <1>3 DEF InHand, Serving

LEMMA InitInv == Init => FeedInv
<1> SUFFICES ASSUME Init PROVE FeedInv
  OBVIOUS
<1>1. FeedTypeOK
  BY DEF Init, FeedTypeOK
<1>2. ReaderAt /\ Ordered
  BY DEF Init, ReaderAt, Ordered, InHand, Increasing
<1>3. QED
  BY <1>1, <1>2 DEF FeedInv

\* One deque changes to one whose order is as the invariant wants it.
LEMMA DequeStep ==
  ASSUME FeedInv, NEW a \in Apps, NEW q \in Seq(1..received), Len(q) <= MaxQueue,
         queue' = [queue EXCEPT ![a] = q], received' = received,
         Increasing(q), InHand(a)' => Below(q, received),
         \A b \in Apps : InHand(b)' => InHand(b) \/ b = a
  PROVE  /\ Ordered'
         /\ queue' \in [Apps -> Seq(1..received')]
         /\ \A b \in Apps : Len(queue'[b]) <= MaxQueue
<1>1. queue \in [Apps -> Seq(1..received)] /\ \A b \in Apps : Len(queue[b]) <= MaxQueue
  BY DEF FeedInv, FeedTypeOK
<1>2. queue'[a] = q /\ \A b \in Apps \ {a} : queue'[b] = queue[b]
  BY <1>1
<1>3. Ordered'
  BY <1>2 DEF FeedInv, Ordered
<1>4. QED
  BY <1>1, <1>2, <1>3

\* A step that leaves every deque alone, and the measurement in hand.
LEMMA DequesStay ==
  ASSUME FeedInv, UNCHANGED <<queue, received>>,
         \A b \in Apps : InHand(b)' => InHand(b)
  PROVE  Ordered'
BY DEF FeedInv, Ordered

LEMMA ReaderStepInv ==
  ASSUME FeedInv, ReaderStep
  PROVE  FeedInv'
<1>t. FeedTypeOK /\ ReaderAt /\ Ordered /\ Len(Subscribers) \in Nat
  BY DEF FeedInv
<1>1. CASE Receive
  <2>1. FeedTypeOK'
    <3>1. received' \in 0..MaxMeasurements /\ received \in Nat /\ received' = received + 1
      BY <1>1, <1>t DEF Receive, FeedTypeOK
    <3>2. queue' \in [Apps -> Seq(1..received')] /\ batch' \in [Loops -> Seq(1..received')]
      <4>1. \A s \in Seq(1..received) : s \in Seq(1..(received + 1))
        BY <3>1
      <4>2. QED
        BY <1>1, <1>t, <3>1, <4>1 DEF Receive, FeedTypeOK, loopVars
    <3>3. QED
      BY <1>1, <1>t, <3>1, <3>2 DEF Receive, FeedTypeOK, loopVars
  <2>2. ReaderAt'
    BY <1>1, <1>t DEF Receive, ReaderAt, FeedTypeOK
  <2>3. ASSUME NEW a \in Apps PROVE Increasing(queue[a])' /\ Below(queue[a], received)'
    <3>1. queue[a] \in Seq(1..received) /\ received \in Nat
      BY <1>t DEF FeedTypeOK
    <3>2. Below(queue[a], received + 1)
      BY <3>1 DEF Below
    <3>3. Increasing(queue[a]) /\ queue' = queue /\ received' = received + 1
      BY <1>1, <1>t DEF Ordered, Receive
    <3>4. QED
      BY <3>2, <3>3
  <2>4. QED
    BY <2>1, <2>2, <2>3 DEF FeedInv, Ordered
<1>2. CASE CheckState
  <2>1. FeedTypeOK' /\ ReaderAt'
    BY <1>2, <1>t DEF CheckState, FeedTypeOK, ReaderAt, loopVars
  <2>2. \A b \in Apps : InHand(b)' => InHand(b)
    <3>1. CASE readerPc' = "recv"
      BY <3>1 DEF InHand
    <3>2. CASE position' = position
      BY <1>2, <3>2 DEF CheckState, InHand
    <3>3. CASE position' = position + 1 /\ readerPc' # "recv"
      BY <1>2, <1>t, <3>3, InHandAfter DEF CheckState
    <3>4. QED
      BY <1>2, <3>1, <3>2, <3>3 DEF CheckState
  <2>3. QED
    BY <1>2, <2>1, <2>2, DequesStay DEF CheckState, FeedInv
<1>3. CASE CheckSize
  <2>1. FeedTypeOK' /\ ReaderAt'
    BY <1>3, <1>t DEF CheckSize, FeedTypeOK, ReaderAt, loopVars
  <2>2. QED
    BY <1>3, <2>1, DequesStay DEF CheckSize, FeedInv, InHand
<1>4. CASE DropOldest
  <2>a. Serving \in Apps
    BY <1>4, <1>t, ServingApp DEF DropOldest, ReaderAt
  <2>1. CASE queue[Serving] # <<>>
    <3>1. /\ Tail(queue[Serving]) \in Seq(1..received)
          /\ Len(Tail(queue[Serving])) <= MaxQueue
          /\ Increasing(Tail(queue[Serving]))
          /\ InHand(Serving) => Below(Tail(queue[Serving]), received)
      <4>1. received \in Nat /\ queue[Serving] \in Seq(1..received)
            /\ Len(queue[Serving]) <= MaxQueue /\ Increasing(queue[Serving])
            /\ (InHand(Serving) => Below(queue[Serving], received))
        BY <1>t, <2>a DEF FeedTypeOK, Ordered
      <4>2. \A q \in Seq(1..received) : q # <<>> /\ Increasing(q) =>
              /\ Tail(q) \in Seq(1..received) /\ Len(Tail(q)) = Len(q) - 1
              /\ Increasing(Tail(q))
              /\ Below(q, received) => Below(Tail(q), received)
        BY <4>1, TailIncreasing
      <4>3. Len(Tail(queue[Serving])) <= MaxQueue
        <5>1. Len(queue[Serving]) \in Nat /\ MaxQueue \in Nat
          BY <4>1
        <5>2. QED
          BY <4>1, <4>2, <2>1, <5>1
      <4>4. QED
        BY <4>1, <4>2, <4>3, <2>1, Zenon
    <3>2. \A b \in Apps : InHand(b)' <=> InHand(b)
      BY <1>4, <2>1 DEF DropOldest, InHand
    <3>3. queue' = [queue EXCEPT ![Serving] = Tail(queue[Serving])] /\ received' = received
      BY <1>4, <2>1, <2>a DEF DropOldest
    <3>4. /\ Ordered'
          /\ queue' \in [Apps -> Seq(1..received')]
          /\ \A b \in Apps : Len(queue'[b]) <= MaxQueue
      BY <2>a, <3>1, <3>2, <3>3, DequeStep
    <3>5. QED
      BY <1>4, <1>t, <2>1, <3>4 DEF DropOldest, FeedInv, FeedTypeOK, ReaderAt, loopVars
  <2>2. CASE queue[Serving] = <<>>
    <3>0. lost' \in [Apps -> Nat]
      <4>1. lost' = [a \in Apps |-> lost[a] + (IF InHand(a) THEN 1 ELSE 0)]
        BY <1>4, <2>2 DEF DropOldest
      <4>2. \A a \in Apps : lost[a] \in Nat
        BY <1>t DEF FeedTypeOK
      <4>3. QED
        BY <4>1, <4>2
    <3>a. /\ readerPc' = "recv" /\ position' = 1
          /\ UNCHANGED <<queue, appState, received, loopPc, batch, processed>>
      BY <1>4, <2>2 DEF DropOldest, loopVars
    <3>1. FeedTypeOK' /\ ReaderAt'
      BY <1>t, <3>0, <3>a DEF FeedTypeOK, ReaderAt
    <3>2. QED
      BY <1>4, <2>2, <3>1, DequesStay DEF DropOldest, FeedInv, InHand
  <2>3. QED
    BY <2>1, <2>2
<1>5. CASE AppendMeasurement
  <2>a. Serving \in Apps /\ position \in 1..Len(Subscribers)
    BY <1>5, <1>t, ServingApp DEF AppendMeasurement, ReaderAt
  <2>b. InHand(Serving)
    BY <1>5, <2>a DEF AppendMeasurement, InHand, Serving
  <2> DEFINE appended == Append(queue[Serving], received)
  <2>1. received \in Nat /\ received > 0 /\ queue[Serving] \in Seq(1..received)
        /\ Len(queue[Serving]) <= MaxQueue /\ Increasing(queue[Serving])
        /\ Below(queue[Serving], received)
    BY <1>5, <1>t, <2>a, <2>b DEF AppendMeasurement, FeedTypeOK, ReaderAt, Ordered
  <2>2. appended \in Seq(1..received) /\ Increasing(appended) /\ appended # <<>>
        /\ Len(appended) <= MaxQueue + 1
    BY <2>1, AppendIncreasing
  <2> HIDE DEF appended
  <2>3. Fit(appended) \in Seq(1..received) /\ Increasing(Fit(appended))
        /\ Len(Fit(appended)) <= MaxQueue
    <3>1. CASE Len(appended) > MaxQueue
      BY <2>1, <2>2, <3>1, TailIncreasing DEF Fit
    <3>2. CASE ~(Len(appended) > MaxQueue)
      BY <2>2, <3>2 DEF Fit
    <3>3. QED
      BY <3>1, <3>2
  <2>4. \A b \in Apps : InHand(b)' <=> InHand(b) /\ b # Serving
    BY <1>5, <1>t, <2>a, InHandAfter DEF AppendMeasurement
  <2>5. queue' = [queue EXCEPT ![Serving] = Fit(appended)] /\ received' = received
    BY <1>5, <1>t, <2>a DEF appended, AppendMeasurement, FeedTypeOK
  <2>6. /\ Ordered'
        /\ queue' \in [Apps -> Seq(1..received')]
        /\ \A b \in Apps : Len(queue'[b]) <= MaxQueue
    BY <2>a, <2>3, <2>4, <2>5, DequeStep
  <2>7. QED
    BY <1>5, <1>t, <2>a, <2>6 DEF AppendMeasurement, FeedInv, FeedTypeOK, ReaderAt, loopVars
<1>6. QED
  BY <1>1, <1>2, <1>3, <1>4, <1>5 DEF ReaderStep

\* The three loop actions; only Collect touches a deque.
LEMMA CollectFacts ==
  ASSUME FeedInv, NEW l \in Loops, Collect(l), queue[AppOf(l)] # <<>>
  PROVE  /\ AppOf(l) \in Apps
         /\ Head(queue[AppOf(l)]) \in 1..received
         /\ queue' = [queue EXCEPT ![AppOf(l)] = Tail(queue[AppOf(l)])]
         /\ Tail(queue[AppOf(l)]) \in Seq(1..received)
         /\ Len(Tail(queue[AppOf(l)])) <= MaxQueue
         /\ Increasing(Tail(queue[AppOf(l)]))
         /\ InHand(AppOf(l)) => Below(Tail(queue[AppOf(l)]), received)
<1>1. AppOf(l) \in Apps
  BY DEF AppOf
<1>2. received \in Nat /\ queue[AppOf(l)] \in Seq(1..received)
      /\ Len(queue[AppOf(l)]) <= MaxQueue /\ Increasing(queue[AppOf(l)])
      /\ (InHand(AppOf(l)) => Below(queue[AppOf(l)], received))
  BY <1>1 DEF FeedInv, FeedTypeOK, Ordered
<1>3. \A q \in Seq(1..received) : q # <<>> /\ Increasing(q) =>
        /\ Head(q) \in 1..received
        /\ Tail(q) \in Seq(1..received) /\ Len(Tail(q)) = Len(q) - 1
        /\ Increasing(Tail(q))
        /\ Below(q, received) => Below(Tail(q), received)
  BY <1>2, TailIncreasing
<1>4. Len(Tail(queue[AppOf(l)])) <= MaxQueue
  <2>1. Len(queue[AppOf(l)]) \in Nat /\ MaxQueue \in Nat
    BY <1>2
  <2>2. QED
    BY <1>2, <1>3, <2>1
<1>5. queue' = [queue EXCEPT ![AppOf(l)] = Tail(queue[AppOf(l)])]
  BY DEF Collect
<1>6. QED
  BY <1>1, <1>2, <1>3, <1>4, <1>5, Zenon

LEMMA LoopStepInv ==
  ASSUME FeedInv, NEW l \in Loops, LoopStep(l)
  PROVE  FeedInv'
<1>t. FeedTypeOK /\ ReaderAt
  BY DEF FeedInv
<1>1. CASE LoopTop(l)
  <2>1. FeedTypeOK' /\ ReaderAt'
    BY <1>1, <1>t DEF LoopTop, FeedTypeOK, ReaderAt, readerVars
  <2>2. QED
    BY <1>1, <2>1, DequesStay DEF LoopTop, FeedInv, InHand, readerVars
<1>2. CASE Collect(l)
  <2>1. CASE queue[AppOf(l)] = <<>>
    <3>1. UNCHANGED <<queue, batch, appState, processed, readerVars>>
          /\ loopPc' = [loopPc EXCEPT ![l] = "process"]
      BY <1>2, <2>1 DEF Collect
    <3>2. FeedTypeOK' /\ ReaderAt'
      BY <3>1, <1>t DEF FeedTypeOK, ReaderAt, readerVars
    <3>3. QED
      BY <3>1, <3>2, DequesStay DEF FeedInv, InHand, readerVars
  <2>2. CASE queue[AppOf(l)] # <<>>
    <3>1. /\ Ordered'
          /\ queue' \in [Apps -> Seq(1..received')]
          /\ \A b \in Apps : Len(queue'[b]) <= MaxQueue
      <4>1. \A b \in Apps : InHand(b)' <=> InHand(b)
        BY <1>2 DEF Collect, InHand, readerVars
      <4>2. received' = received
        BY <1>2 DEF Collect, readerVars
      <4>3. QED
        BY <1>2, <2>2, <4>1, <4>2, CollectFacts, DequeStep
    <3>2. batch' \in [Loops -> Seq(1..received')]
      <4>1. batch[l] \in Seq(1..received) /\ Head(queue[AppOf(l)]) \in 1..received
        BY <1>2, <1>t, <2>2, CollectFacts DEF FeedTypeOK
      <4>2. Append(batch[l], Head(queue[AppOf(l)])) \in Seq(1..received)
        BY <4>1
      <4>3. \/ batch' = [batch EXCEPT ![l] = Append(batch[l], Head(queue[AppOf(l)]))]
            \/ batch' = [batch EXCEPT ![l] = <<>>]
        BY <1>2, <1>t, <2>2 DEF Collect, FeedTypeOK
      <4>4. batch \in [Loops -> Seq(1..received)] /\ received' = received
        BY <1>2, <1>t DEF Collect, FeedTypeOK, readerVars
      <4>5. \A s \in Seq(1..received) : [batch EXCEPT ![l] = s] \in [Loops -> Seq(1..received)]
        BY <4>4
      <4>6. <<>> \in Seq(1..received)
        OBVIOUS
      <4>7. batch' \in [Loops -> Seq(1..received)]
        BY <4>2, <4>3, <4>5, <4>6, Zenon
      <4>8. QED
        BY <4>4, <4>7
    <3>3. QED
      BY <1>2, <1>t, <2>2, <3>1, <3>2 DEF Collect, FeedInv, FeedTypeOK, ReaderAt, readerVars
  <2>3. QED
    BY <2>1, <2>2
<1>3. CASE Process(l)
  <2>1. processed' \in [Loops -> 0..MaxMeasurements]
    <3>1. batch[l] # <<>> => Last(batch[l]) \in 0..MaxMeasurements
      BY <1>t DEF FeedTypeOK, Last
    <3>2. QED
      BY <1>3, <1>t, <3>1 DEF Process, FeedTypeOK
  <2>2. batch' \in [Loops -> Seq(1..received)] /\ loopPc' \in [Loops -> {"off", "top", "collect", "process"}]
    BY <1>3, <1>t DEF Process, FeedTypeOK
  <2>3. FeedTypeOK' /\ ReaderAt'
    BY <1>3, <1>t, <2>1, <2>2 DEF Process, FeedTypeOK, ReaderAt, readerVars
  <2>4. QED
    BY <1>3, <2>3, DequesStay DEF Process, FeedInv, InHand, readerVars
<1>4. QED
  BY <1>1, <1>2, <1>3 DEF LoopStep

LEMMA StepInv == FeedInv /\ [Next]_feedVars => FeedInv'
<1> SUFFICES ASSUME FeedInv, [Next]_feedVars
             PROVE  FeedInv'
  OBVIOUS
<1>t. FeedTypeOK /\ ReaderAt
  BY DEF FeedInv
<1>1. CASE UNCHANGED feedVars
  <2>1. FeedTypeOK' /\ ReaderAt'
    BY <1>1, <1>t DEF FeedTypeOK, ReaderAt, feedVars, readerVars, loopVars
  <2>2. QED
    BY <1>1, <2>1, DequesStay DEF FeedInv, InHand, feedVars, readerVars
<1>2. ASSUME NEW a \in Apps, UpdateState(a)
      PROVE  FeedInv'
  <2>1. FeedTypeOK' /\ ReaderAt'
    BY <1>2, <1>t DEF UpdateState, FeedTypeOK, ReaderAt, readerVars
  <2>2. QED
    BY <1>2, <2>1, DequesStay DEF UpdateState, FeedInv, InHand, readerVars
<1>3. QED
  BY <1>1, <1>2, ReaderStepInv, LoopStepInv DEF Next

LEMMA Invariance == FeedSpec => []FeedInv
BY InitInv, StepInv, PTL DEF FeedSpec

-----------------------------------------------------------------------------
\* Every variable keeps its type and no deque outgrows max_queue_size, though
\* the reader's test of the length, its eviction and its append are three steps
\* that any loop may come between.
THEOREM TypeCorrect == FeedSpec => []FeedTypeOK
<1>1. FeedInv => FeedTypeOK
  BY DEF FeedInv
<1>2. QED
  BY <1>1, Invariance, PTL

-----------------------------------------------------------------------------
(* The losses of the first subscriber.  One behind it also loses what the  *)
(* reader loses at those before it: which of them have raised since they   *)
(* got one is a binary counter, whose length is for TLC.                   *)

First == Subscribers[1]
\* Its deque was empty when the reader raised there, and only the reader fills it.
OneLoss ==
  Subscribers # <<>> =>
    \/ lost[First] = 0
    \/ lost[First] = 1 /\ queue[First] = <<>> /\ ~(readerPc = "evict" /\ position = 1)

LEMMA OneLossInit == Init => OneLoss
BY DEF Init, OneLoss, First, Apps

\* Nothing else shortens the count, and nothing else lengthens the deque.
LEMMA OneLossKept ==
  ASSUME FeedInv, OneLoss, Subscribers # <<>>,
         lost'[First] \in {lost[First], 0},
         queue[First] = <<>> => queue'[First] = <<>>,
         readerPc' = "evict" /\ position' = 1 =>
           (readerPc = "evict" /\ position = 1) \/ queue[First] # <<>>
  PROVE  OneLoss'
BY DEF OneLoss, First

LEMMA OneLossStep == FeedInv /\ OneLoss /\ [Next]_feedVars => OneLoss'
<1> SUFFICES ASSUME FeedInv, OneLoss, [Next]_feedVars, Subscribers # <<>>
             PROVE  OneLoss'
  BY DEF OneLoss
<1>t. FeedTypeOK /\ ReaderAt /\ First \in Apps /\ 1 \in DOMAIN Subscribers
  BY DEF FeedInv, First, Apps
<1>s. position <= Len(Subscribers) =>
        Serving \in Apps /\ (Serving = First <=> position = 1)
  <2>1. \A i, j \in 1..Len(Subscribers) : Subscribers[i] = Subscribers[j] => i = j
    BY DEF IsInjective
  <2>2. QED
    BY <1>t, <2>1, ServingApp DEF Serving, First
<1>1. CASE Receive
  BY <1>1, OneLossKept DEF Receive
<1>2. CASE CheckState
  <2>1. lost'[First] \in {lost[First], 0} /\ queue' = queue /\ readerPc' # "evict"
    BY <1>2, <1>t DEF CheckState, FeedTypeOK
  <2>2. QED
    BY <2>1, OneLossKept
<1>3. CASE CheckSize
  <2>1. UNCHANGED <<lost, queue, position>> /\ position <= Len(Subscribers)
    BY <1>3, <1>t DEF CheckSize, ReaderAt
  <2>2. readerPc' = "evict" => queue[Serving] # <<>>
    BY <1>3 DEF CheckSize
  <2>3. QED
    BY <1>s, <2>1, <2>2, OneLossKept
<1>4. CASE DropOldest
  <2>a. position <= Len(Subscribers) /\ readerPc = "evict"
    BY <1>4, <1>t DEF DropOldest, ReaderAt
  <2>1. CASE queue[Serving] # <<>>
    <3>1. queue' = [queue EXCEPT ![Serving] = Tail(queue[Serving])]
          /\ readerPc' = "append" /\ UNCHANGED lost
      BY <1>4, <2>1 DEF DropOldest
    <3>2. queue[First] = <<>> => queue'[First] = <<>>
      BY <1>t, <2>1, <3>1 DEF FeedTypeOK
    <3>3. QED
      BY <3>1, <3>2, OneLossKept
  <2>2. CASE queue[Serving] = <<>>
    <3>1. lost'[First] = lost[First] + (IF InHand(First) THEN 1 ELSE 0)
          /\ queue' = queue /\ readerPc' = "recv"
      BY <1>4, <1>t, <2>2 DEF DropOldest
    <3>2. CASE position = 1
      <4>1. lost[First] = 0 /\ queue[First] = <<>>
        BY <1>s, <2>a, <2>2, <3>2 DEF OneLoss
      <4>2. lost'[First] \in {0, 1}
        BY <3>1, <4>1
      <4>3. QED
        BY <3>1, <4>1, <4>2 DEF OneLoss, First
    <3>3. CASE position # 1
      <4>1. ~InHand(First)
        <5>1. \A i, j \in 1..Len(Subscribers) : Subscribers[i] = Subscribers[j] => i = j
          BY DEF IsInjective
        <5>2. \A i \in position..Len(Subscribers) : i # 1 /\ i \in 1..Len(Subscribers)
          BY <1>t, <3>3 DEF FeedTypeOK
        <5>3. QED
          BY <1>t, <5>1, <5>2 DEF InHand, First
      <4>2. lost[First] \in Nat
        BY <1>t DEF FeedTypeOK
      <4>3. lost'[First] = lost[First]
        BY <3>1, <4>1, <4>2
      <4>4. QED
        BY <3>1, <4>3, OneLossKept
    <3>4. QED
      BY <3>2, <3>3
  <2>3. QED
    BY <2>1, <2>2
<1>5. CASE AppendMeasurement
  <2>a. position <= Len(Subscribers) /\ readerPc' = "check"
    BY <1>5, <1>t DEF AppendMeasurement, ReaderAt
  <2>1. lost' = [lost EXCEPT ![Serving] = 0]
        /\ queue' = [queue EXCEPT ![Serving] = Fit(Append(queue[Serving], received))]
    BY <1>5 DEF AppendMeasurement
  <2>2. CASE Serving = First
    <3>1. lost'[First] = 0
      BY <1>t, <2>1, <2>2 DEF FeedTypeOK
    <3>2. QED
      BY <3>1 DEF OneLoss, First
  <2>3. CASE Serving # First
    <3>1. lost'[First] = lost[First] /\ queue'[First] = queue[First]
      BY <1>t, <2>1, <2>3 DEF FeedTypeOK
    <3>2. QED
      BY <2>a, <3>1, OneLossKept
  <2>4. QED
    BY <2>2, <2>3
<1>6. ASSUME NEW l \in Loops, LoopStep(l)
      PROVE  OneLoss'
  <2>1. UNCHANGED <<lost, readerPc, position>>
    BY <1>6 DEF LoopStep, LoopTop, Collect, Process, readerVars
  <2>2. queue[First] = <<>> => queue'[First] = <<>>
    <3>1. CASE LoopTop(l) \/ Process(l)
      BY <3>1 DEF LoopTop, Process
    <3>2. CASE Collect(l)
      BY <1>t, <3>2 DEF Collect, FeedTypeOK
    <3>3. QED
      BY <1>6, <3>1, <3>2 DEF LoopStep
  <2>3. QED
    BY <2>1, <2>2, OneLossKept
<1>7. CASE (\E a \in Apps : UpdateState(a)) \/ UNCHANGED feedVars
  <2>1. UNCHANGED <<lost, readerPc, position, queue>>
    BY <1>7 DEF UpdateState, feedVars, readerVars
  <2>2. QED
    BY <2>1, OneLossKept
<1>8. QED
  BY <1>1, <1>2, <1>3, <1>4, <1>5, <1>6, <1>7 DEF Next, ReaderStep

\* While the first subscriber runs, a measurement it lost to the race between the
\* reader and its loops is followed by one it gets, for any number of loops and
\* any length of the deques.
THEOREM FirstLosesOnce ==
  FeedSpec => [](Subscribers # <<>> => lost[Subscribers[1]] < 2)
<1>1. OneLoss => (Subscribers # <<>> => lost[Subscribers[1]] < 2)
  BY DEF OneLoss, First
<1>2. QED
  BY <1>1, OneLossInit, OneLossStep, Invariance, PTL DEF FeedSpec

-----------------------------------------------------------------------------
(* The feed implements the log, one step of it at a time.                  *)

\* What an app can still get.
Avail == [a \in Apps |-> ToSet(queue[a]) \cup (IF InHand(a) THEN {received} ELSE {})]

LEMMA InitRefines == Init => Log!Init
<1> SUFFICES ASSUME Init PROVE Log!Init
  OBVIOUS
<1>1. \A a \in Apps : ToSet(queue[a]) = {} /\ ~InHand(a)
  BY DEF Init, ToSet, InHand
<1>2. QED
  BY <1>1 DEF Init, Log!Init

\* The head of a deque is what the log calls the oldest; with it popped, the
\* app can get one measurement less.
LEMMA HeadIsOldest ==
  ASSUME FeedInv, NEW a \in Apps, queue[a] # <<>>
  PROVE  /\ Log!Oldest(Avail[a]) = Head(queue[a])
         /\ Log!Oldest(Avail[a] \cup {received}) = Head(queue[a])
         /\ Head(queue[a]) \in Avail[a]
         /\ ToSet(Tail(queue[a])) \cup (IF InHand(a) THEN {received} ELSE {})
              = Avail[a] \ {Head(queue[a])}
<1>1. received \in Nat /\ queue[a] \in Seq(1..received) /\ Increasing(queue[a])
      /\ (InHand(a) => Below(queue[a], received))
  BY DEF FeedInv, FeedTypeOK, Ordered
<1>2. \A q \in Seq(1..received) : q # <<>> /\ Increasing(q) =>
        /\ Head(q) \in 1..received
        /\ \A i \in DOMAIN q : Head(q) <= q[i]
        /\ ToSet(Tail(q)) = ToSet(q) \ {Head(q)}
  BY <1>1, TailIncreasing
<1>3. /\ Head(queue[a]) \in ToSet(queue[a])
      /\ \A n \in ToSet(queue[a]) : Head(queue[a]) <= n
      /\ ToSet(queue[a]) \subseteq 1..received
  BY <1>1, <1>2 DEF ToSet
<1>4. Head(queue[a]) <= received /\ (InHand(a) => Head(queue[a]) # received)
  BY <1>1, <1>2 DEF Below
<1>5. Avail[a] = ToSet(queue[a]) \cup (IF InHand(a) THEN {received} ELSE {})
  BY DEF Avail
<1>6. Log!Oldest(Avail[a]) = Head(queue[a])
  <2>1. /\ Avail[a] \in SUBSET Nat /\ Head(queue[a]) \in Avail[a]
        /\ \A n \in Avail[a] : Head(queue[a]) <= n
    BY <1>1, <1>3, <1>4, <1>5
  <2>2. QED
    BY <2>1, OldestIs
<1>7. Log!Oldest(Avail[a] \cup {received}) = Head(queue[a])
  <2>1. /\ Avail[a] \cup {received} \in SUBSET Nat
        /\ Head(queue[a]) \in Avail[a] \cup {received}
        /\ \A n \in Avail[a] \cup {received} : Head(queue[a]) <= n
    BY <1>1, <1>3, <1>4, <1>5
  <2>2. QED
    BY <2>1, OldestIs
<1>8. QED
  BY <1>1, <1>2, <1>3, <1>4, <1>5, <1>6, <1>7

\* A step of the reader that takes the measurement in hand, or the oldest of the
\* deque, from some apps and leaves the others what they had.
LEMMA LoseRefines ==
  ASSUME UNCHANGED <<received, batch, processed>>,
         \A a \in Apps :
           \/ Avail'[a] = Avail[a] \ {received}
           \/ Avail[a] # {} /\ Avail'[a] = Avail[a] \ {Log!Oldest(Avail[a])}
           \/ Avail'[a] = Avail[a]
  PROVE  Log!Lose
BY DEF Log!Lose, Avail

\* A step that leaves the deques and the measurement in hand alone.
LEMMA AvailStays ==
  ASSUME UNCHANGED <<queue, received, batch, processed>>,
         \A a \in Apps : InHand(a)' <=> InHand(a)
  PROVE  UNCHANGED Log!logVars
BY DEF Log!logVars

LEMMA ReaderStepRefines ==
  ASSUME FeedInv, ReaderStep
  PROVE  Log!Next \/ UNCHANGED Log!logVars
<1>t. FeedTypeOK /\ ReaderAt /\ Ordered
  BY DEF FeedInv
<1>1. CASE Receive
  <2>1. \A a \in Apps : ~InHand(a) /\ InHand(a)'
    BY <1>1 DEF Receive, InHand, Apps
  <2>2. received' = received + 1 /\ UNCHANGED <<queue, batch, processed>>
    BY <1>1 DEF Receive, loopVars
  <2>3. Log!Offer
    BY <2>1, <2>2 DEF Log!Offer
  <2>4. QED
    BY <2>3 DEF Log!Next
<1>2. CASE CheckState
  <2>1. UNCHANGED <<queue, received, batch, processed>>
    BY <1>2 DEF CheckState, loopVars
  <2>2. CASE position > Len(Subscribers)
    <3>1. \A a \in Apps : ~InHand(a) /\ ~InHand(a)'
      BY <1>2, <1>t, <2>2 DEF CheckState, InHand, FeedTypeOK
    <3>2. QED
      BY <2>1, <3>1, AvailStays
  <2>3. CASE position <= Len(Subscribers) /\ readerPc' = "size"
    <3>1. \A a \in Apps : InHand(a)' <=> InHand(a)
      BY <1>2, <1>t, <2>3 DEF CheckState, InHand, FeedTypeOK
    <3>2. QED
      BY <2>1, <3>1, AvailStays
  <2>4. CASE position <= Len(Subscribers) /\ readerPc' # "size"
    <3>1. \A a \in Apps : InHand(a)' <=> InHand(a) /\ a # Serving
      <4>1. readerPc = "check" /\ readerPc' = "check" /\ position' = position + 1
        BY <1>2, <1>t, <2>4 DEF CheckState, FeedTypeOK
      <4>2. QED
        BY <1>t, <2>4, <4>1, InHandAfter
    <3>2. \A a \in Apps : Avail'[a] = Avail[a] \/ Avail'[a] = Avail[a] \ {received}
      <4>1. ASSUME NEW a \in Apps, InHand(a), a = Serving
            PROVE  Avail'[a] = Avail[a] \ {received}
        <5>1. Below(queue[a], received) /\ queue[a] \in Seq(1..received) /\ received \in Nat
          BY <1>t, <4>1 DEF Ordered, FeedTypeOK
        <5>2. received \notin ToSet(queue[a])
          BY <5>1 DEF Below, ToSet
        <5>3. QED
          BY <2>1, <3>1, <4>1, <5>2 DEF Avail
      <4>2. ASSUME NEW a \in Apps, ~(InHand(a) /\ a = Serving)
            PROVE  Avail'[a] = Avail[a]
        BY <2>1, <3>1, <4>2 DEF Avail
      <4>3. QED
        BY <4>1, <4>2
    <3>3. QED
      BY <2>1, <3>2, LoseRefines DEF Log!Next
  <2>5. QED
    BY <1>2, <1>t, <2>2, <2>3, <2>4 DEF CheckState, FeedTypeOK
<1>3. CASE CheckSize
  BY <1>3, AvailStays DEF CheckSize, InHand, loopVars
<1>4. CASE DropOldest
  <2>a. Serving \in Apps
    BY <1>4, <1>t, ServingApp DEF DropOldest, ReaderAt
  <2>b. UNCHANGED <<received, batch, processed>>
    BY <1>4 DEF DropOldest, loopVars
  <2>1. CASE queue[Serving] # <<>>
    <3>1. \A a \in Apps : InHand(a)' <=> InHand(a)
      BY <1>4, <2>1 DEF DropOldest, InHand
    <3>2. queue' = [queue EXCEPT ![Serving] = Tail(queue[Serving])] /\ queue \in [Apps -> Seq(1..received)]
      BY <1>4, <1>t, <2>1 DEF DropOldest, FeedTypeOK
    <3>3. Avail[Serving] # {} /\ Avail'[Serving] = Avail[Serving] \ {Log!Oldest(Avail[Serving])}
      <4>1. queue'[Serving] = Tail(queue[Serving])
        BY <3>2, <2>a
      <4>2. QED
        BY <2>a, <2>b, <2>1, <3>1, <4>1, HeadIsOldest DEF Avail
    <3>4. ASSUME NEW a \in Apps, a # Serving PROVE Avail'[a] = Avail[a]
      BY <2>b, <3>1, <3>2, <3>4 DEF Avail
    <3>5. QED
      BY <2>b, <3>3, <3>4, LoseRefines DEF Log!Next
  <2>2. CASE queue[Serving] = <<>>
    <3>1. UNCHANGED queue /\ \A a \in Apps : ~InHand(a)'
      BY <1>4, <2>2 DEF DropOldest, InHand
    <3>2. ASSUME NEW a \in Apps, InHand(a) PROVE Avail'[a] = Avail[a] \ {received}
      <4>1. Below(queue[a], received) /\ queue[a] \in Seq(1..received) /\ received \in Nat
        BY <1>t, <3>2 DEF Ordered, FeedTypeOK
      <4>2. received \notin ToSet(queue[a])
        BY <4>1 DEF Below, ToSet
      <4>3. QED
        BY <2>b, <3>1, <3>2, <4>2 DEF Avail
    <3>3. ASSUME NEW a \in Apps, ~InHand(a) PROVE Avail'[a] = Avail[a]
      BY <2>b, <3>1, <3>3 DEF Avail
    <3>4. QED
      BY <2>b, <3>2, <3>3, LoseRefines DEF Log!Next
  <2>3. QED
    BY <2>1, <2>2
<1>5. CASE AppendMeasurement
  <2>a. Serving \in Apps /\ position \in 1..Len(Subscribers)
    BY <1>5, <1>t, ServingApp DEF AppendMeasurement, ReaderAt
  <2>b. InHand(Serving) /\ UNCHANGED <<received, batch, processed>>
    BY <1>5, <2>a DEF AppendMeasurement, InHand, Serving, loopVars
  <2> DEFINE old == queue[Serving]
             new == Append(old, received)
  <2>1. received \in Nat /\ received > 0 /\ old \in Seq(1..received)
        /\ Increasing(old) /\ Below(old, received)
    BY <1>5, <1>t, <2>a, <2>b DEF AppendMeasurement, FeedTypeOK, ReaderAt, Ordered
  <2>2. new \in Seq(1..received) /\ Increasing(new) /\ new # <<>> /\ Len(new) \in Nat
        /\ ToSet(new) = Avail[Serving]
    BY <2>1, <2>a, <2>b, AppendIncreasing DEF Avail
  <2>3. Len(new) > 1 => Head(new) = Head(old) /\ old # <<>>
    BY <2>1
  <2>4. queue' = [queue EXCEPT ![Serving] = Fit(new)] /\ queue \in [Apps -> Seq(1..received)]
    BY <1>5, <1>t, <2>a DEF AppendMeasurement, FeedTypeOK
  <2>5. \A a \in Apps : InHand(a)' <=> InHand(a) /\ a # Serving
    BY <1>5, <1>t, <2>a, InHandAfter DEF AppendMeasurement
  <2> HIDE DEF new
  <2>6. \/ Avail'[Serving] = Avail[Serving]
        \/ Avail[Serving] # {} /\ Avail'[Serving] = Avail[Serving] \ {Log!Oldest(Avail[Serving])}
    <3>1. Avail'[Serving] = ToSet(Fit(new))
      BY <2>4, <2>5, <2>a DEF Avail
    <3>2. CASE Len(new) > MaxQueue
      <4>1. ToSet(Tail(new)) = ToSet(new) \ {Head(new)}
        BY <2>1, <2>2, TailIncreasing
      <4>2. Head(new) = Log!Oldest(Avail[Serving]) /\ Avail[Serving] # {}
        <5>1. Len(new) > 1
          BY <2>2, <3>2
        <5>2. Head(new) = Head(queue[Serving]) /\ queue[Serving] # <<>>
          BY <2>3, <5>1
        <5>3. QED
          BY <2>a, <5>2, HeadIsOldest
      <4>3. QED
        BY <2>2, <3>1, <3>2, <4>1, <4>2 DEF Fit
    <3>3. CASE ~(Len(new) > MaxQueue)
      BY <2>2, <3>1, <3>3 DEF Fit
    <3>4. QED
      BY <3>2, <3>3
  <2>7. ASSUME NEW a \in Apps, a # Serving PROVE Avail'[a] = Avail[a]
    BY <2>b, <2>4, <2>5, <2>7 DEF Avail
  <2>8. QED
    BY <2>b, <2>6, <2>7, LoseRefines DEF Log!Next
<1>6. QED
  BY <1>1, <1>2, <1>3, <1>4, <1>5 DEF ReaderStep

LEMMA LoopStepRefines ==
  ASSUME FeedInv, NEW l \in Loops, LoopStep(l)
  PROVE  Log!Next \/ UNCHANGED Log!logVars
<1>t. FeedTypeOK /\ AppOf(l) \in Apps
  BY DEF FeedInv, AppOf
<1>h. UNCHANGED <<received, readerPc, position>> /\ \A a \in Apps : InHand(a)' <=> InHand(a)
  BY DEF LoopStep, LoopTop, Collect, Process, InHand, readerVars
<1>1. CASE LoopTop(l)
  BY <1>1, <1>h, AvailStays DEF LoopTop
<1>2. CASE Collect(l) /\ queue[AppOf(l)] = <<>>
  BY <1>2, <1>h, AvailStays DEF Collect
<1>3. CASE Collect(l) /\ queue[AppOf(l)] # <<>>
  <2> DEFINE a == AppOf(l)
             head == Head(queue[a])
  <2>1. UNCHANGED processed /\ queue \in [Apps -> Seq(1..received)] /\ batch \in [Loops -> Seq(1..received)]
    BY <1>3, <1>t DEF Collect, FeedTypeOK
  <2>2. /\ Log!Oldest(Avail[a]) = head /\ Log!Oldest(Avail[a] \cup {received}) = head
        /\ Avail[a] # {}
    BY <1>3, <1>t, HeadIsOldest
  <2>3. Avail' = [Avail EXCEPT ![a] = Avail[a] \ {head}]
    <3>1. queue' = [queue EXCEPT ![a] = Tail(queue[a])]
      BY <1>3, CollectFacts
    <3>2. Avail'[a] = Avail[a] \ {head}
      <4>1. queue'[a] = Tail(queue[a])
        BY <1>t, <2>1, <3>1
      <4>2. QED
        BY <1>3, <1>t, <1>h, <4>1, HeadIsOldest DEF Avail
    <3>3. ASSUME NEW b \in Apps, b # a PROVE Avail'[b] = Avail[b]
      BY <1>h, <2>1, <3>1, <3>3 DEF Avail
    <3>4. QED
      BY <1>t, <3>2, <3>3 DEF Avail
  <2>4. \/ batch' = [batch EXCEPT ![l] = Append(batch[l], head)]
        \/ batch' = [batch EXCEPT ![l] = <<>>]
    BY <1>3, <2>1 DEF Collect
  <2> HIDE DEF a, head
  <2>5. CASE batch' = [batch EXCEPT ![l] = Append(batch[l], head)]
    <3>1. Log!Take(l)
      BY <1>h, <2>1, <2>2, <2>3, <2>5 DEF Log!Take, Avail, a
    <3>2. QED
      BY <3>1 DEF Log!Next
  <2>6. CASE batch' = [batch EXCEPT ![l] = <<>>]
    <3>1. Log!Crash(l)
      BY <1>h, <2>1, <2>2, <2>3, <2>6 DEF Log!Crash, Avail, a
    <3>2. QED
      BY <3>1 DEF Log!Next
  <2>7. QED
    BY <2>4, <2>5, <2>6
<1>4. CASE Process(l) /\ batch[l] = <<>>
  <2>1. batch \in [Loops -> Seq(1..received)] /\ processed \in [Loops -> 0..MaxMeasurements]
    BY <1>t DEF FeedTypeOK
  <2>2. UNCHANGED <<queue, batch, processed>>
    BY <1>4, <2>1 DEF Process
  <2>3. QED
    BY <1>h, <2>2, AvailStays
<1>5. CASE Process(l) /\ batch[l] # <<>>
  <2>1. Avail' = Avail
    BY <1>5, <1>h DEF Avail, Process
  <2>2. Log!Process(l)
    BY <1>5, <1>h, <2>1 DEF Process, Log!Process, Avail, Last
  <2>3. QED
    BY <2>2 DEF Log!Next
<1>6. QED
  BY <1>1, <1>2, <1>3, <1>4, <1>5 DEF LoopStep

LEMMA StepRefines == FeedInv /\ [Next]_feedVars => [Log!Next]_(Log!logVars)
<1> SUFFICES ASSUME FeedInv, [Next]_feedVars
             PROVE  Log!Next \/ UNCHANGED Log!logVars
  OBVIOUS
<1>1. CASE UNCHANGED feedVars
  BY <1>1, AvailStays DEF feedVars, readerVars, loopVars, InHand
<1>2. ASSUME NEW a \in Apps, UpdateState(a)
      PROVE  UNCHANGED Log!logVars
  BY <1>2, AvailStays DEF UpdateState, readerVars, InHand
<1>3. QED
  BY <1>1, <1>2, ReaderStepRefines, LoopStepRefines DEF Next

\* The feed implements MeasurementLog: whatever the reader drops, and however it
\* and the loops of an app interleave over a deque, each measurement goes to at
\* most one loop of an app and every loop reads oldest first.
THEOREM FeedImplementsLog == FeedSpec => ImplementsMeasurementLog
BY InitRefines, StepRefines, Invariance, PTL DEF FeedSpec, ImplementsMeasurementLog, Log!Spec
=============================================================================
