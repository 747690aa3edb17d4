-------------------------- MODULE AppRuntimeProofs --------------------------
(***************************************************************************)
(* Type correctness and the safety properties of AppRuntime, for any sets  *)
(* of loop threads, API threads and requests.                              *)
(***************************************************************************)
EXTENDS AppRuntime, SequenceTheorems, TLAPS

\* Cutting one position out of a sequence (deque.remove).
LEMMA RemoveAtFacts ==
  ASSUME NEW S, NEW s \in Seq(S), NEW i \in DOMAIN s
  PROVE  /\ RemoveAt(s, i) \in Seq(S)
         /\ Len(RemoveAt(s, i)) = Len(s) - 1
         /\ \A j \in 1 .. Len(s) - 1 :
              RemoveAt(s, i)[j] = IF j < i THEN s[j] ELSE s[j + 1]
<1> DEFINE front == SubSeq(s, 1, i - 1)
           back == SubSeq(s, i + 1, Len(s))
<1>1. /\ Len(s) \in Nat
      /\ DOMAIN s = 1 .. Len(s)
      /\ i \in 1 .. Len(s)
  BY LenProperties
<1>2. /\ front \in Seq(S)
      /\ Len(front) = i - 1
      /\ \A j \in 1 .. i - 1 : front[j] = s[j]
  BY <1>1, SubSeqProperties
<1>3. /\ back \in Seq(S)
      /\ Len(back) = Len(s) - i
      /\ \A j \in 1 .. Len(s) - i : back[j] = s[i + j]
  BY <1>1, SubSeqProperties
<1> HIDE DEF front, back
<1>4. /\ front \o back \in Seq(S)
      /\ Len(front \o back) = Len(front) + Len(back)
      /\ \A j \in 1 .. Len(front) + Len(back) :
           (front \o back)[j] = IF j <= Len(front) THEN front[j]
                               ELSE back[j - Len(front)]
  BY <1>2, <1>3, ConcatProperties
<1>5. ASSUME NEW j \in 1 .. Len(s) - 1
      PROVE  (front \o back)[j] = IF j < i THEN s[j] ELSE s[j + 1]
  <2>1. CASE j < i
    BY <1>1, <1>2, <1>3, <1>4, <2>1
  <2>2. CASE ~(j < i)
    <3>1. /\ (front \o back)[j] = back[j - (i - 1)]
          /\ j - (i - 1) \in 1 .. Len(s) - i
      BY <1>1, <1>2, <1>3, <1>4, <2>2
    <3>2. i + (j - (i - 1)) = j + 1
      BY <1>1
    <3>3. QED
      BY <1>1, <1>3, <2>2, <3>1, <3>2
  <2>3. QED
    BY <2>1, <2>2
<1>6. RemoveAt(s, i) = front \o back
  BY DEF RemoveAt, front, back
<1>7. Len(front) + Len(back) = Len(s) - 1
  BY <1>1, <1>2, <1>3
<1>8. QED
  BY <1>4, <1>5, <1>6, <1>7

USE RuntimeAssumption DEF States, Errors, Replies, ThreadPc, OperPc, RequestPc

\* Initially every variable has its type.
LEMMA InitType == Init => TypeOK
<1> SUFFICES ASSUME Init PROVE TypeOK
  OBVIOUS
<1>1. /\ \A t \in Threads : pc[t] = "free"
      /\ \A o \in Opers : pc[o] = "idle"
      /\ \A r \in Requests : pc[r] = "new"
  BY DEF Init
<1>2. pc \in [Threads \cup Opers \cup Requests ->
             ThreadPc \cup OperPc \cup RequestPc]
  BY DEF Init
<1>3. /\ held \in [Threads -> Requests \cup {None}]
      /\ target \in [Opers -> States]
      /\ error \in [Requests -> Errors]
      /\ reply \in [Requests -> Replies]
      /\ handled \in [Requests -> Nat]
  BY DEF Init
<1>4. /\ appState \in States
      /\ queue \in Seq(Requests)
  BY EmptySeq DEF Init
<1>8. stopEvent \in BOOLEAN
  BY Zenon DEF Init
<1>5. /\ response \in [Requests -> BOOLEAN]
      /\ event \in [Requests -> BOOLEAN]
  BY DEF Init
<1>6. /\ \A t \in Threads : pc[t] \in ThreadPc
      /\ \A o \in Opers : pc[o] \in OperPc
      /\ \A r \in Requests : pc[r] \in RequestPc
  BY <1>1
<1>7. QED
  BY <1>2, <1>3, <1>4, <1>5, <1>6, <1>8 DEF TypeOK

\* pc stays well typed when one process moves to a label of its kind.
LEMMA GotoType ==
  ASSUME TypeOK,
         NEW p \in Threads \cup Opers \cup Requests, NEW label, Goto(p, label),
         p \in Threads => label \in ThreadPc,
         p \in Opers => label \in OperPc,
         p \in Requests => label \in RequestPc
  PROVE  /\ pc' \in [Threads \cup Opers \cup Requests ->
                      ThreadPc \cup OperPc \cup RequestPc]
         /\ \A t \in Threads : pc'[t] \in ThreadPc
         /\ \A o \in Opers : pc'[o] \in OperPc
         /\ \A r \in Requests : pc'[r] \in RequestPc
BY DEF TypeOK, Goto

\* The drain keeps the types when its labels are of the kind of its thread.
LEMMA DrainTestType ==
  ASSUME TypeOK, NEW p \in Threads \cup Opers,
         NEW test, NEW pop, NEW return, DrainTest(p, test, pop, return),
         p \in Threads => pop \in ThreadPc /\ return \in ThreadPc,
         p \in Opers => pop \in OperPc /\ return \in OperPc
  PROVE  TypeOK'
<1>1. PICK label : Goto(p, label) /\ label \in {pop, return}
  BY DEF DrainTest
<1>2. QED
  BY <1>1, GotoType DEF DrainTest, TypeOK, requestVars

LEMMA DrainPopType ==
  ASSUME TypeOK, NEW p \in Threads \cup Opers,
         NEW test, NEW pop, NEW onError, DrainPop(p, test, pop, onError),
         p \in Threads => test \in ThreadPc /\ onError \in ThreadPc,
         p \in Opers => test \in OperPc /\ onError \in OperPc
  PROVE  TypeOK'
<1>1. CASE queue # <<>> /\ Goto(p, test)
  <2>1. Head(queue) \in Requests /\ Tail(queue) \in Seq(Requests)
    BY <1>1 DEF TypeOK
  <2>2. /\ queue' = Tail(queue)
        /\ error' = [error EXCEPT ![Head(queue)] = "text"]
        /\ event' = [event EXCEPT ![Head(queue)] = TRUE]
    BY <1>1 DEF DrainPop
  <2>3. QED
    BY <1>1, <2>1, <2>2, GotoType DEF DrainPop, TypeOK
<1>2. CASE queue = <<>> /\ Goto(p, onError)
  <2>1. UNCHANGED <<queue, error, event>>
    BY <1>2 DEF DrainPop
  <2>2. QED
    BY <1>2, <2>1, GotoType DEF DrainPop, TypeOK
<1>3. QED
  BY <1>1, <1>2 DEF DrainPop

\* Every step preserves the types.
LEMMA NextType == TypeOK /\ [Next]_vars => TypeOK'
<1> SUFFICES ASSUME TypeOK, [Next]_vars PROVE TypeOK'
  OBVIOUS
<1>1. ASSUME NEW o \in Opers, OperStep(o) PROVE TypeOK'
  <2>1. CASE ReadState(o)
    <3>1. PICK label : Goto(o, label) /\ label \in OperPc
      BY <2>1 DEF ReadState
    <3>2. target' \in [Opers -> States]
      BY <2>1 DEF ReadState, TypeOK
    <3>3. QED
      BY <2>1, <3>1, <3>2, GotoType DEF ReadState, TypeOK, requestVars
  <2>2. CASE SetRunning(o)
    BY <2>2 DEF SetRunning, TypeOK, Goto, Alive, requestVars
  <2>3. CASE Spawn(o)
    <3>1. PICK t \in Threads : pc' = [pc EXCEPT ![o] = "idle", ![t] = "top"]
      BY <2>3 DEF Spawn
    <3>2. /\ pc' \in [Threads \cup Opers \cup Requests ->
                        ThreadPc \cup OperPc \cup RequestPc]
          /\ \A u \in Threads : pc'[u] \in ThreadPc
          /\ \A q \in Opers : pc'[q] \in OperPc
          /\ \A r \in Requests : pc'[r] \in RequestPc
      BY <3>1 DEF TypeOK
    <3>3. QED
      BY <2>3, <3>2 DEF Spawn, TypeOK, requestVars
  <2>4. CASE SetState(o)
    BY <2>4 DEF SetState, TypeOK, Goto, Alive, requestVars
  <2>5. CASE StopDrain(o)
    BY <2>5, DrainTestType, DrainPopType DEF StopDrain
  <2>6. QED
    BY <1>1, <2>1, <2>2, <2>3, <2>4, <2>5 DEF OperStep
<1>2. ASSUME NEW t \in Threads, LoopStep(t) PROVE TypeOK'
  <2>1. CASE LoopTop(t)
    BY <2>1 DEF LoopTop, TypeOK, Goto, requestVars
  <2>2. CASE LoopWake(t)
    BY <2>2 DEF LoopWake, TypeOK, Goto, requestVars
  <2>3. CASE RunProcess(t)
    BY <2>3 DEF RunProcess, TypeOK, Goto, requestVars
  <2>4. CASE AgentGate(t)
    BY <2>4 DEF AgentGate, TypeOK, Goto, requestVars
  <2>5. CASE PollRequests(t)
    BY <2>5 DEF PollRequests, TypeOK, Goto, requestVars
  <2>6. CASE TakeRequest(t)
    <3>1. PICK label : Goto(t, label) /\ label \in ThreadPc
      BY <2>6 DEF TakeRequest
    <3>2. queue' \in Seq(Requests) /\ held' \in [Threads -> Requests \cup {None}]
      <4>1. CASE queue # <<>>
        <5>1. Head(queue) \in Requests /\ Tail(queue) \in Seq(Requests)
          BY <4>1 DEF TypeOK
        <5>2. queue' = Tail(queue) /\ held' = [held EXCEPT ![t] = Head(queue)]
          BY <2>6, <4>1 DEF TakeRequest
        <5>3. QED
          BY <5>1, <5>2 DEF TypeOK
      <4>2. CASE queue = <<>>
        BY <2>6, <4>2 DEF TakeRequest, TypeOK
      <4>3. QED
        BY <4>1, <4>2
    <3>3. QED
      BY <2>6, <3>1, <3>2, GotoType DEF TakeRequest, TypeOK, requestVars
  <2>7. CASE CallHandler(t)
    <3>1. handled' \in [Requests -> Nat]
      <4>1. CASE handled' = handled
        BY <4>1 DEF TypeOK
      <4>2. CASE handled' = [handled EXCEPT ![held[t]] = handled[held[t]] + 1]
        <5>1. handled \in [Requests -> Nat]
          BY DEF TypeOK
        <5>2. ASSUME NEW r \in Requests PROVE handled'[r] \in Nat
          <6>1. CASE r = held[t]
            BY <4>2, <5>1, <6>1
          <6>2. CASE r # held[t]
            BY <4>2, <5>1, <6>2
          <6>3. QED
            BY <6>1, <6>2
        <5>3. QED
          BY <4>2, <5>1, <5>2
      <4>3. QED
        BY <2>7, <4>1, <4>2 DEF CallHandler
    <3>2. response' \in [Requests -> BOOLEAN] /\ error' \in [Requests -> Errors]
      <4>1. CASE response' = [response EXCEPT ![held[t]] = TRUE] /\ error' = error
        BY <4>1 DEF TypeOK
      <4>2. CASE /\ response' = response
                 /\ \E e \in Errors : error' = [error EXCEPT ![held[t]] = e]
        <5>1. response' \in [Requests -> BOOLEAN]
          BY <4>2 DEF TypeOK
        <5>2. error' \in [Requests -> Errors]
          BY <4>2 DEF TypeOK
        <5>3. QED
          BY <5>1, <5>2
      <4>3. "text" \in Errors
        BY DEF Errors
      <4>4. QED
        BY <2>7, <4>1, <4>2, <4>3 DEF CallHandler
    <3>3. Goto(t, "signal")
      BY <2>7 DEF CallHandler
    <3>4. QED
      BY <2>7, <3>1, <3>2, <3>3, GotoType DEF CallHandler, TypeOK
  <2>8. CASE SignalRequest(t)
    BY <2>8 DEF SignalRequest, TypeOK, Goto, requestVars
  <2>9. CASE SendCommands(t)
    BY <2>9 DEF SendCommands, TypeOK, Goto, requestVars
  <2>10. CASE LoopDrain(t)
    BY <2>10, DrainTestType, DrainPopType DEF LoopDrain
  <2>11. QED
    BY <1>2, <2>1, <2>2, <2>3, <2>4, <2>5, <2>6, <2>7, <2>8, <2>9, <2>10 DEF LoopStep
<1>3. ASSUME NEW r \in Requests, RequestStep(r) PROVE TypeOK'
  <2>1. CASE Precheck(r)
    BY <2>1 DEF Precheck, TypeOK, Goto, Answer, requestVars
  <2>2. CASE Enqueue(r)
    BY <2>2 DEF Enqueue, TypeOK, Goto, Answer, requestVars
  <2>3. CASE Recheck(r)
    BY <2>3 DEF Recheck, TypeOK, Goto, Answer, requestVars
  <2>4. CASE Withdraw(r)
    <3>1. queue' \in Seq(Requests)
      BY <2>4, RemoveAtFacts DEF Withdraw, TypeOK
    <3>2. Goto(r, "submit")
      BY <2>4 DEF Withdraw
    <3>3. error' \in [Requests -> Errors] /\ event' \in [Requests -> BOOLEAN]
      BY <2>4 DEF Withdraw, TypeOK
    <3>4. QED
      BY <2>4, <3>1, <3>2, <3>3, GotoType DEF Withdraw, TypeOK
  <2>5. CASE WithdrawRaises(r)
    BY <2>5 DEF WithdrawRaises, TypeOK, Goto, Answer, requestVars
  <2>6. CASE StartWait(r)
    BY <2>6 DEF StartWait, TypeOK, Goto, Answer, requestVars
  <2>7. CASE Completed(r)
    BY <2>7 DEF Completed, TypeOK, Goto, Answer, requestVars
  <2>8. CASE TimedOut(r)
    BY <2>8 DEF TimedOut, TypeOK, Goto, Answer, requestVars
  <2>9. QED
    BY <1>3, <2>1, <2>2, <2>3, <2>4, <2>5, <2>6, <2>7, <2>8 DEF RequestStep
<1>4. CASE Shutdown
  BY <1>4 DEF Shutdown, TypeOK, requestVars
<1>5. CASE UNCHANGED vars
  BY <1>5 DEF TypeOK, vars
<1>6. QED
  BY <1>1, <1>2, <1>3, <1>4, <1>5 DEF Next

\* Every variable keeps its type.
THEOREM TypeCorrect == Spec => []TypeOK
BY InitType, NextType, PTL DEF Spec

-----------------------------------------------------------------------------
(* Custody, RequestLife, HandledOnce and StopLeavesNoWaiter together are    *)
(* inductive.  What the deque operations do is stated first.               *)

LEMMA QueueFacts ==
  ASSUME TypeOK
  PROVE  /\ Len(queue) \in Nat
         /\ DOMAIN queue = 1 .. Len(queue)
         /\ \A i \in 1 .. Len(queue) : queue[i] \in Requests
BY LenProperties DEF TypeOK

\* popleft on a deque without duplicates.
LEMMA PopFacts ==
  ASSUME TypeOK, Distinct, queue # <<>>, queue' = Tail(queue)
  PROVE  /\ Head(queue) \in Requests
         /\ Queued(Head(queue))
         /\ Distinct'
         /\ \A r \in Requests : Queued(r)' <=> Queued(r) /\ r # Head(queue)
<1>1. /\ Len(queue) \in Nat \ {0}
      /\ Head(queue) = queue[1]
      /\ queue[1] \in Requests
  BY QueueFacts, EmptySeq, HeadTailProperties DEF TypeOK
<1>2. /\ Len(queue') = Len(queue) - 1
      /\ DOMAIN queue' = 1 .. Len(queue) - 1
      /\ \A i \in 1 .. Len(queue) - 1 : queue'[i] = queue[i + 1]
  BY HeadTailProperties, LenProperties DEF TypeOK
<1>3. Distinct'
  BY <1>1, <1>2, QueueFacts DEF Distinct
<1>4. ASSUME NEW r \in Requests
      PROVE  Queued(r)' <=> Queued(r) /\ r # Head(queue)
  <2>1. ASSUME Queued(r)' PROVE Queued(r) /\ r # Head(queue)
    <3>1. PICK i \in 1 .. Len(queue) - 1 : queue[i + 1] = r
      BY <1>2, <2>1 DEF Queued
    <3>2. i + 1 \in DOMAIN queue /\ 1 \in DOMAIN queue /\ i + 1 # 1
      BY <1>1, <3>1, QueueFacts
    <3>3. QED
      BY <1>1, <3>1, <3>2 DEF Queued, Distinct
  <2>2. ASSUME Queued(r), r # Head(queue) PROVE Queued(r)'
    <3>1. PICK i \in 1 .. Len(queue) : queue[i] = r
      BY <2>2, QueueFacts DEF Queued
    <3>2. i # 1
      BY <1>1, <2>2, <3>1
    <3>3. i - 1 \in DOMAIN queue' /\ queue'[i - 1] = r
      BY <1>1, <1>2, <3>1, <3>2
    <3>4. QED
      BY <3>3 DEF Queued
  <2>3. QED
    BY <2>1, <2>2
<1>5. Queued(Head(queue))
  BY <1>1, QueueFacts DEF Queued
<1>6. QED
  BY <1>1, <1>3, <1>4, <1>5

\* append of a request that is not in the deque.
LEMMA AppendFacts ==
  ASSUME TypeOK, Distinct, NEW q \in Requests, ~Queued(q),
         queue' = Append(queue, q)
  PROVE  /\ Distinct'
         /\ \A r \in Requests : Queued(r)' <=> Queued(r) \/ r = q
<1>1. /\ Len(queue') = Len(queue) + 1
      /\ DOMAIN queue' = 1 .. Len(queue) + 1
      /\ queue'[Len(queue) + 1] = q
      /\ \A i \in 1 .. Len(queue) : queue'[i] = queue[i]
  BY AppendProperties, LenProperties, QueueFacts DEF TypeOK
<1>2. \A i \in 1 .. Len(queue) : queue[i] # q
  BY QueueFacts DEF Queued
<1>3. Distinct'
  BY <1>1, <1>2, QueueFacts DEF Distinct
<1>4. ASSUME NEW r \in Requests
      PROVE  Queued(r)' <=> Queued(r) \/ r = q
  BY <1>1, QueueFacts DEF Queued
<1>5. QED
  BY <1>3, <1>4

\* remove of a request from a deque without duplicates.
LEMMA RemoveFacts ==
  ASSUME TypeOK, Distinct, NEW i \in DOMAIN queue,
         queue' = RemoveAt(queue, i)
  PROVE  /\ Distinct'
         /\ \A r \in Requests : Queued(r)' <=> Queued(r) /\ r # queue[i]
<1>1. /\ Len(queue') = Len(queue) - 1
      /\ DOMAIN queue' = 1 .. Len(queue) - 1
      /\ \A j \in 1 .. Len(queue) - 1 :
           queue'[j] = IF j < i THEN queue[j] ELSE queue[j + 1]
      /\ i \in 1 .. Len(queue)
      /\ Len(queue) \in Nat
  BY RemoveAtFacts, LenProperties, QueueFacts DEF TypeOK
<1>2. Distinct'
  <2>1. SUFFICES ASSUME NEW j \in 1 .. Len(queue) - 1,
                        NEW k \in 1 .. Len(queue) - 1, queue'[j] = queue'[k]
                 PROVE  j = k
    BY <1>1 DEF Distinct
  <2> DEFINE pos(m) == IF m < i THEN m ELSE m + 1
  <2>2. /\ pos(j) \in DOMAIN queue /\ pos(k) \in DOMAIN queue
        /\ queue'[j] = queue[pos(j)] /\ queue'[k] = queue[pos(k)]
    BY <1>1, QueueFacts
  <2>3. pos(j) = pos(k)
    BY <2>1, <2>2 DEF Distinct
  <2>4. QED
    BY <1>1, <2>3
<1>3. ASSUME NEW r \in Requests
      PROVE  Queued(r)' <=> Queued(r) /\ r # queue[i]
  <2>1. ASSUME Queued(r)' PROVE Queued(r) /\ r # queue[i]
    <3>1. PICK j \in 1 .. Len(queue) - 1 : queue'[j] = r
      BY <1>1, <2>1 DEF Queued
    <3>2. PICK k \in DOMAIN queue : k # i /\ queue[k] = r
      BY <1>1, <3>1, QueueFacts
    <3>3. QED
      BY <3>2 DEF Queued, Distinct
  <2>2. ASSUME Queued(r), r # queue[i] PROVE Queued(r)'
    <3>1. PICK k \in 1 .. Len(queue) : queue[k] = r
      BY <2>2, QueueFacts DEF Queued
    <3>2. k # i
      BY <2>2, <3>1
    <3>3. PICK j \in 1 .. Len(queue) - 1 : queue'[j] = r
      <4>1. CASE k < i
        <5>1. k \in 1 .. Len(queue) - 1 /\ queue'[k] = r
          BY <1>1, <3>1, <4>1
        <5>2. QED
          BY <5>1
      <4>2. CASE ~(k < i)
        <5>1. k - 1 \in 1 .. Len(queue) - 1 /\ ~(k - 1 < i) /\ (k - 1) + 1 = k
          BY <1>1, <3>1, <3>2, <4>2
        <5>2. queue'[k - 1] = r
          BY <1>1, <3>1, <5>1
        <5>3. QED
          BY <5>1, <5>2
      <4>3. QED
        BY <4>1, <4>2
    <3>4. QED
      BY <1>1, <3>3 DEF Queued
  <2>3. QED
    BY <2>1, <2>2
<1>4. QED
  BY <1>2, <1>3

-----------------------------------------------------------------------------
(* The inductive invariant, and the steps that leave requests alone.       *)

Core == Custody /\ RequestLife /\ HandledOnce
IInv == TypeOK /\ Core /\ StopLeavesNoWaiter

LEMMA InitInv == Init => IInv
<1> SUFFICES ASSUME Init PROVE IInv
  OBVIOUS
<1>1. /\ queue = <<>>
      /\ \A t \in Threads : held[t] = None /\ pc[t] = "free"
      /\ \A r \in Requests : /\ pc[r] = "new" /\ ~event[r]
                             /\ reply[r] = "none" /\ handled[r] = 0
  BY DEF Init
<1>2. /\ Distinct
      /\ \A r \in Requests : ~Queued(r) /\ ~Held(r)
  BY <1>1 DEF Distinct, Queued, Held
<1>3. Core
  BY <1>1, <1>2 DEF Core, Custody, RequestLife, HandledOnce, Pending
<1>4. QED
  BY <1>2, <1>3, InitType DEF IInv, StopLeavesNoWaiter

\* A step that moves threads but no request, outside the handler call.
LEMMA QuietThreads ==
  ASSUME IInv, UNCHANGED <<queue, held, requestVars>>,
         \A r \in Requests : pc'[r] = pc[r],
         \A t \in Threads :
           \/ pc'[t] = pc[t]
           \/ {pc[t], pc'[t]} \cap {"call", "signal"} = {}
  PROVE  Core'
<1>1. /\ Distinct'
      /\ \A r \in Requests : Queued(r)' <=> Queued(r)
      /\ \A r \in Requests : Held(r)' <=> Held(r)
  BY DEF IInv, Core, Custody, Distinct, Queued, Held
<1>2. Custody'
  BY <1>1 DEF IInv, Core, Custody, Pending, requestVars
<1>3. ASSUME NEW t \in Threads
      PROVE  /\ pc'[t] \in {"call", "signal"} <=> held'[t] # None
             /\ pc'[t] = "call" => handled'[held'[t]] = 0
             /\ pc'[t] = "signal" =>
                  handled'[held'[t]] = 1 \/ error'[held'[t]] = "text"
  BY DEF IInv, Core, RequestLife, requestVars
<1>4. RequestLife'
  BY <1>1, <1>3 DEF IInv, Core, RequestLife, requestVars
<1>5. HandledOnce'
  BY DEF IInv, Core, HandledOnce, requestVars
<1>6. QED
  BY <1>2, <1>4, <1>5 DEF Core

\* A coroutine that goes on between its append and its answer.
LEMMA QuietRequest ==
  ASSUME IInv, UNCHANGED <<queue, held, requestVars>>,
         NEW q \in Requests, NEW label, Goto(q, label),
         {pc[q], label} \subseteq {"recheck", "withdraw", "submit", "waiting"}
  PROVE  Core'
<1>1. /\ Distinct'
      /\ \A r \in Requests : Queued(r)' <=> Queued(r)
      /\ \A r \in Requests : Held(r)' <=> Held(r)
  BY DEF IInv, Core, Custody, Distinct, Queued, Held
<1>2. /\ pc'[q] = label
      /\ \A p \in Threads \cup Opers \cup Requests : p # q => pc'[p] = pc[p]
  BY DEF Goto, IInv, TypeOK
<1>3. Custody'
  BY <1>1, <1>2 DEF IInv, Core, Custody, RequestLife, Pending, requestVars
<1>4. ASSUME NEW t \in Threads
      PROVE  /\ pc'[t] \in {"call", "signal"} <=> held'[t] # None
             /\ pc'[t] = "call" => handled'[held'[t]] = 0
             /\ pc'[t] = "signal" =>
                  handled'[held'[t]] = 1 \/ error'[held'[t]] = "text"
  BY <1>2 DEF IInv, Core, RequestLife, requestVars
<1>5. ASSUME NEW r \in Requests
      PROVE  /\ pc'[r] \in {"new", "enqueue"} =>
                  ~Queued(r)' /\ ~Held(r)' /\ ~event'[r] /\ handled'[r] = 0
             /\ pc'[r] \in {"recheck", "withdraw"} /\ ~event'[r] =>
                  Queued(r)' \/ Held(r)'
             /\ Queued(r)' => handled'[r] = 0
             /\ event'[r] /\ error'[r] # "text" => handled'[r] = 1
             /\ reply'[r] = "none" <=> pc'[r] # "done"
             /\ reply'[r] = "refused" =>
                  ~Queued(r)' /\ ~Held(r)' /\ handled'[r] = 0
  BY <1>1, <1>2 DEF IInv, Core, Custody, RequestLife, Pending, requestVars
<1>6. RequestLife'
  BY <1>4, <1>5 DEF RequestLife
<1>7. HandledOnce'
  BY DEF IInv, Core, HandledOnce, requestVars
<1>8. QED
  BY <1>3, <1>6, <1>7 DEF Core

\* A step after which no new caller waits for a queued request.
LEMMA QuietStop ==
  ASSUME IInv, appState' = appState,
         \A o \in Opers : pc'[o] = pc[o],
         \A r \in Requests :
           Queued(r)' /\ pc'[r] \in {"submit", "waiting"} =>
             Queued(r) /\ pc[r] \in {"submit", "waiting"}
  PROVE  StopLeavesNoWaiter'
BY DEF IInv, StopLeavesNoWaiter

-----------------------------------------------------------------------------
(* The steps that move a request.                                          *)

\* Draining pops a request and gives it an error text.
LEMMA DrainPopCore ==
  ASSUME IInv, NEW p \in Threads \cup Opers,
         NEW test, NEW pop, NEW onError, DrainPop(p, test, pop, onError),
         {test, pop, onError} \cap {"call", "signal"} = {}
  PROVE  /\ Core'
         /\ \A r \in Requests : pc'[r] = pc[r] /\ (Queued(r)' => Queued(r))
<1>1. \A r \in Requests : pc'[r] = pc[r]
  BY DEF DrainPop, Goto, IInv, TypeOK
<1>2. \A t \in Threads : \/ pc'[t] = pc[t]
                         \/ {pc[t], pc'[t]} \cap {"call", "signal"} = {}
  BY DEF DrainPop, Goto, IInv, TypeOK
<1>3. CASE queue = <<>>
  <2>1. UNCHANGED <<queue, held, requestVars>>
    BY <1>3 DEF DrainPop, requestVars
  <2>2. \A r \in Requests : Queued(r)' => Queued(r)
    BY <2>1 DEF Queued
  <2>3. QED
    BY <1>1, <1>2, <2>1, <2>2, QuietThreads
<1>4. CASE queue # <<>>
  <2> DEFINE h == Head(queue)
  <2>1. /\ queue' = Tail(queue)
        /\ error' = [error EXCEPT ![h] = "text"]
        /\ event' = [event EXCEPT ![h] = TRUE]
        /\ held' = held /\ reply' = reply /\ handled' = handled
    BY <1>4 DEF DrainPop
  <2>2. /\ h \in Requests /\ Queued(h) /\ Distinct'
        /\ \A r \in Requests : Queued(r)' <=> Queued(r) /\ r # h
    BY <1>4, <2>1, PopFacts DEF IInv, Core, Custody
  <2>3. \A r \in Requests : Held(r)' <=> Held(r)
    BY <2>1 DEF Held
  <2>4. /\ \A r \in Requests : r # h => error'[r] = error[r] /\ event'[r] = event[r]
        /\ error'[h] = "text" /\ event'[h]
    BY <2>1, <2>2 DEF IInv, TypeOK
  <2> HIDE DEF h
  <2>5. Custody'
    BY <1>1, <2>1, <2>2, <2>3, <2>4 DEF IInv, Core, Custody, Pending
  <2>6. ASSUME NEW u \in Threads
      PROVE  /\ pc'[u] \in {"call", "signal"} <=> held'[u] # None
             /\ pc'[u] = "call" => handled'[held'[u]] = 0
             /\ pc'[u] = "signal" =>
                  handled'[held'[u]] = 1 \/ error'[held'[u]] = "text"
    <3>1. pc[u] = "signal" => held[u] \in Requests
      BY DEF IInv, TypeOK, Core, RequestLife
    <3>2. \A r \in Requests : error'[r] = error[r] \/ error'[r] = "text"
      BY <2>4
    <3>3. QED
      BY <1>2, <2>1, <3>1, <3>2 DEF IInv, Core, RequestLife
  <2>7. ASSUME NEW r \in Requests
      PROVE  /\ pc'[r] \in {"new", "enqueue"} =>
                  ~Queued(r)' /\ ~Held(r)' /\ ~event'[r] /\ handled'[r] = 0
             /\ pc'[r] \in {"recheck", "withdraw"} /\ ~event'[r] =>
                  Queued(r)' \/ Held(r)'
             /\ Queued(r)' => handled'[r] = 0
             /\ event'[r] /\ error'[r] # "text" => handled'[r] = 1
             /\ reply'[r] = "none" <=> pc'[r] # "done"
             /\ reply'[r] = "refused" =>
                  ~Queued(r)' /\ ~Held(r)' /\ handled'[r] = 0
    BY <1>1, <2>1, <2>2, <2>3, <2>4 DEF IInv, Core, RequestLife
  <2>8. RequestLife' /\ HandledOnce'
    BY <2>1, <2>6, <2>7 DEF IInv, Core, RequestLife, HandledOnce
  <2>9. QED
    BY <1>1, <2>2, <2>5, <2>8 DEF Core
<1>5. QED
  BY <1>3, <1>4

\* A loop thread pops the head of the deque and holds it.
LEMMA TakeRequestCore ==
  ASSUME IInv, NEW t \in Threads, TakeRequest(t)
  PROVE  /\ Core'
         /\ \A r \in Requests : pc'[r] = pc[r] /\ (Queued(r)' => Queued(r))
<1>1. /\ \A r \in Requests : pc'[r] = pc[r]
      /\ \A u \in Threads : u # t => pc'[u] = pc[u]
      /\ pc[t] = "take" /\ pc'[t] \in {"call", "free"}
      /\ held[t] = None
  BY DEF TakeRequest, Goto, IInv, TypeOK, Core, RequestLife
<1>2. CASE queue = <<>>
  <2>1. UNCHANGED <<queue, held, requestVars>> /\ pc'[t] = "free"
    BY <1>2 DEF TakeRequest, requestVars, Goto, IInv, TypeOK
  <2>2. \A r \in Requests : Queued(r)' => Queued(r)
    BY <2>1 DEF Queued
  <2>3. QED
    BY <1>1, <2>1, <2>2, QuietThreads
<1>3. CASE queue # <<>>
  <2> DEFINE h == Head(queue)
  <2>1. /\ queue' = Tail(queue)
        /\ held' = [held EXCEPT ![t] = h]
        /\ pc'[t] = "call"
        /\ UNCHANGED <<response, error, event, reply, handled>>
    BY <1>3 DEF TakeRequest, requestVars, Goto, IInv, TypeOK
  <2>2. /\ h \in Requests /\ Queued(h) /\ Distinct'
        /\ \A r \in Requests : Queued(r)' <=> Queued(r) /\ r # h
    BY <1>3, <2>1, PopFacts DEF IInv, Core, Custody
  <2>3. /\ held'[t] = h
        /\ \A u \in Threads : u # t => held'[u] = held[u]
    BY <2>1 DEF IInv, TypeOK
  <2> HIDE DEF h
  <2>4. \A r \in Requests : Held(r)' <=> Held(r) \/ r = h
    BY <1>1, <2>3 DEF Held
  <2>5. \A u \in Threads : held[u] # h
    BY <2>2 DEF IInv, Core, Custody, Held
  <2>6. Custody'
    BY <1>1, <2>1, <2>2, <2>3, <2>4, <2>5 DEF IInv, Core, Custody, Pending
  <2>7. ASSUME NEW u \in Threads
      PROVE  /\ pc'[u] \in {"call", "signal"} <=> held'[u] # None
             /\ pc'[u] = "call" => handled'[held'[u]] = 0
             /\ pc'[u] = "signal" =>
                  handled'[held'[u]] = 1 \/ error'[held'[u]] = "text"
    BY <1>1, <2>1, <2>2, <2>3 DEF IInv, Core, RequestLife
  <2>8. ASSUME NEW r \in Requests
      PROVE  /\ pc'[r] \in {"new", "enqueue"} =>
                  ~Queued(r)' /\ ~Held(r)' /\ ~event'[r] /\ handled'[r] = 0
             /\ pc'[r] \in {"recheck", "withdraw"} /\ ~event'[r] =>
                  Queued(r)' \/ Held(r)'
             /\ Queued(r)' => handled'[r] = 0
             /\ event'[r] /\ error'[r] # "text" => handled'[r] = 1
             /\ reply'[r] = "none" <=> pc'[r] # "done"
             /\ reply'[r] = "refused" =>
                  ~Queued(r)' /\ ~Held(r)' /\ handled'[r] = 0
    BY <1>1, <2>1, <2>2, <2>4 DEF IInv, Core, RequestLife
  <2>9. RequestLife' /\ HandledOnce'
    BY <2>1, <2>7, <2>8 DEF IInv, Core, RequestLife, HandledOnce
  <2>10. QED
    BY <1>1, <2>2, <2>6, <2>9 DEF Core
<1>4. QED
  BY <1>2, <1>3

\* The handler runs for the request the thread holds.
LEMMA CallHandlerCore ==
  ASSUME IInv, NEW t \in Threads, CallHandler(t)
  PROVE  /\ Core'
         /\ \A r \in Requests : pc'[r] = pc[r] /\ (Queued(r)' => Queued(r))
<1> DEFINE h == held[t]
<1>1. /\ \A r \in Requests : pc'[r] = pc[r]
      /\ \A u \in Threads : u # t => pc'[u] = pc[u]
      /\ pc[t] = "call" /\ pc'[t] = "signal"
      /\ queue' = queue /\ held' = held /\ event' = event /\ reply' = reply
  BY DEF CallHandler, Goto, IInv, TypeOK
<1>2. h \in Requests /\ handled[h] = 0 /\ Held(h)
  BY <1>1 DEF IInv, TypeOK, Core, RequestLife, Held
<1>3. /\ handled'[h] \in {0, 1}
      /\ handled'[h] = 1 \/ error'[h] = "text"
      /\ \A r \in Requests : r # h => handled'[r] = handled[r]
  <2>1. CASE handled' = [handled EXCEPT ![h] = handled[h] + 1]
    BY <1>2, <2>1 DEF IInv, TypeOK
  <2>2. CASE handled' = handled /\ error' = [error EXCEPT ![h] = "text"]
    BY <1>2, <2>2 DEF IInv, TypeOK
  <2>3. QED
    BY <2>1, <2>2 DEF CallHandler
<1>4. \A r \in Requests : r # h => error'[r] = error[r]
  <2>1. CASE error' = error
    BY <2>1
  <2>2. CASE \E e \in Errors : error' = [error EXCEPT ![h] = e]
    BY <2>2 DEF IInv, TypeOK
  <2>3. "text" \in Errors
    BY DEF Errors
  <2>4. QED
    BY <2>1, <2>2, <2>3 DEF CallHandler
<1>5. /\ Distinct'
      /\ \A r \in Requests : Queued(r)' <=> Queued(r)
      /\ \A r \in Requests : Held(r)' <=> Held(r)
  BY <1>1 DEF IInv, Core, Custody, Distinct, Queued, Held
<1>6. \A u \in Threads : u # t => held[u] # h
  BY <1>2 DEF IInv, TypeOK, Core, Custody
<1> HIDE DEF h
<1>7. Custody'
  BY <1>1, <1>5 DEF IInv, Core, Custody, Pending
<1>8. ASSUME NEW u \in Threads
      PROVE  /\ pc'[u] \in {"call", "signal"} <=> held'[u] # None
             /\ pc'[u] = "call" => handled'[held'[u]] = 0
             /\ pc'[u] = "signal" =>
                  handled'[held'[u]] = 1 \/ error'[held'[u]] = "text"
  <2>1. CASE u = t
    BY <1>1, <1>2, <1>3, <2>1 DEF IInv, Core, RequestLife, h
  <2>2. CASE u # t
    <3>1. pc[u] \in {"call", "signal"} => held[u] \in Requests /\ held[u] # h
      BY <1>6, <2>2 DEF IInv, TypeOK, Core, RequestLife
    <3>2. QED
      BY <1>1, <1>3, <1>4, <2>2, <3>1 DEF IInv, Core, RequestLife
  <2>3. QED
    BY <2>1, <2>2
<1>9. ASSUME NEW r \in Requests
      PROVE  /\ pc'[r] \in {"new", "enqueue"} =>
                  ~Queued(r)' /\ ~Held(r)' /\ ~event'[r] /\ handled'[r] = 0
             /\ pc'[r] \in {"recheck", "withdraw"} /\ ~event'[r] =>
                  Queued(r)' \/ Held(r)'
             /\ Queued(r)' => handled'[r] = 0
             /\ event'[r] /\ error'[r] # "text" => handled'[r] = 1
             /\ reply'[r] = "none" <=> pc'[r] # "done"
             /\ reply'[r] = "refused" =>
                  ~Queued(r)' /\ ~Held(r)' /\ handled'[r] = 0
  <2>1. CASE r = h
    BY <1>1, <1>2, <1>3, <1>5, <2>1 DEF IInv, Core, Custody, RequestLife
  <2>2. CASE r # h
    BY <1>1, <1>3, <1>4, <1>5, <2>2 DEF IInv, Core, RequestLife
  <2>3. QED
    BY <2>1, <2>2
<1>10. RequestLife'
  BY <1>8, <1>9 DEF RequestLife
<1>11. HandledOnce'
  BY <1>1, <1>2, <1>3 DEF IInv, Core, HandledOnce
<1>12. QED
  BY <1>1, <1>5, <1>7, <1>10, <1>11 DEF Core

\* The thread sets the event of the request it holds and lets go of it.
LEMMA SignalRequestCore ==
  ASSUME IInv, NEW t \in Threads, SignalRequest(t)
  PROVE  /\ Core'
         /\ \A r \in Requests : pc'[r] = pc[r] /\ (Queued(r)' => Queued(r))
<1> DEFINE h == held[t]
<1>1. /\ \A r \in Requests : pc'[r] = pc[r]
      /\ \A u \in Threads : u # t => pc'[u] = pc[u] /\ held'[u] = held[u]
      /\ pc[t] = "signal" /\ pc'[t] = "poll" /\ held'[t] = None
      /\ UNCHANGED <<queue, response, error, reply, handled>>
      /\ event' = [event EXCEPT ![h] = TRUE]
  BY DEF SignalRequest, Goto, IInv, TypeOK
<1>2. h \in Requests /\ Held(h) /\ (handled[h] = 1 \/ error[h] = "text")
  BY <1>1 DEF IInv, TypeOK, Core, RequestLife, Held
<1>3. event'[h] /\ \A r \in Requests : r # h => event'[r] = event[r]
  BY <1>1, <1>2 DEF IInv, TypeOK
<1>4. /\ Distinct'
      /\ \A r \in Requests : Queued(r)' <=> Queued(r)
  BY <1>1 DEF IInv, Core, Custody, Distinct, Queued
<1>5. \A r \in Requests : Held(r)' => Held(r)
  BY <1>1 DEF Held
<1>6. \A r \in Requests : r # h /\ Held(r) => Held(r)'
  BY <1>1 DEF Held
<1> HIDE DEF h
<1>7. Custody'
  BY <1>1, <1>3, <1>4, <1>5, <1>6 DEF IInv, Core, Custody, Pending
<1>8. ASSUME NEW u \in Threads
      PROVE  /\ pc'[u] \in {"call", "signal"} <=> held'[u] # None
             /\ pc'[u] = "call" => handled'[held'[u]] = 0
             /\ pc'[u] = "signal" =>
                  handled'[held'[u]] = 1 \/ error'[held'[u]] = "text"
  BY <1>1 DEF IInv, Core, RequestLife
<1>9. ASSUME NEW r \in Requests
      PROVE  /\ pc'[r] \in {"new", "enqueue"} =>
                  ~Queued(r)' /\ ~Held(r)' /\ ~event'[r] /\ handled'[r] = 0
             /\ pc'[r] \in {"recheck", "withdraw"} /\ ~event'[r] =>
                  Queued(r)' \/ Held(r)'
             /\ Queued(r)' => handled'[r] = 0
             /\ event'[r] /\ error'[r] # "text" => handled'[r] = 1
             /\ reply'[r] = "none" <=> pc'[r] # "done"
             /\ reply'[r] = "refused" =>
                  ~Queued(r)' /\ ~Held(r)' /\ handled'[r] = 0
  BY <1>1, <1>2, <1>3, <1>4, <1>5, <1>6 DEF IInv, Core, Custody, RequestLife
<1>10. RequestLife' /\ HandledOnce'
  BY <1>1, <1>8, <1>9 DEF IInv, Core, RequestLife, HandledOnce
<1>11. QED
  BY <1>1, <1>4, <1>7, <1>10 DEF Core

-----------------------------------------------------------------------------
(* The steps of the MCP handler.                                           *)

\* A coroutine moves to label and touches neither the threads nor the deque.
LEMMA RequestMove ==
  ASSUME IInv, NEW q \in Requests, NEW label, Goto(q, label),
         UNCHANGED <<held, handled>>,
         \A r \in Requests : error'[r] = error[r] \/ error'[r] = "text"
  PROVE  /\ pc'[q] = label
         /\ \A p \in Threads \cup Opers \cup Requests : p # q => pc'[p] = pc[p]
         /\ \A t \in Threads : pc'[t] = pc[t]
         /\ \A o \in Opers : pc'[o] = pc[o]
         /\ \A r \in Requests : Held(r)' <=> Held(r)
         /\ \A u \in Threads :
              /\ pc'[u] \in {"call", "signal"} <=> held'[u] # None
              /\ pc'[u] = "call" => handled'[held'[u]] = 0
              /\ pc'[u] = "signal" =>
                   handled'[held'[u]] = 1 \/ error'[held'[u]] = "text"
<1>1. /\ pc'[q] = label
      /\ \A p \in Threads \cup Opers \cup Requests : p # q => pc'[p] = pc[p]
      /\ \A t \in Threads : pc'[t] = pc[t]
      /\ \A o \in Opers : pc'[o] = pc[o]
      /\ \A r \in Requests : Held(r)' <=> Held(r)
  BY DEF Goto, IInv, TypeOK, Held
<1>2. ASSUME NEW u \in Threads
      PROVE  /\ pc'[u] \in {"call", "signal"} <=> held'[u] # None
             /\ pc'[u] = "call" => handled'[held'[u]] = 0
             /\ pc'[u] = "signal" =>
                  handled'[held'[u]] = 1 \/ error'[held'[u]] = "text"
  <2>1. pc[u] = "signal" => held[u] \in Requests
    BY DEF IInv, TypeOK, Core, RequestLife
  <2>2. QED
    BY <1>1, <2>1 DEF IInv, Core, RequestLife
<1>3. QED
  BY <1>1, <1>2

\* The handler answers: refused before the append, anything else after it.
LEMMA AnswerCore ==
  ASSUME IInv, NEW q \in Requests, NEW what \in Replies, Answer(q, what),
         pc[q] # "done", what # "none",
         what = "refused" <=> pc[q] = "new", pc[q] # "enqueue",
         what = "result" => handled[q] = 1
  PROVE  Core' /\ StopLeavesNoWaiter'
<1>1. /\ UNCHANGED <<appState, queue, held, response, error, event, handled>>
      /\ reply' = [reply EXCEPT ![q] = what]
      /\ Goto(q, "done")
  BY DEF Answer
<1>2. /\ pc'[q] = "done"
      /\ \A p \in Threads \cup Opers \cup Requests : p # q => pc'[p] = pc[p]
      /\ \A o \in Opers : pc'[o] = pc[o]
      /\ \A r \in Requests : Held(r)' <=> Held(r)
      /\ \A u \in Threads :
           /\ pc'[u] \in {"call", "signal"} <=> held'[u] # None
           /\ pc'[u] = "call" => handled'[held'[u]] = 0
           /\ pc'[u] = "signal" =>
                handled'[held'[u]] = 1 \/ error'[held'[u]] = "text"
  BY <1>1, RequestMove
<1>3. /\ Distinct'
      /\ \A r \in Requests : Queued(r)' <=> Queued(r)
  BY <1>1 DEF IInv, Core, Custody, Distinct, Queued
<1>4. /\ reply'[q] = what
      /\ \A r \in Requests : r # q => reply'[r] = reply[r]
  BY <1>1 DEF IInv, TypeOK
<1>5. Custody'
  BY <1>1, <1>2, <1>3 DEF IInv, Core, Custody, Pending
<1>6. ASSUME NEW r \in Requests
      PROVE  /\ pc'[r] \in {"new", "enqueue"} =>
                  ~Queued(r)' /\ ~Held(r)' /\ ~event'[r] /\ handled'[r] = 0
             /\ pc'[r] \in {"recheck", "withdraw"} /\ ~event'[r] =>
                  Queued(r)' \/ Held(r)'
             /\ Queued(r)' => handled'[r] = 0
             /\ event'[r] /\ error'[r] # "text" => handled'[r] = 1
             /\ reply'[r] = "none" <=> pc'[r] # "done"
             /\ reply'[r] = "refused" =>
                  ~Queued(r)' /\ ~Held(r)' /\ handled'[r] = 0
  BY <1>1, <1>2, <1>3, <1>4 DEF IInv, Core, RequestLife
<1>7. RequestLife'
  BY <1>2, <1>6 DEF RequestLife
<1>8. HandledOnce'
  BY <1>1, <1>4 DEF IInv, Core, HandledOnce
<1>9. StopLeavesNoWaiter'
  BY <1>1, <1>2, <1>3, QuietStop
<1>10. QED
  BY <1>5, <1>7, <1>8, <1>9 DEF Core

LEMMA PrecheckInv ==
  ASSUME IInv, NEW q \in Requests, Precheck(q)
  PROVE  Core' /\ StopLeavesNoWaiter'
<1>1. CASE Answer(q, "refused")
  <2>1. pc[q] = "new"
    BY DEF Precheck
  <2>2. QED
    BY <1>1, <2>1, AnswerCore
<1>2. CASE Goto(q, "enqueue") /\ UNCHANGED reply
  <2>1. /\ pc[q] = "new"
        /\ UNCHANGED <<appState, queue, held, response, error, event, reply,
                       handled>>
    BY <1>2 DEF Precheck
  <2>2. /\ pc'[q] = "enqueue"
        /\ \A p \in Threads \cup Opers \cup Requests : p # q => pc'[p] = pc[p]
        /\ \A o \in Opers : pc'[o] = pc[o]
        /\ \A r \in Requests : Held(r)' <=> Held(r)
        /\ \A u \in Threads :
             /\ pc'[u] \in {"call", "signal"} <=> held'[u] # None
             /\ pc'[u] = "call" => handled'[held'[u]] = 0
             /\ pc'[u] = "signal" =>
                  handled'[held'[u]] = 1 \/ error'[held'[u]] = "text"
    BY <1>2, <2>1, RequestMove
  <2>3. /\ Distinct'
        /\ \A r \in Requests : Queued(r)' <=> Queued(r)
    BY <2>1 DEF IInv, Core, Custody, Distinct, Queued
  <2>4. Custody'
    BY <2>1, <2>2, <2>3 DEF IInv, Core, Custody, Pending
  <2>5. ASSUME NEW r \in Requests
      PROVE  /\ pc'[r] \in {"new", "enqueue"} =>
                  ~Queued(r)' /\ ~Held(r)' /\ ~event'[r] /\ handled'[r] = 0
             /\ pc'[r] \in {"recheck", "withdraw"} /\ ~event'[r] =>
                  Queued(r)' \/ Held(r)'
             /\ Queued(r)' => handled'[r] = 0
             /\ event'[r] /\ error'[r] # "text" => handled'[r] = 1
             /\ reply'[r] = "none" <=> pc'[r] # "done"
             /\ reply'[r] = "refused" =>
                  ~Queued(r)' /\ ~Held(r)' /\ handled'[r] = 0
    BY <2>1, <2>2, <2>3 DEF IInv, Core, RequestLife
  <2>6. RequestLife' /\ HandledOnce'
    BY <2>1, <2>2, <2>5 DEF IInv, Core, RequestLife, HandledOnce
  <2>7. StopLeavesNoWaiter'
    BY <2>1, <2>2, <2>3, QuietStop
  <2>8. QED
    BY <2>4, <2>6, <2>7 DEF Core
<1>3. QED
  BY <1>1, <1>2 DEF Precheck, Answer

LEMMA EnqueueInv ==
  ASSUME IInv, NEW q \in Requests, Enqueue(q)
  PROVE  Core' /\ StopLeavesNoWaiter'
<1>1. /\ pc[q] = "enqueue" /\ Goto(q, "recheck")
      /\ queue' = Append(queue, q)
      /\ UNCHANGED <<appState, held, response, error, event, reply, handled>>
  BY DEF Enqueue, requestVars
<1>2. /\ pc'[q] = "recheck"
      /\ \A p \in Threads \cup Opers \cup Requests : p # q => pc'[p] = pc[p]
      /\ \A o \in Opers : pc'[o] = pc[o]
      /\ \A r \in Requests : Held(r)' <=> Held(r)
      /\ \A u \in Threads :
           /\ pc'[u] \in {"call", "signal"} <=> held'[u] # None
           /\ pc'[u] = "call" => handled'[held'[u]] = 0
           /\ pc'[u] = "signal" =>
                handled'[held'[u]] = 1 \/ error'[held'[u]] = "text"
  BY <1>1, RequestMove
<1>3. ~Queued(q) /\ ~Held(q) /\ handled[q] = 0 /\ ~event[q]
  BY <1>1 DEF IInv, Core, RequestLife
<1>4. /\ Distinct'
      /\ \A r \in Requests : Queued(r)' <=> Queued(r) \/ r = q
  BY <1>1, <1>3, AppendFacts DEF IInv, Core, Custody
<1>5. Custody'
  BY <1>1, <1>2, <1>3, <1>4 DEF IInv, Core, Custody, Pending
<1>6. ASSUME NEW r \in Requests
      PROVE  /\ pc'[r] \in {"new", "enqueue"} =>
                  ~Queued(r)' /\ ~Held(r)' /\ ~event'[r] /\ handled'[r] = 0
             /\ pc'[r] \in {"recheck", "withdraw"} /\ ~event'[r] =>
                  Queued(r)' \/ Held(r)'
             /\ Queued(r)' => handled'[r] = 0
             /\ event'[r] /\ error'[r] # "text" => handled'[r] = 1
             /\ reply'[r] = "none" <=> pc'[r] # "done"
             /\ reply'[r] = "refused" =>
                  ~Queued(r)' /\ ~Held(r)' /\ handled'[r] = 0
  BY <1>1, <1>2, <1>3, <1>4 DEF IInv, Core, RequestLife
<1>7. RequestLife' /\ HandledOnce'
  BY <1>1, <1>2, <1>6 DEF IInv, Core, RequestLife, HandledOnce
<1>8. StopLeavesNoWaiter'
  BY <1>1, <1>2, <1>4, QuietStop
<1>9. QED
  BY <1>5, <1>7, <1>8 DEF Core

LEMMA WithdrawInv ==
  ASSUME IInv, NEW q \in Requests, Withdraw(q)
  PROVE  Core' /\ StopLeavesNoWaiter'
<1>1. /\ pc[q] = "withdraw" /\ Goto(q, "submit")
      /\ error' = [error EXCEPT ![q] = "text"]
      /\ event' = [event EXCEPT ![q] = TRUE]
      /\ UNCHANGED <<appState, held, response, reply, handled>>
      /\ \A r \in Requests : error'[r] = error[r] \/ error'[r] = "text"
  BY DEF Withdraw, IInv, TypeOK
<1>2. /\ pc'[q] = "submit"
      /\ \A p \in Threads \cup Opers \cup Requests : p # q => pc'[p] = pc[p]
      /\ \A o \in Opers : pc'[o] = pc[o]
      /\ \A r \in Requests : Held(r)' <=> Held(r)
      /\ \A u \in Threads :
           /\ pc'[u] \in {"call", "signal"} <=> held'[u] # None
           /\ pc'[u] = "call" => handled'[held'[u]] = 0
           /\ pc'[u] = "signal" =>
                handled'[held'[u]] = 1 \/ error'[held'[u]] = "text"
  BY <1>1, RequestMove
<1>3. /\ Distinct'
      /\ \A r \in Requests : Queued(r)' <=> Queued(r) /\ r # q
  <2>1. CASE \E i \in DOMAIN queue : queue[i] = q /\ queue' = RemoveAt(queue, i)
    BY <2>1, RemoveFacts DEF IInv, Core, Custody
  <2>2. CASE ~Queued(q) /\ queue' = queue
    BY <2>2 DEF IInv, Core, Custody, Distinct, Queued
  <2>3. QED
    BY <2>1, <2>2 DEF Withdraw
<1>4. /\ error'[q] = "text" /\ event'[q]
      /\ \A r \in Requests : r # q => error'[r] = error[r] /\ event'[r] = event[r]
  BY <1>1 DEF IInv, TypeOK
<1>5. Custody'
  BY <1>1, <1>2, <1>3, <1>4 DEF IInv, Core, Custody, Pending
<1>6. ASSUME NEW r \in Requests
      PROVE  /\ pc'[r] \in {"new", "enqueue"} =>
                  ~Queued(r)' /\ ~Held(r)' /\ ~event'[r] /\ handled'[r] = 0
             /\ pc'[r] \in {"recheck", "withdraw"} /\ ~event'[r] =>
                  Queued(r)' \/ Held(r)'
             /\ Queued(r)' => handled'[r] = 0
             /\ event'[r] /\ error'[r] # "text" => handled'[r] = 1
             /\ reply'[r] = "none" <=> pc'[r] # "done"
             /\ reply'[r] = "refused" =>
                  ~Queued(r)' /\ ~Held(r)' /\ handled'[r] = 0
  BY <1>1, <1>2, <1>3, <1>4 DEF IInv, Core, RequestLife
<1>7. RequestLife' /\ HandledOnce'
  BY <1>1, <1>2, <1>6 DEF IInv, Core, RequestLife, HandledOnce
<1>8. StopLeavesNoWaiter'
  BY <1>1, <1>2, <1>3, QuietStop
<1>9. QED
  BY <1>5, <1>7, <1>8 DEF Core

-----------------------------------------------------------------------------
(* One step of each actor.                                                 *)

LEMMA OperInv ==
  ASSUME IInv, NEW o \in Opers, OperStep(o)
  PROVE  Core' /\ StopLeavesNoWaiter'
<1>1. CASE ReadState(o)
  <2>1. /\ UNCHANGED <<appState, queue, held, requestVars>>
        /\ pc[o] = "idle" /\ pc'[o] \in {"start", "assign"}
        /\ \A p \in Threads \cup Opers \cup Requests : p # o => pc'[p] = pc[p]
    BY <1>1 DEF ReadState, Goto, IInv, TypeOK
  <2>2. Core'
    BY <2>1, QuietThreads
  <2>3. \A r \in Requests : Queued(r)' <=> Queued(r)
    BY <2>1 DEF Queued
  <2>4. StopLeavesNoWaiter'
    BY <2>1, <2>3 DEF IInv, StopLeavesNoWaiter
  <2>5. QED
    BY <2>2, <2>4
<1>2. CASE SetRunning(o)
  <2>1. /\ UNCHANGED <<queue, held, requestVars>> /\ appState' = "running"
        /\ \A p \in Threads \cup Opers \cup Requests : p # o => pc'[p] = pc[p]
    BY <1>2 DEF SetRunning, Goto, IInv, TypeOK
  <2>2. QED
    BY <2>1, QuietThreads DEF StopLeavesNoWaiter
<1>3. CASE Spawn(o)
  <2>1. PICK t \in Threads :
          ~Alive(t) /\ pc' = [pc EXCEPT ![o] = "idle", ![t] = "top"]
    BY <1>3 DEF Spawn
  <2>2. /\ UNCHANGED <<appState, queue, held, requestVars>>
        /\ pc[o] = "spawn" /\ pc'[o] = "idle"
        /\ pc[t] = "free" /\ pc'[t] = "top"
        /\ \A p \in Threads \cup Opers \cup Requests :
             p # o /\ p # t => pc'[p] = pc[p]
    BY <1>3, <2>1 DEF Spawn, Alive, IInv, TypeOK
  <2>3. Core'
    BY <2>2, QuietThreads
  <2>4. \A r \in Requests : Queued(r)' <=> Queued(r)
    BY <2>2 DEF Queued
  <2>5. StopLeavesNoWaiter'
    BY <2>2, <2>4 DEF IInv, StopLeavesNoWaiter
  <2>6. QED
    BY <2>3, <2>5
<1>4. CASE SetState(o)
  <2>1. /\ UNCHANGED <<queue, held, requestVars>>
        /\ appState' = target[o]
        /\ target[o] = "stopped" => pc'[o] = "stopDrain"
        /\ \A p \in Threads \cup Opers \cup Requests : p # o => pc'[p] = pc[p]
    BY <1>4 DEF SetState, Goto, IInv, TypeOK
  <2>2. QED
    BY <2>1, QuietThreads DEF StopLeavesNoWaiter
<1>5. CASE DrainTest(o, "stopDrain", "stopPop", "idle")
  <2>1. /\ UNCHANGED <<appState, queue, held, requestVars>>
        /\ pc[o] = "stopDrain"
        /\ pc'[o] = IF queue = <<>> THEN "idle" ELSE "stopPop"
        /\ \A p \in Threads \cup Opers \cup Requests : p # o => pc'[p] = pc[p]
    BY <1>5 DEF DrainTest, Goto, IInv, TypeOK
  <2>2. Core'
    BY <2>1, QuietThreads
  <2>3. queue = <<>> => \A r \in Requests : ~Queued(r)'
    BY <2>1 DEF Queued
  <2>4. StopLeavesNoWaiter'
    BY <2>1, <2>3 DEF StopLeavesNoWaiter
  <2>5. QED
    BY <2>2, <2>4
<1>6. CASE DrainPop(o, "stopDrain", "stopPop", "idle")
  <2>1. Core'
    BY <1>6, DrainPopCore
  <2>2. CASE queue = <<>>
    <3>1. queue' = <<>>
      BY <1>6, <2>2 DEF DrainPop
    <3>2. QED
      BY <2>1, <3>1 DEF StopLeavesNoWaiter, Queued
  <2>3. CASE queue # <<>>
    <3>1. pc'[o] = "stopDrain"
      BY <1>6, <2>3 DEF DrainPop, Goto, IInv, TypeOK
    <3>2. QED
      BY <2>1, <3>1 DEF StopLeavesNoWaiter
  <2>4. QED
    BY <2>2, <2>3
<1>7. QED
  BY <1>1, <1>2, <1>3, <1>4, <1>5, <1>6 DEF OperStep, StopDrain

LEMMA LoopInv ==
  ASSUME IInv, NEW t \in Threads, LoopStep(t)
  PROVE  Core' /\ StopLeavesNoWaiter'
<1>1. appState' = appState /\ \A o \in Opers : pc'[o] = pc[o]
  BY DEF LoopStep, LoopTop, LoopWake, RunProcess, AgentGate, PollRequests,
         TakeRequest, CallHandler, SignalRequest, SendCommands, LoopDrain,
         DrainTest, DrainPop, Goto, IInv, TypeOK
<1>2. ASSUME UNCHANGED <<queue, held, requestVars>>,
             NEW label, Goto(t, label),
             {pc[t], label} \cap {"call", "signal"} = {}
      PROVE  Core' /\ StopLeavesNoWaiter'
  <2>1. /\ pc'[t] = label
        /\ \A p \in Threads \cup Opers \cup Requests : p # t => pc'[p] = pc[p]
    BY <1>2 DEF Goto, IInv, TypeOK
  <2>2. \A r \in Requests : Queued(r)' <=> Queued(r)
    BY <1>2 DEF Queued
  <2>3. Core'
    BY <1>2, <2>1, QuietThreads
  <2>4. StopLeavesNoWaiter'
    BY <1>1, <2>1, <2>2, QuietStop
  <2>5. QED
    BY <2>3, <2>4
<1>3. CASE LoopTop(t) \/ LoopWake(t) \/ RunProcess(t) \/ AgentGate(t)
  <2>1. PICK label \in {"free", "exitDrain", "sleep", "work", "top", "gate",
                        "poll", "gateDrain"} : Goto(t, label)
    BY <1>3 DEF LoopTop, LoopWake, RunProcess, AgentGate, IInv, TypeOK
  <2>2. /\ UNCHANGED <<queue, held, requestVars>>
        /\ pc[t] \in {"top", "sleep", "work", "gate"}
    BY <1>3 DEF LoopTop, LoopWake, RunProcess, AgentGate
  <2>3. QED
    BY <1>2, <2>1, <2>2
<1>4. CASE PollRequests(t) \/ SendCommands(t)
  <2>1. PICK label \in {"free", "commands", "take", "sleep"} : Goto(t, label)
    BY <1>4 DEF PollRequests, SendCommands
  <2>2. /\ UNCHANGED <<queue, held, requestVars>>
        /\ pc[t] \in {"poll", "commands"}
    BY <1>4 DEF PollRequests, SendCommands
  <2>3. QED
    BY <1>2, <2>1, <2>2
<1>5. CASE TakeRequest(t)
  BY <1>1, <1>5, TakeRequestCore, QuietStop
<1>6. CASE CallHandler(t)
  BY <1>1, <1>6, CallHandlerCore, QuietStop
<1>7. CASE SignalRequest(t)
  BY <1>1, <1>7, SignalRequestCore, QuietStop
<1>8. ASSUME NEW test, NEW pop, NEW return,
             DrainTest(t, test, pop, return),
             {test, pop, return} \cap {"call", "signal"} = {}
      PROVE  Core' /\ StopLeavesNoWaiter'
  <2>1. PICK label \in {pop, return} : Goto(t, label)
    BY <1>8 DEF DrainTest
  <2>2. UNCHANGED <<queue, held, requestVars>> /\ pc[t] = test
    BY <1>8 DEF DrainTest
  <2>3. QED
    BY <1>2, <1>8, <2>1, <2>2
<1>9. ASSUME NEW test, NEW pop, NEW onError,
             DrainPop(t, test, pop, onError),
             {test, pop, onError} \cap {"call", "signal"} = {}
      PROVE  Core' /\ StopLeavesNoWaiter'
  BY <1>1, <1>9, DrainPopCore, QuietStop
<1>10. CASE LoopDrain(t)
  BY <1>8, <1>9, <1>10 DEF LoopDrain
<1>11. QED
  BY <1>3, <1>4, <1>5, <1>6, <1>7, <1>10 DEF LoopStep

LEMMA RequestInv ==
  ASSUME IInv, NEW q \in Requests, RequestStep(q)
  PROVE  Core' /\ StopLeavesNoWaiter'
<1>1. CASE Recheck(q)
  <2>1. PICK label \in {"submit", "withdraw"} :
          /\ Goto(q, label)
          /\ label = "submit" => appState = "running"
    BY <1>1 DEF Recheck
  <2>2. /\ UNCHANGED <<appState, queue, held, requestVars>>
        /\ pc[q] = "recheck"
    BY <1>1 DEF Recheck
  <2>3. Core'
    BY <2>1, <2>2, QuietRequest
  <2>4. /\ pc'[q] = label
        /\ \A p \in Threads \cup Opers \cup Requests : p # q => pc'[p] = pc[p]
    BY <2>1 DEF Goto, IInv, TypeOK
  <2>5. \A r \in Requests : Queued(r)' <=> Queued(r)
    BY <2>2 DEF Queued
  <2>6. StopLeavesNoWaiter'
    BY <2>1, <2>2, <2>4, <2>5 DEF IInv, StopLeavesNoWaiter
  <2>7. QED
    BY <2>3, <2>6
<1>2. CASE StartWait(q)
  <2>1. /\ UNCHANGED <<appState, queue, held, requestVars>>
        /\ pc[q] = "submit" /\ Goto(q, "waiting")
    BY <1>2 DEF StartWait
  <2>2. Core'
    BY <2>1, QuietRequest
  <2>3. /\ pc'[q] = "waiting"
        /\ \A p \in Threads \cup Opers \cup Requests : p # q => pc'[p] = pc[p]
    BY <2>1 DEF Goto, IInv, TypeOK
  <2>4. \A r \in Requests : Queued(r)' <=> Queued(r)
    BY <2>1 DEF Queued
  <2>5. StopLeavesNoWaiter'
    BY <2>1, <2>3, <2>4, QuietStop
  <2>6. QED
    BY <2>2, <2>5
<1>3. CASE WithdrawRaises(q)
  <2>1. pc[q] = "withdraw" /\ Answer(q, "raised")
    BY <1>3 DEF WithdrawRaises, Answer
  <2>2. QED
    BY <2>1, AnswerCore
<1>4. CASE Completed(q)
  <2>1. PICK what \in {"error", "result"} :
          Answer(q, what) /\ (what = "result" => error[q] # "text")
    BY <1>4 DEF Completed
  <2>2. pc[q] = "waiting" /\ (what = "result" => handled[q] = 1)
    BY <1>4, <2>1 DEF Completed, IInv, Core, RequestLife
  <2>3. QED
    BY <2>1, <2>2, AnswerCore
<1>5. CASE TimedOut(q)
  <2>1. pc[q] = "waiting" /\ Answer(q, "timeout")
    BY <1>5 DEF TimedOut
  <2>2. QED
    BY <2>1, AnswerCore
<1>6. QED
  BY <1>1, <1>2, <1>3, <1>4, <1>5, PrecheckInv, EnqueueInv, WithdrawInv
     DEF RequestStep

\* The invariant is inductive.
LEMMA NextInv == IInv /\ [Next]_vars => IInv'
<1> SUFFICES ASSUME IInv, [Next]_vars PROVE IInv'
  OBVIOUS
<1>1. TypeOK'
  BY NextType DEF IInv
<1>2. ASSUME UNCHANGED <<appState, queue, held, pc, requestVars>>
      PROVE  Core' /\ StopLeavesNoWaiter'
  <2>1. \A r \in Requests : Queued(r)' <=> Queued(r)
    BY <1>2 DEF Queued
  <2>2. QED
    BY <1>2, <2>1, QuietThreads, QuietStop
<1>3. CASE Shutdown
  <2>1. UNCHANGED <<appState, queue, held, pc, requestVars>>
    BY <1>3 DEF Shutdown
  <2>2. QED
    BY <1>1, <1>2, <2>1 DEF IInv
<1>4. CASE UNCHANGED vars
  <2>1. UNCHANGED <<appState, queue, held, pc, requestVars>>
    BY <1>4 DEF vars, requestVars
  <2>2. QED
    BY <1>1, <1>2, <2>1 DEF IInv
<1>5. ASSUME NEW o \in Opers, OperStep(o) PROVE IInv'
  BY <1>1, <1>5, OperInv DEF IInv
<1>6. ASSUME NEW t \in Threads, LoopStep(t) PROVE IInv'
  BY <1>1, <1>6, LoopInv DEF IInv
<1>7. ASSUME NEW r \in Requests, RequestStep(r) PROVE IInv'
  BY <1>1, <1>7, RequestInv DEF IInv
<1>8. QED
  BY <1>3, <1>4, <1>5, <1>6, <1>7 DEF Next

LEMMA Invariance == Spec => []IInv
BY InitInv, NextInv, PTL DEF Spec

\* No request a caller waits for is lost or in two hands.
THEOREM CustodyKept == Spec => []Custody
<1>1. IInv => Custody
  BY DEF IInv, Core
<1>2. QED
  BY <1>1, Invariance, PTL

\* A handler runs at most once, and a result is answered only if it ran.
THEOREM HandlerRunsOnce == Spec => []HandledOnce
<1>1. IInv => HandledOnce
  BY DEF IInv, Core
<1>2. QED
  BY <1>1, Invariance, PTL

\* A completed stop leaves no caller waiting on the deque.
THEOREM StopReleasesWaiters == Spec => []StopLeavesNoWaiter
<1>1. IInv => StopLeavesNoWaiter
  BY DEF IInv
<1>2. QED
  BY <1>1, Invariance, PTL

\* Where a request is in its life follows from the places it is seen at.
THEOREM RequestLifeKept == Spec => []RequestLife
<1>1. IInv => RequestLife
  BY DEF IInv, Core
<1>2. QED
  BY <1>1, Invariance, PTL

-----------------------------------------------------------------------------
(* The runtime implements AgentCall.  The abstract phase of a request is a *)
(* function of its program counter; the lemmas below say how the concrete  *)
(* steps move it.                                                          *)

Phase(r) ==
  IF pc[r] = "new" THEN "new" ELSE IF pc[r] = "done" THEN "closed" ELSE "open"

LEMMA CallInit == Init => Call!Init
BY RuntimeAssumption DEF Init, Call!Init

\* A step that moves no request into or out of its abstract phase, runs no
\* handler and answers nobody is a stutter of the abstract call.
LEMMA CallStutter ==
  ASSUME UNCHANGED <<handled, reply>>,
         \A r \in Requests :
           \/ pc'[r] = pc[r]
           \/ {pc[r], pc'[r]} \cap {"new", "done"} = {}
  PROVE  UNCHANGED Call!callVars
<1>1. \A r \in Requests :
        (IF pc'[r] = "new" THEN "new" ELSE IF pc'[r] = "done" THEN "closed" ELSE "open") = Phase(r)
  BY DEF Phase
<1>2. QED
  BY <1>1 DEF Call!callVars, Phase

\* Answering closes the call, as the abstract call allows.
LEMMA CallAnswer ==
  ASSUME IInv, NEW r \in Requests, NEW what \in Call!Answers, Answer(r, what),
         \/ pc[r] = "new" /\ what = "refused"
         \/ pc[r] \notin {"new", "done"} /\ what \in Call!Inconclusive
         \/ pc[r] \notin {"new", "done"} /\ what = "result" /\ handled[r] = 1
  PROVE  Call!Close(r, what)
<1>1. pc' = [pc EXCEPT ![r] = "done"] /\ pc'[r] = "done"
  BY DEF Answer, Goto, IInv, TypeOK
<1>2. \A q \in Requests : q # r => pc'[q] = pc[q]
  BY <1>1 DEF IInv, TypeOK
<1>3. Call!Close(r, what)
  BY <1>1, <1>2 DEF Call!Close, Answer
<1>4. QED
  BY <1>3

\* The handler of a request runs while the call is open, or after it was
\* given an inconclusive answer.
LEMMA CallRun ==
  ASSUME IInv, NEW t \in Threads, CallHandler(t), handled' # handled
  PROVE  Call!Run(held[t])
<1>1. /\ held[t] \in Requests /\ handled[held[t]] = 0
      /\ Held(held[t])
  BY DEF CallHandler, IInv, TypeOK, Core, RequestLife, Held
<1>2. pc[held[t]] # "new" /\ reply[held[t]] \notin {"refused", "result"}
  BY <1>1 DEF IInv, Core, RequestLife, HandledOnce
<1>3. pc[held[t]] = "done" => reply[held[t]] \in Call!Inconclusive
  BY <1>1, <1>2 DEF IInv, TypeOK, Core, RequestLife, Replies, Call!Inconclusive
<1>4. handled' = [handled EXCEPT ![held[t]] = 1]
  BY <1>1 DEF CallHandler
<1>5. \A r \in Requests : pc'[r] = pc[r]
  BY RuntimeAssumption DEF CallHandler, Goto, IInv, TypeOK
<1>6. QED
  BY <1>1, <1>2, <1>3, <1>4, <1>5 DEF Call!Run, CallHandler

\* Every step of the runtime is a step of the abstract call or a stutter.
LEMMA CallNext == IInv /\ [Next]_vars => [Call!Next]_(Call!callVars)
<1> SUFFICES ASSUME IInv, [Next]_vars PROVE [Call!Next]_(Call!callVars)
  OBVIOUS
<1>1. ASSUME NEW o \in Opers, OperStep(o) PROVE UNCHANGED Call!callVars
  <2>1. UNCHANGED <<handled, reply>>
    BY <1>1 DEF OperStep, ReadState, SetRunning, Spawn, SetState, StopDrain,
                DrainTest, DrainPop, requestVars
  <2>2. \A r \in Requests : pc'[r] = pc[r]
    BY <1>1, RuntimeAssumption
       DEF OperStep, ReadState, SetRunning, Spawn, SetState, StopDrain,
           DrainTest, DrainPop, Goto, IInv, TypeOK
  <2>3. QED
    BY <2>1, <2>2, CallStutter
<1>2. ASSUME NEW t \in Threads, LoopStep(t)
      PROVE  [Call!Next]_(Call!callVars)
  <2>1. CASE CallHandler(t)
    <3>1. CASE handled' # handled
      <4>1. held[t] \in Requests
        BY <2>1 DEF CallHandler, IInv, TypeOK, Core, RequestLife
      <4>2. QED
        BY <2>1, <3>1, <4>1, CallRun DEF Call!Next
    <3>2. CASE handled' = handled
      <4>1. reply' = reply
        BY <2>1 DEF CallHandler
      <4>2. \A r \in Requests : pc'[r] = pc[r]
        BY <2>1, RuntimeAssumption DEF CallHandler, Goto, IInv, TypeOK
      <4>3. QED
        BY <3>2, <4>1, <4>2, CallStutter
    <3>3. QED
      BY <3>1, <3>2
  <2>2. CASE ~CallHandler(t)
    <3>1. UNCHANGED <<handled, reply>>
      BY <1>2, <2>2
         DEF LoopStep, LoopTop, LoopWake, RunProcess, AgentGate, PollRequests,
             TakeRequest, SignalRequest, SendCommands, LoopDrain,
             DrainTest, DrainPop, requestVars
    <3>2. \A r \in Requests : pc'[r] = pc[r]
      BY <1>2, <2>2, RuntimeAssumption
         DEF LoopStep, LoopTop, LoopWake, RunProcess, AgentGate, PollRequests,
             TakeRequest, SignalRequest, SendCommands, LoopDrain,
             DrainTest, DrainPop, Goto, IInv, TypeOK
    <3>3. QED
      BY <3>1, <3>2, CallStutter
  <2>3. QED
    BY <2>1, <2>2
<1>3. ASSUME NEW r \in Requests, RequestStep(r)
      PROVE  [Call!Next]_(Call!callVars)
  <2>1. CASE Precheck(r)
    <3>1. CASE appState = "running"
      <4>1. UNCHANGED <<handled, reply>> /\ pc[r] = "new" /\ Goto(r, "enqueue")
        BY <2>1, <3>1 DEF Precheck
      <4>2. /\ pc'[r] = "enqueue"
            /\ \A q \in Requests : q # r => pc'[q] = pc[q]
        BY <4>1 DEF Goto, IInv, TypeOK
      <4>3. Call!Open(r)
        BY <4>1, <4>2 DEF Call!Open
      <4>4. QED
        BY <4>3 DEF Call!Next
    <3>2. CASE appState # "running"
      <4>1. pc[r] = "new" /\ Answer(r, "refused")
        BY <2>1, <3>2 DEF Precheck, Answer
      <4>2. "refused" \in Call!Answers
        BY DEF Call!Answers
      <4>3. QED
        BY <4>1, <4>2, CallAnswer DEF Call!Next
    <3>3. QED
      BY <3>1, <3>2
  <2>2. CASE Enqueue(r) \/ Recheck(r) \/ Withdraw(r) \/ StartWait(r)
    <3>1. /\ UNCHANGED <<handled, reply>>
          /\ pc[r] \notin {"new", "done"}
          /\ \E label \in {"recheck", "submit", "withdraw", "waiting"} :
               Goto(r, label)
      BY <2>2 DEF Enqueue, Recheck, Withdraw, StartWait, requestVars
    <3>2. \A q \in Requests :
            \/ pc'[q] = pc[q]
            \/ {pc[q], pc'[q]} \cap {"new", "done"} = {}
      BY <3>1 DEF Goto, IInv, TypeOK
    <3>3. QED
      BY <3>1, <3>2, CallStutter
  <2>3. CASE WithdrawRaises(r) \/ Completed(r) \/ TimedOut(r)
    <3>1. PICK what \in {"raised", "error", "result", "timeout"} :
            /\ Answer(r, what)
            /\ pc[r] \in {"withdraw", "waiting"}
            /\ what = "result" => event[r] /\ error[r] # "text"
      BY <2>3 DEF WithdrawRaises, Completed, TimedOut, Answer
    <3>2. what = "result" => handled[r] = 1
      BY <3>1 DEF IInv, Core, RequestLife
    <3>3. what \in Call!Answers /\ (what # "result" => what \in Call!Inconclusive)
      BY DEF Call!Answers, Call!Inconclusive
    <3>4. QED
      BY <3>1, <3>2, <3>3, CallAnswer DEF Call!Next
  <2>4. QED
    BY <1>3, <2>1, <2>2, <2>3 DEF RequestStep
<1>4. CASE Shutdown \/ UNCHANGED vars
  <2>1. UNCHANGED <<handled, reply, pc>>
    BY <1>4 DEF Shutdown, vars, requestVars
  <2>2. QED
    BY <2>1, CallStutter
<1>5. QED
  BY <1>1, <1>2, <1>3, <1>4 DEF Next

\* The runtime of an app, with all its threads, implements the call that
\* module AgentCall specifies.
THEOREM RuntimeImplementsCall == Spec => ImplementsAgentCall
<1>1. Init => Call!Init
  BY CallInit
<1>2. IInv /\ [Next]_vars => [Call!Next]_(Call!callVars)
  BY CallNext
<1>3. QED
  BY <1>1, <1>2, Invariance, PTL DEF Spec, ImplementsAgentCall, Call!Spec
=============================================================================
