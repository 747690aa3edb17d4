--------------------------- MODULE MeasurementFeed --------------------------
(***************************************************************************)
(* The path of one node's measurements through AicController: the reader   *)
(* thread (read_message) appends each to the bounded deque of every running*)
(* app that subscribes to the node, and the loop threads of an app drain   *)
(* its deque before process().  No lock is held, so every deque operation  *)
(* is a step.  A measurement is its number in the order of arrival.        *)
(***************************************************************************)
EXTENDS Naturals, Sequences, SequencesExt

CONSTANTS
  Subscribers,    \* the apps of message_queue[topic], in dict order
  Loops,          \* loop threads, <<app, k>>: a bound on those alive at a time
  MaxQueue,       \* max_queue_size
  MaxMeasurements,\* bound on the measurements received
  NotDict         \* the measurements whose body is not a dict

Apps == {Subscribers[i] : i \in DOMAIN Subscribers}
AppOf(l) == l[1]

ASSUME FeedAssumption ==
  /\ Subscribers \in Seq(Apps) /\ IsInjective(Subscribers)
  /\ Loops \subseteq Apps \X Nat
  /\ MaxQueue \in Nat \ {0}
  /\ MaxMeasurements \in Nat
  /\ NotDict \subseteq 1..MaxMeasurements

VARIABLES
  appState,   \* app_states
  received,   \* number of the measurement the reader has or had in hand
  readerPc,   \* where read_message is
  position,   \* index in Subscribers of the app the reader is serving
  queue,      \* message_queue[topic], a deque per app
  loopPc,     \* where each loop thread is
  batch,      \* the measurements a loop has popped for this turn
  processed,  \* history: newest measurement each loop gave to process()
  lost        \* history: how many measurements in a row an app lost to an
              \* exception of the reader, while it is not passed over

readerVars == <<received, readerPc, position, lost>>
loopVars == <<loopPc, batch, processed>>
feedVars == <<appState, queue, readerVars, loopVars>>

Init ==
  /\ appState = [a \in Apps |-> "stopped"]
  /\ received = 0 /\ readerPc = "recv" /\ position = 1
  /\ lost = [a \in Apps |-> 0]
  /\ queue = [a \in Apps |-> <<>>]
  /\ loopPc = [l \in Loops |-> "off"]
  /\ batch = [l \in Loops |-> <<>>]
  /\ processed = [l \in Loops |-> 0]

-----------------------------------------------------------------------------
(* update_app_state, whose steps module AppRuntime has: a start from       *)
(* stopped spawns a loop, whatever became of the earlier ones.             *)

\* Mutant: the final else, which rejects any other state, is gone.
UpdateStateUnchecked(a) ==
  /\ \E s \in {"stopped", "paused", "idle"} :
       appState' = [appState EXCEPT ![a] = s]
  /\ UNCHANGED <<loopVars, readerVars, queue>>

UpdateState(a) ==
  /\ \/ /\ appState[a] = "stopped"
        /\ appState' = [appState EXCEPT ![a] = "running"]
        /\ \E l \in Loops :
             /\ AppOf(l) = a /\ loopPc[l] = "off"
             /\ loopPc' = [loopPc EXCEPT ![l] = "top"]
     \/ /\ \E s \in {"stopped", "paused", "running"} :
             /\ ~(s = "running" /\ appState[a] = "stopped")
             /\ appState' = [appState EXCEPT ![a] = s]
        /\ UNCHANGED loopPc
  /\ UNCHANGED <<readerVars, queue, batch, processed>>

-----------------------------------------------------------------------------
(* The reader thread: read_message.                                        *)

Serving == Subscribers[position]

\* A message of this topic arrives; one that does not decode changes nothing.
Receive ==
  /\ readerPc = "recv"
  /\ received < MaxMeasurements
  /\ received' = received + 1
  /\ readerPc' = "check"
  /\ position' = 1
  /\ UNCHANGED <<appState, queue, lost, loopVars>>

CheckState ==
  /\ readerPc = "check"
  /\ \/ /\ position > Len(Subscribers)
        /\ readerPc' = "recv" /\ position' = 1
        /\ UNCHANGED lost
     \/ /\ position <= Len(Subscribers) /\ appState[Serving] = "running"
        /\ readerPc' = "size"
        /\ UNCHANGED <<position, lost>>
     \/ /\ position <= Len(Subscribers) /\ appState[Serving] # "running"
        /\ position' = position + 1
        /\ lost' = [lost EXCEPT ![Serving] = 0]
        /\ UNCHANGED readerPc
  /\ UNCHANGED <<appState, received, queue, loopVars>>

\* Mutant: the oldest is dropped whatever the length.
CheckSizeAlways ==
  /\ readerPc = "size"
  /\ readerPc' = "evict"
  /\ UNCHANGED <<appState, received, position, lost, queue, loopVars>>

CheckSize ==
  /\ readerPc = "size"
  /\ readerPc' = IF Len(queue[Serving]) >= MaxQueue THEN "evict" ELSE "append"
  /\ UNCHANGED <<appState, received, position, lost, queue, loopVars>>

\* The reader has yet to give the measurement in hand to an app.
InHand(a) ==
  /\ readerPc # "recv"
  /\ \E i \in position..Len(Subscribers) : Subscribers[i] = a

\* The deque may have been drained since its length was read: IndexError goes
\* to the handler around the whole message, which neither this app nor the
\* ones after it get.
DropOldest ==
  /\ readerPc = "evict"
  /\ \/ /\ queue[Serving] # <<>>
        /\ queue' = [queue EXCEPT ![Serving] = Tail(@)]
        /\ readerPc' = "append"
        /\ UNCHANGED <<position, lost>>
     \/ /\ queue[Serving] = <<>>
        /\ readerPc' = "recv" /\ position' = 1
        /\ lost' = [a \in Apps |-> lost[a] + (IF InHand(a) THEN 1 ELSE 0)]
        /\ UNCHANGED queue
  /\ UNCHANGED <<appState, received, loopVars>>

\* deque(maxlen=max_queue_size) discards on the left what does not fit.
Fit(q) == IF Len(q) > MaxQueue THEN Tail(q) ELSE q

AppendMeasurement ==
  /\ readerPc = "append"
  /\ queue' = [queue EXCEPT ![Serving] = Fit(Append(@, received))]
  /\ readerPc' = "check" /\ position' = position + 1
  /\ lost' = [lost EXCEPT ![Serving] = 0]
  /\ UNCHANGED <<appState, received, loopVars>>

-----------------------------------------------------------------------------
(* Loop threads: __execute and collect_measurements.                       *)

LoopTop(l) ==
  /\ loopPc[l] = "top"
  /\ appState[AppOf(l)] # "paused"
  /\ loopPc' = [loopPc EXCEPT ![l] =
                  IF appState[AppOf(l)] = "stopped" THEN "off" ELSE "collect"]
  /\ UNCHANGED <<appState, readerVars, queue, batch, processed>>

\* Mutant: pop() for popleft().
CollectNewest(l) ==
  LET a == AppOf(l) IN
  /\ loopPc[l] = "collect"
  /\ \/ /\ queue[a] = <<>>
        /\ loopPc' = [loopPc EXCEPT ![l] = "process"]
        /\ UNCHANGED <<queue, batch>>
     \/ /\ queue[a] # <<>>
        /\ batch' = [batch EXCEPT ![l] = Append(@, Last(queue[a]))]
        /\ queue' = [queue EXCEPT ![a] = Front(@)]
        /\ UNCHANGED loopPc
  /\ UNCHANGED <<appState, readerVars, processed>>

\* popleft until IndexError; a body that is not a dict has no items(), and the
\* AttributeError ends the thread with all it had collected.
Collect(l) ==
  LET a == AppOf(l) IN
  /\ loopPc[l] = "collect"
  /\ \/ /\ queue[a] = <<>>
        /\ loopPc' = [loopPc EXCEPT ![l] = "process"]
        /\ UNCHANGED <<queue, batch>>
     \/ /\ queue[a] # <<>> /\ Head(queue[a]) \notin NotDict
        /\ batch' = [batch EXCEPT ![l] = Append(@, Head(queue[a]))]
        /\ queue' = [queue EXCEPT ![a] = Tail(@)]
        /\ UNCHANGED loopPc
     \/ /\ queue[a] # <<>> /\ Head(queue[a]) \in NotDict
        /\ batch' = [batch EXCEPT ![l] = <<>>]
        /\ queue' = [queue EXCEPT ![a] = Tail(@)]
        /\ loopPc' = [loopPc EXCEPT ![l] = "off"]
  /\ UNCHANGED <<appState, readerVars, processed>>

\* process() and the rest of the turn; an exception in any of it ends the
\* thread (module AppRuntime) and leaves the app running.
Process(l) ==
  /\ loopPc[l] = "process"
  /\ processed' = [processed EXCEPT ![l] = IF batch[l] = <<>> THEN @ ELSE Last(batch[l])]
  /\ batch' = [batch EXCEPT ![l] = <<>>]
  /\ \E next \in {"top", "off"} : loopPc' = [loopPc EXCEPT ![l] = next]
  /\ UNCHANGED <<appState, readerVars, queue>>

-----------------------------------------------------------------------------
ReaderStep ==
  Receive \/ CheckState \/ CheckSize \/ DropOldest \/ AppendMeasurement
LoopStep(l) == LoopTop(l) \/ Collect(l) \/ Process(l)

Next ==
  \/ ReaderStep
  \/ \E l \in Loops : LoopStep(l)
  \/ \E a \in Apps : UpdateState(a)

FeedSpec == Init /\ [][Next]_feedVars

-----------------------------------------------------------------------------
\* The type of every variable; no deque outgrows max_queue_size.
FeedTypeOK ==
  /\ appState \in [Apps -> {"stopped", "running", "paused"}]
  /\ received \in 0..MaxMeasurements
  /\ readerPc \in {"recv", "check", "size", "evict", "append"}
  /\ position \in 1..(Len(Subscribers) + 1)
  /\ queue \in [Apps -> Seq(1..received)]
  /\ \A a \in Apps : Len(queue[a]) <= MaxQueue
  /\ loopPc \in [Loops -> {"off", "top", "collect", "process"}]
  /\ batch \in [Loops -> Seq(1..received)]
  /\ processed \in [Loops -> 0..MaxMeasurements]
  /\ lost \in [Apps -> Nat]

\* The feed implements MeasurementLog: each measurement goes to at most one
\* loop of an app, and every loop reads oldest first, whatever the reader
\* drops and however the loops interleave.
Log == INSTANCE MeasurementLog WITH
  offered <- received,
  avail <- [a \in Apps |-> ToSet(queue[a]) \cup
                             (IF InHand(a) THEN {received} ELSE {})],
  hand <- batch,
  seen <- processed
ImplementsMeasurementLog == Log!Spec

\* The loop that empties a deque between the reader's test and its popleft
\* costs the app, and those behind it, a measurement.  It cannot do so again
\* before the deque is full once more, so that a running app misses at most one
\* measurement in a row if it is the first subscriber, three if it is the
\* second, and so on, however many loops race with the reader.
LossesBounded ==
  \A i \in DOMAIN Subscribers : lost[Subscribers[i]] < 2^i
=============================================================================
