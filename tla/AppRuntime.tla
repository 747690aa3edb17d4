----------------------------- MODULE AppRuntime -----------------------------
(***************************************************************************)
(* The runtime of ONE control application inside AicController: its state, *)
(* the loop threads that run it, the REST threads that change its state,   *)
(* and the agent requests the MCP server queues for it.  Nothing here is   *)
(* protected by a lock, so every read, write and deque operation that      *)
(* another thread can observe is a step of its own.                        *)
(***************************************************************************)
EXTENDS Naturals, Sequences, SequencesExt

CONSTANTS
  Threads,      \* loop thread slots: a bound on the loops alive at a time
  Opers,        \* API threads that call update_app_state
  Requests,     \* agent requests; each is one call of the MCP handler
  PoolSize,     \* workers of the event loop's default executor
  AppMayRaise,  \* TRUE: process() and the commands it queues may raise
  None          \* no request

ASSUME RuntimeAssumption ==
  /\ PoolSize \in Nat \ {0}
  /\ AppMayRaise \in BOOLEAN
  /\ None \notin Requests
  /\ Threads \cap Opers = {}
  /\ Threads \cap Requests = {}
  /\ Opers \cap Requests = {}

VARIABLES
  appState,   \* app_states[app]
  stopEvent,  \* stop_event, set by shutdown()
  queue,      \* agent_requests, the app's deque of pending requests
  pc,         \* where each thread of the three kinds is
  held,       \* the request a loop thread popped and is working on
  target,     \* the state an API thread was asked to set
  response,   \* AgentRequest.response is set
  error,      \* AgentRequest.error: unset, the empty string, or a text
  event,      \* AgentRequest.event is set
  reply,      \* what the MCP handler returned to its caller
  handled     \* history: how often the handler of a request ran

vars == <<appState, stopEvent, queue, pc, held, target,
          response, error, event, reply, handled>>
requestVars == <<response, error, event, reply, handled>>

States == {"stopped", "running", "paused"}
Errors == {"unset", "blank", "text"}
Replies == {"none", "refused", "raised", "timeout", "error", "result"}

ThreadPc == {"free", "top", "sleep", "work", "gate", "poll", "take", "call",
             "signal", "commands", "exitDrain", "exitPop",
             "gateDrain", "gatePop"}
OperPc == {"idle", "start", "spawn", "assign", "stopDrain", "stopPop"}
RequestPc == {"new", "enqueue", "recheck", "withdraw", "submit", "waiting",
              "done"}

Alive(t) == pc[t] # "free"
Queued(r) == \E i \in DOMAIN queue : queue[i] = r
Goto(p, label) == pc' = [pc EXCEPT ![p] = label]

Init ==
  /\ appState = "stopped"
  /\ stopEvent = FALSE
  /\ queue = <<>>
  /\ pc = [p \in Threads \cup Opers \cup Requests |->
             IF p \in Threads THEN "free"
             ELSE IF p \in Opers THEN "idle" ELSE "new"]
  /\ held = [t \in Threads |-> None]
  /\ target = [o \in Opers |-> "running"]
  /\ response = [r \in Requests |-> FALSE]
  /\ error = [r \in Requests |-> "unset"]
  /\ event = [r \in Requests |-> FALSE]
  /\ reply = [r \in Requests |-> "none"]
  /\ handled = [r \in Requests |-> 0]

-----------------------------------------------------------------------------
(* _fail_pending_agent_requests: test the deque, then pop it.  The two are *)
(* separate steps, so another thread may empty the deque in between and    *)
(* popleft raises IndexError: the thread goes to onError.                  *)

DrainTest(p, test, pop, return) ==
  /\ pc[p] = test
  /\ Goto(p, IF queue = <<>> THEN return ELSE pop)
  /\ UNCHANGED <<appState, stopEvent, queue, held, target, requestVars>>

\* Mutant: the drained request is completed, but no error is set in it.
DrainPopSilent(p, test, pop, onError) ==
  /\ pc[p] = pop
  /\ \/ /\ queue # <<>>
        /\ queue' = Tail(queue)
        /\ event' = [event EXCEPT ![Head(queue)] = TRUE]
        /\ Goto(p, test)
     \/ /\ queue = <<>>
        /\ Goto(p, onError)
        /\ UNCHANGED <<queue, event>>
  /\ UNCHANGED <<appState, stopEvent, held, target, response, error, reply,
                 handled>>

DrainPop(p, test, pop, onError) ==
  /\ pc[p] = pop
  /\ \/ /\ queue # <<>>
        /\ queue' = Tail(queue)
        /\ error' = [error EXCEPT ![Head(queue)] = "text"]
        /\ event' = [event EXCEPT ![Head(queue)] = TRUE]
        /\ Goto(p, test)
     \/ /\ queue = <<>>
        /\ Goto(p, onError)
        /\ UNCHANGED <<queue, error, event>>
  /\ UNCHANGED <<appState, stopEvent, held, target, response, reply, handled>>

-----------------------------------------------------------------------------
(* API threads: update_app_state.                                          *)

\* The old state is read; which branch is taken depends on it alone.
ReadState(o) ==
  /\ pc[o] = "idle"
  /\ \/ appState = "stopped" /\ Goto(o, "start") /\ UNCHANGED target
     \/ \E s \in States :
          /\ ~(s = "running" /\ appState = "stopped")
          /\ target' = [target EXCEPT ![o] = s]
          /\ Goto(o, "assign")
  /\ UNCHANGED <<appState, stopEvent, queue, held, requestVars>>

SetRunning(o) ==
  /\ pc[o] = "start"
  /\ appState' = "running"
  /\ Goto(o, "spawn")
  /\ UNCHANGED <<stopEvent, queue, held, target, requestVars>>

\* thread.start(); the old loop, if one is still alive, is not joined.
Spawn(o) ==
  /\ pc[o] = "spawn"
  /\ \E t \in Threads :
       /\ ~Alive(t)
       /\ pc' = [pc EXCEPT ![o] = "idle", ![t] = "top"]
  /\ UNCHANGED <<appState, stopEvent, queue, held, target, requestVars>>

\* Mutant: the final else, which rejects any other state, is gone.
SetStateUnchecked(o) ==
  /\ pc[o] = "assign"
  /\ \E s \in States \cup {"idle"} : appState' = s
  /\ Goto(o, "idle")
  /\ UNCHANGED <<stopEvent, queue, held, target, requestVars>>

SetState(o) ==
  /\ pc[o] = "assign"
  /\ appState' = target[o]
  /\ target' = [target EXCEPT ![o] = "running"]   \* the local is dead now
  /\ Goto(o, IF target[o] = "stopped" THEN "stopDrain" ELSE "idle")
  /\ UNCHANGED <<stopEvent, queue, held, requestVars>>

StopDrain(o) ==
  \/ DrainTest(o, "stopDrain", "stopPop", "idle")
  \/ DrainPop(o, "stopDrain", "stopPop", "idle")

-----------------------------------------------------------------------------
(* Loop threads: __execute and what it calls.                              *)

\* Mutant: stopped is treated like paused.
LoopTopStays(t) ==
  /\ pc[t] = "top"
  /\ Goto(t, IF stopEvent THEN "free"
             ELSE IF appState = "running" THEN "work" ELSE "sleep")
  /\ UNCHANGED <<appState, stopEvent, queue, held, target, requestVars>>

LoopTop(t) ==
  /\ pc[t] = "top"
  /\ Goto(t, IF stopEvent THEN "free"
             ELSE CASE appState = "stopped" -> "exitDrain"
                    [] appState = "paused" -> "sleep"
                    [] appState = "running" -> "work")
  /\ UNCHANGED <<appState, stopEvent, queue, held, target, requestVars>>

LoopWake(t) ==
  /\ pc[t] = "sleep"
  /\ Goto(t, "top")
  /\ UNCHANGED <<appState, stopEvent, queue, held, target, requestVars>>

\* collect_measurements and process(); an exception ends the thread and
\* leaves app_states as it is.
RunProcess(t) ==
  /\ pc[t] = "work"
  /\ \/ Goto(t, "gate")
     \/ AppMayRaise /\ Goto(t, "free")
  /\ UNCHANGED <<appState, stopEvent, queue, held, target, requestVars>>

\* process_agent_requests reads the state once more, and only once.
AgentGate(t) ==
  /\ pc[t] = "gate"
  /\ Goto(t, IF appState = "running" THEN "poll" ELSE "gateDrain")
  /\ UNCHANGED <<appState, stopEvent, queue, held, target, requestVars>>

\* Mutant: the test of the while loop is inverted.
PollRequestsInverted(t) ==
  /\ pc[t] = "poll"
  /\ Goto(t, IF queue = <<>> THEN "take" ELSE "commands")
  /\ UNCHANGED <<appState, stopEvent, queue, held, target, requestVars>>

PollRequests(t) ==
  /\ pc[t] = "poll"
  /\ Goto(t, IF queue = <<>> THEN "commands" ELSE "take")
  /\ UNCHANGED <<appState, stopEvent, queue, held, target, requestVars>>

\* Mutant: the request is read at the head of the deque but not popped.
TakeRequestPeek(t) ==
  /\ pc[t] = "take"
  /\ queue # <<>>
  /\ held' = [held EXCEPT ![t] = Head(queue)]
  /\ Goto(t, "call")
  /\ UNCHANGED <<appState, stopEvent, queue, target, requestVars>>

TakeRequest(t) ==
  /\ pc[t] = "take"
  /\ \/ /\ queue # <<>>
        /\ queue' = Tail(queue)
        /\ held' = [held EXCEPT ![t] = Head(queue)]
        /\ Goto(t, "call")
     \/ /\ queue = <<>>          \* IndexError outside the try block
        /\ Goto(t, "free")
        /\ UNCHANGED <<queue, held>>
  /\ UNCHANGED <<appState, stopEvent, target, requestVars>>

\* An operation without a handler is an error; a handler that raises leaves
\* str(e), which may be empty.
CallHandler(t) ==
  /\ pc[t] = "call"
  /\ \/ /\ error' = [error EXCEPT ![held[t]] = "text"]
        /\ UNCHANGED <<response, handled>>
     \/ /\ handled' = [handled EXCEPT ![held[t]] = @ + 1]
        /\ \/ /\ response' = [response EXCEPT ![held[t]] = TRUE]
              /\ UNCHANGED error
           \/ /\ \E e \in Errors \ {"unset"} :
                   error' = [error EXCEPT ![held[t]] = e]
              /\ UNCHANGED response
  /\ Goto(t, "signal")
  /\ UNCHANGED <<appState, stopEvent, queue, held, target, event, reply>>

SignalRequest(t) ==
  /\ pc[t] = "signal"
  /\ event' = [event EXCEPT ![held[t]] = TRUE]
  /\ held' = [held EXCEPT ![t] = None]
  /\ Goto(t, "poll")
  /\ UNCHANGED <<appState, stopEvent, queue, target, response, error, reply,
                 handled>>

\* process_commands, then the control-loop sleep.  Module Dispatch has the
\* commands; here only the exception that ends the thread is visible.
SendCommands(t) ==
  /\ pc[t] = "commands"
  /\ \/ Goto(t, "sleep")
     \/ AppMayRaise /\ Goto(t, "free")
  /\ UNCHANGED <<appState, stopEvent, queue, held, target, requestVars>>

LoopDrain(t) ==
  \/ DrainTest(t, "exitDrain", "exitPop", "free")
  \/ DrainPop(t, "exitDrain", "exitPop", "free")
  \/ DrainTest(t, "gateDrain", "gatePop", "commands")
  \/ DrainPop(t, "gateDrain", "gatePop", "free")

-----------------------------------------------------------------------------
(* MCP handlers of @agent_controlled operations.  They are coroutines: from *)
(* the first line to run_in_executor one of them runs at a time.           *)

EventLoopFree ==
  \A r \in Requests : pc[r] \notin {"enqueue", "recheck", "withdraw"}

Precheck(r) ==
  /\ pc[r] = "new"
  /\ EventLoopFree
  /\ \/ /\ appState = "running"
        /\ Goto(r, "enqueue")
        /\ UNCHANGED reply
     \/ /\ appState # "running"
        /\ reply' = [reply EXCEPT ![r] = "refused"]
        /\ Goto(r, "done")
  /\ UNCHANGED <<appState, stopEvent, queue, held, target, response, error,
                 event, handled>>

Enqueue(r) ==
  /\ pc[r] = "enqueue"
  /\ queue' = Append(queue, r)
  /\ Goto(r, "recheck")
  /\ UNCHANGED <<appState, stopEvent, held, target, requestVars>>

\* Mutant: no fail-fast after the append.
RecheckDropped(r) ==
  /\ pc[r] = "recheck"
  /\ Goto(r, "submit")
  /\ UNCHANGED <<appState, stopEvent, queue, held, target, requestVars>>

Recheck(r) ==
  /\ pc[r] = "recheck"
  /\ Goto(r, IF appState = "running" THEN "submit" ELSE "withdraw")
  /\ UNCHANGED <<appState, stopEvent, queue, held, target, requestVars>>

\* remove() ignores that the request is gone: a loop thread may hold it.
Withdraw(r) ==
  /\ pc[r] = "withdraw"
  /\ \/ \E i \in DOMAIN queue : queue[i] = r /\ queue' = RemoveAt(queue, i)
     \/ ~Queued(r) /\ UNCHANGED queue
  /\ error' = [error EXCEPT ![r] = "text"]
  /\ event' = [event EXCEPT ![r] = TRUE]
  /\ Goto(r, "submit")
  /\ UNCHANGED <<appState, stopEvent, held, target, response, reply, handled>>

\* deque.remove raises IndexError, not the ValueError the code catches, when
\* another thread pops while it compares: the coroutine ends with it.
WithdrawRaises(r) ==
  /\ pc[r] = "withdraw"
  /\ Queued(r) /\ Head(queue) # r
  /\ \E p \in Threads \cup Opers :
       pc[p] \in {"take", "exitPop", "gatePop", "stopPop"}
  /\ reply' = [reply EXCEPT ![r] = "raised"]
  /\ Goto(r, "done")
  /\ UNCHANGED <<appState, stopEvent, queue, held, target, response, error,
                 event, handled>>

Waiting == {r \in Requests : pc[r] = "waiting"}

\* run_in_executor(event.wait, timeout): the wait starts when a worker is free.
StartWait(r) ==
  /\ pc[r] = "submit"
  /\ Cardinality(Waiting) < PoolSize
  /\ Goto(r, "waiting")
  /\ UNCHANGED <<appState, stopEvent, queue, held, target, requestVars>>

Answer(r, what) ==
  /\ reply' = [reply EXCEPT ![r] = what]
  /\ Goto(r, "done")
  /\ UNCHANGED <<appState, stopEvent, queue, held, target, response, error,
                 event, handled>>

\* Mutant: the error of a completed request is not looked at.
CompletedIgnoringError(r) ==
  /\ pc[r] = "waiting"
  /\ event[r]
  /\ Answer(r, "result")

Completed(r) ==
  /\ pc[r] = "waiting"
  /\ event[r]
  /\ Answer(r, IF error[r] = "text" THEN "error" ELSE "result")

\* Mutants: the outcome of event.wait is ignored; it has no timeout.
TimedOutIgnored(r) ==
  /\ pc[r] = "waiting"
  /\ ~event[r]
  /\ Answer(r, "result")
TimedOutNever(r) ==
  /\ pc[r] = "waiting"
  /\ FALSE

\* The request is not taken back: a loop may still handle it later.
TimedOut(r) ==
  /\ pc[r] = "waiting"
  /\ ~event[r]
  /\ Answer(r, "timeout")

-----------------------------------------------------------------------------
\* shutdown(): loops leave at their next turn, without draining.
Shutdown ==
  /\ ~stopEvent
  /\ stopEvent' = TRUE
  /\ UNCHANGED <<appState, queue, pc, held, target, requestVars>>

OperStep(o) ==
  ReadState(o) \/ SetRunning(o) \/ Spawn(o) \/ SetState(o) \/ StopDrain(o)

LoopStep(t) ==
  \/ LoopTop(t) \/ LoopWake(t) \/ RunProcess(t) \/ AgentGate(t)
  \/ PollRequests(t) \/ TakeRequest(t) \/ CallHandler(t) \/ SignalRequest(t)
  \/ SendCommands(t) \/ LoopDrain(t)

RequestStep(r) ==
  \/ Precheck(r) \/ Enqueue(r) \/ Recheck(r) \/ Withdraw(r)
  \/ WithdrawRaises(r) \/ StartWait(r) \/ Completed(r) \/ TimedOut(r)

Next ==
  \/ \E o \in Opers : OperStep(o)
  \/ \E t \in Threads : LoopStep(t)
  \/ \E r \in Requests : RequestStep(r)
  \/ Shutdown

Spec == Init /\ [][Next]_vars

(***************************************************************************)
(* Fairness: the scheduler of the operating system runs every loop thread  *)
(* and the event loop runs every coroutine it has started; a caller need   *)
(* not call, an operator need not operate, nobody need shut down.          *)
(***************************************************************************)
HandlerStep(r) == pc[r] # "new" /\ RequestStep(r)

FairSpec ==
  /\ Spec
  /\ \A t \in Threads : WF_vars(LoopStep(t))
  /\ \A r \in Requests : WF_vars(HandlerStep(r))

-----------------------------------------------------------------------------
\* The type of every variable.
TypeOK ==
  /\ appState \in States
  /\ stopEvent \in BOOLEAN
  /\ queue \in Seq(Requests)
  /\ pc \in [Threads \cup Opers \cup Requests ->
               ThreadPc \cup OperPc \cup RequestPc]
  /\ \A t \in Threads : pc[t] \in ThreadPc
  /\ \A o \in Opers : pc[o] \in OperPc
  /\ \A r \in Requests : pc[r] \in RequestPc
  /\ held \in [Threads -> Requests \cup {None}]
  /\ target \in [Opers -> States]
  /\ response \in [Requests -> BOOLEAN]
  /\ error \in [Requests -> Errors]
  /\ event \in [Requests -> BOOLEAN]
  /\ reply \in [Requests -> Replies]
  /\ handled \in [Requests -> Nat]

\* A request whose caller is or will be waiting is never lost and never in two
\* hands: it is in the deque or held by a loop thread until its event is set.
Pending(r) == pc[r] \in {"submit", "waiting"} /\ ~event[r]

Distinct == \A i, j \in DOMAIN queue : queue[i] = queue[j] => i = j
Held(r) == \E t \in Threads : held[t] = r

Custody ==
  /\ Distinct
  /\ \A t, u \in Threads : held[t] = held[u] /\ held[t] # None => t = u
  /\ \A r \in Requests : ~(Queued(r) /\ Held(r))
  /\ \A r \in Requests : Pending(r) => Queued(r) \/ Held(r)

\* However many loop threads an app has, whoever cancels or drains, a handler
\* runs at most once per request, and only a request it ran for is answered
\* with a result.
HandledOnce ==
  \A r \in Requests :
    handled[r] <= 1 /\ (reply[r] = "result" => handled[r] = 1)

\* Where a request is in its life, from the places it is seen at: the handler
\* has not run while it is queued, an event is set only after an error text or
\* a handler run, and a refused call never reached the deque.
RequestLife ==
  /\ \A t \in Threads :
       /\ pc[t] \in {"call", "signal"} <=> held[t] # None
       /\ pc[t] = "call" => handled[held[t]] = 0
       /\ pc[t] = "signal" =>
            handled[held[t]] = 1 \/ error[held[t]] = "text"
  /\ \A r \in Requests :
       /\ pc[r] \in {"new", "enqueue"} =>
            ~Queued(r) /\ ~Held(r) /\ ~event[r] /\ handled[r] = 0
       /\ pc[r] \in {"recheck", "withdraw"} /\ ~event[r] =>
            Queued(r) \/ Held(r)
       /\ Queued(r) => handled[r] = 0
       /\ event[r] /\ error[r] # "text" => handled[r] = 1
       /\ reply[r] = "none" <=> pc[r] # "done"
       /\ reply[r] = "refused" =>
            ~Queued(r) /\ ~Held(r) /\ handled[r] = 0

\* Once the update that stopped the app is over, no caller is left waiting
\* for a request that sits in the deque of an app that will not serve it.
StopLeavesNoWaiter ==
  appState = "stopped" /\ (\A o \in Opers : pc[o] \notin {"stopDrain", "stopPop"})
    => \A r \in Requests : pc[r] \in {"submit", "waiting"} => ~Queued(r)

\* Each request behaves as module AgentCall says a call does.
Call == INSTANCE AgentCall WITH
  phase <- [r \in Requests |-> IF pc[r] = "new" THEN "new"
                               ELSE IF pc[r] = "done" THEN "closed"
                               ELSE "open"],
  runs <- handled
ImplementsAgentCall == Call!Spec

-----------------------------------------------------------------------------
\* Every call the MCP server accepted is answered, whatever becomes of the app.
EveryCallAnswered ==
  \A r \in Requests : pc[r] = "enqueue" ~> pc[r] = "done"

\* An app that stays stopped is eventually run by no thread, however many
\* loops quick stop/start pairs left behind.
StoppedAppQuiesces ==
  <>[](appState = "stopped") => <>[](\A t \in Threads : ~Alive(t))

\* An app that stays running and keeps a loop serves every queued request.
RunningAppServes ==
  <>[](appState = "running" /\ ~stopEvent /\ \E t \in Threads : Alive(t))
    => \A r \in Requests : []<>(~Queued(r))
=============================================================================
