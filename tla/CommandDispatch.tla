--------------------------- MODULE CommandDispatch --------------------------
(***************************************************************************)
(* The way of a command to the wire.  Each app queues commands in its own  *)
(* send_commands deque and its loop thread dispatches them: validator,     *)
(* policy, arbitrator, command registry, socket.  A manual command takes   *)
(* the same way in the REST or MCP thread that asked for it.  A mitigator  *)
(* app (aic_app.py of control_application_v2_example) pops the deques of   *)
(* the apps it manages from its own loop and queues the winners again.     *)
(* The arbitrator and the deques are shared and nothing is locked.         *)
(***************************************************************************)
EXTENDS Naturals, Sequences, SequencesExt

CONSTANTS
  Managed,     \* the mitigator's MANAGED_APPS, highest priority first
  Mitigator,   \* the mitigator app
  Callers,     \* threads that each send one manual command
  Commands,    \* the commands issued, each at most once
  Owner,       \* the app that queues a command or the caller that sends it
  Target,      \* the (node, command name) a command is for
  Accepts,     \* <<thread, command>>: its app's validator and the policy agree
  Malformed,   \* commands whose second element is not a dict
  Registered,  \* commands whose name has_command
  Raises,      \* commands whose handler in the registry raises
  Strategy,    \* AIC_ARBITRATION_STRATEGY
  Gap,         \* the arbitration window, in ticks of the clock
  MaxClock,    \* bound on the clock
  None         \* no command

ManagedApps == {Managed[i] : i \in DOMAIN Managed}
Apps == ManagedApps \cup {Mitigator}
Threads == Apps \cup Callers
Targets == {Target[c] : c \in Commands}

ASSUME DispatchAssumption ==
  /\ Managed \in Seq(ManagedApps) /\ IsInjective(Managed)
  /\ Mitigator \notin ManagedApps
  /\ Apps \cap Callers = {}
  /\ Owner \in [Commands -> ManagedApps \cup Callers]
  /\ Accepts \subseteq Threads \X Commands
  /\ Strategy \in {"last_write_wins", "min_gap"}
  /\ Gap \in Nat /\ MaxClock \in Nat /\ Gap <= MaxClock
  /\ None \notin Commands

VARIABLES
  pc,       \* where each thread is
  queue,    \* send_commands of each app
  hand,     \* the command a thread is dispatching
  draining, \* index in Managed of the app the mitigator is draining
  pending,  \* what the mitigator has drained in this turn
  clock,    \* time.time()
  now,      \* the time a thread read in allow()
  lastTs,   \* last_command_ts
  outcome   \* history: what became of each command

dispatchVars == <<pc, queue, hand, draining, pending, clock, now, lastTs, outcome>>
mitigatorVars == <<draining, pending>>
arbiterVars == <<now, lastTs>>

Outcomes == {"new", "open", "sent", "rejected", "superseded", "lost"}

Goto(p, label) == pc' = [pc EXCEPT ![p] = label]

\* A loop goes on with its deque; a caller has its answer.
After(p) == IF p \in Callers THEN "done" ELSE "test"

Init ==
  /\ pc = [p \in Threads |-> IF p \in Callers THEN "idle" ELSE "process"]
  /\ queue = [a \in Apps |-> <<>>]
  /\ hand = [p \in Threads |-> None]
  /\ draining = 1
  /\ pending = <<>>
  /\ clock = Gap                      \* a fresh key counts as stamped at 0
  /\ now = [p \in Threads |-> 0]
  /\ lastTs = [g \in Targets |-> 0]
  /\ outcome = [c \in Commands |-> "new"]

Tick ==
  /\ clock < MaxClock
  /\ clock' = clock + 1
  /\ UNCHANGED <<pc, queue, hand, mitigatorVars, arbiterVars, outcome>>

-----------------------------------------------------------------------------
(* process() of a managed app queues commands one by one, or none, while   *)
(* the mitigator may already be draining them.                             *)
ProcessApp(a) ==
  /\ a \in ManagedApps
  /\ pc[a] = "process"
  /\ \/ \E c \in Commands :
          /\ Owner[c] = a /\ outcome[c] = "new"
          /\ queue' = [queue EXCEPT ![a] = Append(@, c)]
          /\ outcome' = [outcome EXCEPT ![c] = "open"]
          /\ UNCHANGED pc
     \/ Goto(a, "test") /\ UNCHANGED <<queue, outcome>>
  /\ UNCHANGED <<hand, mitigatorVars, clock, arbiterVars>>

(* process() of the mitigator.                                             *)
StartDrain ==
  /\ pc[Mitigator] = "process"
  /\ Goto(Mitigator, "drain")
  /\ draining' = 1
  /\ UNCHANGED <<queue, hand, pending, clock, arbiterVars, outcome>>

\* Mutants: the command is read but not popped; an empty deque does not end
\* the turn of its app.
DrainPeek ==
  /\ pc[Mitigator] = "drain"
  /\ draining <= Len(Managed)
  /\ LET a == Managed[draining] IN
     pending' = IF queue[a] # <<>> THEN Append(pending, Head(queue[a])) ELSE pending
  /\ draining' = draining + 1
  /\ UNCHANGED <<pc, queue, hand, clock, arbiterVars, outcome>>
DrainStuck ==
  /\ pc[Mitigator] = "drain"
  /\ draining <= Len(Managed)
  /\ LET a == Managed[draining] IN
     /\ queue[a] # <<>>
     /\ pending' = Append(pending, Head(queue[a]))
     /\ queue' = [queue EXCEPT ![a] = Tail(@)]
  /\ UNCHANGED <<pc, hand, draining, clock, arbiterVars, outcome>>

\* One popleft; IndexError is caught, so an empty deque ends the app's turn.
Drain ==
  /\ pc[Mitigator] = "drain"
  /\ draining <= Len(Managed)
  /\ LET a == Managed[draining] IN
     \/ /\ queue[a] # <<>>
        /\ pending' = Append(pending, Head(queue[a]))
        /\ queue' = [queue EXCEPT ![a] = Tail(@)]
        /\ UNCHANGED draining
     \/ /\ queue[a] = <<>>
        /\ draining' = draining + 1
        /\ UNCHANGED <<pending, queue>>
  /\ UNCHANGED <<pc, hand, clock, arbiterVars, outcome>>

\* Mutant: the last contender wins.
WinnersLast ==
  {i \in DOMAIN pending :
     \A j \in (i + 1)..Len(pending) : Target[pending[j]] # Target[pending[i]]}

\* Of several commands for one target the first of the app first in Managed
\* wins.  The apps were drained in that order, so it is the first in pending.
Winners ==
  {i \in DOMAIN pending : \A j \in 1..(i - 1) : Target[pending[j]] # Target[pending[i]]}

\* by_target keeps the order in which the targets came up.
Resolve ==
  /\ pc[Mitigator] = "drain"
  /\ draining > Len(Managed)
  /\ \/ /\ ToSet(pending) \cap Malformed = {}
        /\ \E won \in SetToSeqs(Winners) :
             /\ \A i, j \in DOMAIN won : i < j => won[i] < won[j]
             /\ queue' = [queue EXCEPT ![Mitigator] =
                            @ \o [i \in DOMAIN won |-> pending[won[i]]]]
        /\ outcome' = [c \in Commands |->
                         IF c \in ToSet(pending) \ {pending[i] : i \in Winners}
                         THEN "superseded" ELSE outcome[c]]
        /\ Goto(Mitigator, "test")
     \/ /\ ToSet(pending) \cap Malformed # {}     \* no get(): AttributeError
        /\ outcome' = [c \in Commands |->
                         IF c \in ToSet(pending) THEN "lost" ELSE outcome[c]]
        /\ Goto(Mitigator, "dead")
        /\ UNCHANGED queue
  /\ pending' = <<>>
  /\ UNCHANGED <<hand, draining, clock, arbiterVars>>

-----------------------------------------------------------------------------
(* process_commands.  The test of the deque and the popleft are two steps. *)
TestQueue(a) ==
  /\ pc[a] = "test"
  /\ Goto(a, IF queue[a] = <<>> THEN "process" ELSE "take")
  /\ UNCHANGED <<queue, hand, mitigatorVars, clock, arbiterVars, outcome>>

TakeCommand(a) ==
  /\ pc[a] = "take"
  /\ \/ /\ queue[a] # <<>>
        /\ hand' = [hand EXCEPT ![a] = Head(queue[a])]
        /\ queue' = [queue EXCEPT ![a] = Tail(@)]
        /\ Goto(a, "check")
     \/ /\ queue[a] = <<>>                       \* IndexError ends the thread
        /\ Goto(a, "dead")
        /\ UNCHANGED <<queue, hand>>
  /\ UNCHANGED <<mitigatorVars, clock, arbiterVars, outcome>>

\* send_manual_control begins.
Call(m) ==
  /\ m \in Callers
  /\ pc[m] = "idle"
  /\ \E c \in Commands :
       /\ Owner[c] = m /\ outcome[c] = "new"
       /\ hand' = [hand EXCEPT ![m] = c]
       /\ outcome' = [outcome EXCEPT ![c] = "open"]
  /\ Goto(m, "check")
  /\ UNCHANGED <<queue, mitigatorVars, clock, arbiterVars>>

-----------------------------------------------------------------------------
(* What both do with a command: validate_command, enforce, allow, send.    *)

Settle(p, what, label) ==
  /\ outcome' = [outcome EXCEPT ![hand[p]] = what]
  /\ hand' = [hand EXCEPT ![p] = None]
  /\ Goto(p, label)

\* process_commands skips a command without a dict; validate_command and the
\* policy's enforce decide about the others.
Valid(p, c) == c \notin Malformed /\ <<p, c>> \in Accepts

Check(p) ==
  /\ pc[p] = "check"
  /\ IF Valid(p, hand[p])
     THEN Goto(p, "stamp") /\ UNCHANGED <<hand, outcome>>
     ELSE Settle(p, "rejected", After(p))
  /\ UNCHANGED <<queue, mitigatorVars, clock, arbiterVars>>

Stamp(p) ==
  /\ pc[p] = "stamp"
  /\ now' = [now EXCEPT ![p] = clock]
  /\ Goto(p, "compare")
  /\ UNCHANGED <<queue, hand, mitigatorVars, clock, lastTs, outcome>>

TooSoon(p) ==
  Strategy = "min_gap" /\ now[p] < lastTs[Target[hand[p]]] + Gap

Compare(p) ==
  /\ pc[p] = "compare"
  /\ IF TooSoon(p)
     THEN Settle(p, "rejected", After(p)) /\ now' = [now EXCEPT ![p] = 0]
     ELSE Goto(p, "record") /\ UNCHANGED <<hand, outcome, now>>
  /\ UNCHANGED <<queue, mitigatorVars, clock, lastTs>>

\* Mutant: the end of the window is recorded, not its beginning.
RecordEnd(p) ==
  /\ pc[p] = "record"
  /\ lastTs' = [lastTs EXCEPT ![Target[hand[p]]] = now[p] + Gap]
  /\ Goto(p, "send")
  /\ UNCHANGED <<queue, hand, mitigatorVars, clock, now, outcome>>

Record(p) ==
  /\ pc[p] = "record"
  /\ lastTs' = [lastTs EXCEPT ![Target[hand[p]]] = now[p]]
  /\ Goto(p, "send")
  /\ UNCHANGED <<queue, hand, mitigatorVars, clock, now, outcome>>

\* has_command fails; execute_command's handler raises, which ends a loop
\* thread and is an error for a caller; send_command puts it on the socket.
RejectUnknown(p) ==
  hand[p] \notin Registered /\ Settle(p, "rejected", After(p))
HandlerRaises(p) ==
  /\ hand[p] \in Registered \cap Raises
  /\ Settle(p, "lost", IF p \in Callers THEN "done" ELSE "dead")
SendCommand(p) ==
  hand[p] \in Registered \ Raises /\ Settle(p, "sent", After(p))

Send(p) ==
  /\ pc[p] = "send"
  /\ RejectUnknown(p) \/ HandlerRaises(p) \/ SendCommand(p)
  /\ now' = [now EXCEPT ![p] = 0]               \* the local is dead now
  /\ UNCHANGED <<queue, mitigatorVars, clock, lastTs>>

Dispatch(p) == Check(p) \/ Stamp(p) \/ Compare(p) \/ Record(p) \/ Send(p)
LoopStep(a) ==
  \/ ProcessApp(a) \/ TestQueue(a) \/ TakeCommand(a) \/ Dispatch(a)
  \/ a = Mitigator /\ (StartDrain \/ Drain \/ Resolve)

Next ==
  \/ Tick
  \/ \E a \in Apps : LoopStep(a)
  \/ \E m \in Callers : Call(m) \/ Dispatch(m)

DispatchSpec ==
  /\ Init /\ [][Next]_dispatchVars
  /\ \A a \in Apps : WF_dispatchVars(LoopStep(a))
  /\ \A m \in Callers : WF_dispatchVars(Dispatch(m))

-----------------------------------------------------------------------------
\* The type of every variable.
DispatchTypeOK ==
  /\ pc \in [Threads -> {"process", "drain", "test", "take", "check", "stamp",
                         "compare", "record", "send", "idle", "done", "dead"}]
  /\ queue \in [Apps -> Seq(Commands)]
  /\ hand \in [Threads -> Commands \cup {None}]
  /\ draining \in 1..(Len(Managed) + 1)
  /\ pending \in Seq(Commands)
  /\ clock \in Gap..MaxClock
  /\ now \in [Threads -> 0..MaxClock]
  /\ lastTs \in [Targets -> 0..MaxClock]
  /\ outcome \in [Commands -> Outcomes]

\* A command in flight is in exactly one place, and a settled one in none: a
\* command is never sent twice and never forgotten, though two loops pop the
\* same deque.
Queued == UNION {ToSet(queue[a]) : a \in Apps}
Held == {hand[p] : p \in Threads} \ {None}
OnePlace ==
  /\ {c \in Commands : outcome[c] = "open"} = Queued \cup Held \cup ToSet(pending)
  /\ Queued \cap Held = {} /\ ToSet(pending) \cap (Queued \cup Held) = {}
  /\ \A a \in Apps : IsInjective(queue[a])
  /\ \A a, b \in Apps : a # b => ToSet(queue[a]) \cap ToSet(queue[b]) = {}
  /\ \A p, q \in Threads : p # q /\ hand[p] # None => hand[p] # hand[q]
  /\ IsInjective(pending)

\* When a command was superseded, a command for the same target from an app of
\* at least its priority went on in its stead.
Rank(c) == CHOOSE i \in DOMAIN Managed : Managed[i] = Owner[c]
PriorityWins ==
  \A c \in Commands : outcome[c] = "superseded" =>
    \E w \in Commands \ {c} :
      /\ Target[w] = Target[c] /\ Owner[w] \in ManagedApps
      /\ Rank(w) <= Rank(c)
      /\ outcome[w] \notin {"new", "superseded"}

\* Unless a loop dies, every command that was queued or called is settled.
CommandsSettle ==
  [](\A a \in Apps : pc[a] # "dead") => <>[](\A c \in Commands : outcome[c] # "open")

-----------------------------------------------------------------------------
(* What the repository says of this code and the code does not do.         *)

\* docs/examples/conflict_mitigation.rst:250 "The ConflictMitigator's popleft()
\* calls and the controller's own deque operations interleave safely without a
\* lock": no well-formed command ends a loop.
LoopsSurvive == \A a \in Apps : pc[a] # "dead"
=============================================================================
