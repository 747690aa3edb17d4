----------------------------- MODULE AgentCall ------------------------------
(***************************************************************************)
(* What an agent request promises its caller, whatever the threads of the  *)
(* controller do: the operation runs at most once, the caller gets exactly *)
(* one answer, "result" is only answered for an operation that ran, and    *)
(* "refused" for one that has not run and never will.  Every other answer  *)
(* to a call is inconclusive: the operation may already have run, and may  *)
(* even run later.                                                         *)
(***************************************************************************)
EXTENDS Naturals

CONSTANT Requests

VARIABLES
  phase,  \* "new", then "open" while the caller waits, then "closed"
  runs,   \* how often the operation ran
  reply   \* the answer, "none" until the call is closed

callVars == <<phase, runs, reply>>

Inconclusive == {"error", "timeout", "raised"}
Answers == {"refused", "result"} \cup Inconclusive

Init ==
  /\ phase = [r \in Requests |-> "new"]
  /\ runs = [r \in Requests |-> 0]
  /\ reply = [r \in Requests |-> "none"]

Open(r) ==
  /\ phase[r] = "new"
  /\ phase' = [phase EXCEPT ![r] = "open"]
  /\ UNCHANGED <<runs, reply>>

Run(r) ==
  /\ runs[r] = 0
  /\ \/ phase[r] = "open"
     \/ phase[r] = "closed" /\ reply[r] \in Inconclusive
  /\ runs' = [runs EXCEPT ![r] = 1]
  /\ UNCHANGED <<phase, reply>>

Close(r, answer) ==
  /\ \/ phase[r] = "new" /\ answer = "refused"
     \/ phase[r] = "open" /\ answer = "refused" /\ runs[r] = 0
     \/ phase[r] = "open" /\ answer \in Inconclusive
     \/ phase[r] = "open" /\ answer = "result" /\ runs[r] = 1
  /\ phase' = [phase EXCEPT ![r] = "closed"]
  /\ reply' = [reply EXCEPT ![r] = answer]
  /\ UNCHANGED runs

Next ==
  \E r \in Requests :
    Open(r) \/ Run(r) \/ (\E answer \in Answers : Close(r, answer))

Spec == Init /\ [][Next]_callVars
=============================================================================
