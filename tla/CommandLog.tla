----------------------------- MODULE CommandLog -----------------------------
(***************************************************************************)
(* What the way from send_command to handle_command promises: the commands *)
(* put on the controller's socket form one log, and a node handles those   *)
(* that are addressed to it, in the order of the log, each at most once,   *)
(* and may miss any of them.                                               *)
(***************************************************************************)
EXTENDS Naturals, Sequences, SequencesExt

CONSTANTS
  Nodes, Commands,
  Addressed  \* <<n, c>>: command c is addressed to node n

VARIABLES
  log,     \* the commands sent, in order
  handled  \* the positions in log of those each node handled

CommandLogInit ==
  /\ log = <<>>
  /\ handled = [n \in Nodes |-> <<>>]

Write(c) ==
  /\ log' = Append(log, c)
  /\ UNCHANGED handled

\* A later one than all it has handled, which may have been before a restart.
Handle(n) ==
  /\ \E i \in DOMAIN log \ ToSet(handled[n]) :
       /\ \A j \in ToSet(handled[n]) : j < i
       /\ <<n, log[i]>> \in Addressed
       /\ handled' = [handled EXCEPT ![n] = Append(@, i)]
  /\ UNCHANGED log

CommandLogNext ==
  \/ \E c \in Commands : Write(c)
  \/ \E n \in Nodes : Handle(n)

CommandLogSpec == CommandLogInit /\ [][CommandLogNext]_<<log, handled>>
=============================================================================
