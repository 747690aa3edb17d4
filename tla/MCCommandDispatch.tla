------------------------- MODULE MCCommandDispatch -------------------------
(* TLC instance of CommandDispatch: the two apps of the example and their   *)
(* mitigator, one manual caller, and one target they all want.              *)
EXTENDS CommandDispatch

MCManaged == <<"NetworkApp1", "NetworkApp2">>
MCOwner == [a1 |-> "NetworkApp1", a2 |-> "NetworkApp1", b1 |-> "NetworkApp2",
            m1 |-> "caller"]
MCTarget == [c \in {"a1", "a2", "b1", "m1"} |-> "set_gain_8"]
\* NetworkApp2's own validator rejects b1; the mitigator has no validator.
MCAccepts ==
  {<<"NetworkApp1", "a1">>, <<"NetworkApp1", "a2">>, <<"caller", "m1">>}
    \cup {"ConflictMitigator"} \X {"a1", "a2", "b1"}
=============================================================================
