---------------------------- MODULE MCAppRuntime ----------------------------
(* TLC instance of AppRuntime: threads, operators and requests are model    *)
(* values, so those of a kind are interchangeable in the safety run.        *)
EXTENDS AppRuntime, TLC

Symmetry ==
  Permutations(Threads) \cup Permutations(Opers) \cup Permutations(Requests)
=============================================================================
