------------------------- MODULE MCCommandDelivery -------------------------
(* TLC instance of CommandDelivery: nodes 1 and 10, so that the filter of   *)
(* node 1 matches commands for node 10 and that of node 10 is exact.  k1    *)
(* and k2 carry the same key, r1 has none of its own, bad does not decode.  *)
EXTENDS CommandDelivery

MCPrefix == {<<1, 1>>, <<10, 10>>, <<1, 10>>}
MCAddressee == [k1 |-> 10, k2 |-> 10, r1 |-> 1, bad |-> 1]
MCGivenKey == [k1 |-> "key", k2 |-> "key", r1 |-> "none", bad |-> "none"]
=============================================================================
