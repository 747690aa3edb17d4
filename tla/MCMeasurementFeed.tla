------------------------- MODULE MCMeasurementFeed -------------------------
(* TLC instance of MeasurementFeed: an app with two loops at a time, and a  *)
(* second one, served after it, with one.                                   *)
EXTENDS MeasurementFeed

TwoApps == <<"app1", "app2">>
TwoLoops == {<<"app1", 1>>, <<"app1", 2>>}
=============================================================================
