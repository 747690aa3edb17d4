---------------------------- MODULE MCAppAccess ----------------------------
(* TLC instance of AppAccess: node 3 has a service in the generator's map   *)
(* and a control, node 301 has neither; a controller with two applications  *)
(* and one with the generated application.                                  *)
EXTENDS AppAccess

MCOffers == [n \in {3, 301} |-> [pm |-> IF n = 3 THEN {"gain"} ELSE {"power"},
                                 ctrl |-> IF n = 3 THEN {"SET_GAIN"} ELSE {}]]
MCAppsOf == [hand |-> <<1, 2>>, generated |-> <<100>>]
MCWritten == [a \in {1, 2} |->
  IF a = 1 THEN [nodes |-> {3, 301}, caps |-> {<<3, "ctrl", "SET_GAIN">>, <<301, "pm", "power">>}]
  ELSE [nodes |-> {3}, caps |-> {<<3, "pm", "gain">>}]]
=============================================================================
