---------------------------- MODULE MCNorthbound ----------------------------
(* TLC instance of Northbound: the commands of the main bundle's app are     *)
(* registered by the other bundle, and an operation of it has the name of    *)
(* the first; the other bundle's app needs a plugin, and its command's tool  *)
(* has the name of that first command's.                                     *)
EXTENDS Northbound

MCAppsOf == [main |-> {"A"}, other |-> {"A_set"}]
MCCommandsIn == [main |-> <<>>, other |-> <<"SET_GAIN", "SET_VOA">>]
MCControls == [A |-> {<<1, "SET_GAIN">>, <<2, "SET_VOA">>},
               A_set |-> {<<1, "GAIN">>}]
MCReads == [A |-> {1}, A_set |-> {}]
MCOperations == [A |-> {"set_gain"}, A_set |-> {}]
MCSuffix == [SET_GAIN |-> "set_gain", SET_VOA |-> "set_voa", GAIN |-> "gain"]
MCRequired == [A |-> {}, A_set |-> {"P"}]
K(f, a, o) == [front |-> f, app |-> a, op |-> o]
MCCalls == [c1 |-> {K("rest", "A_set", "running")},
            c2 |-> {K("mcp", "A_set", "stopped"), K("mcp", "A", "control")}]
=============================================================================
