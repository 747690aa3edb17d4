---------------------------- MODULE ToolCatalogue ----------------------------
(***************************************************************************)
(* The MCP tools of an application and the schemas of their commands, as   *)
(* tool_generator.py makes them from the class and registry.py from what   *)
(* has been registered so far.  A tool's name is the application's name    *)
(* and a suffix, joined by "_"; names are keys of one dictionary for all   *)
(* applications, so that a later tool replaces an earlier one of the same  *)
(* name: "A" with "set_gain" and "A_set" with "gain" have one tool.        *)
(***************************************************************************)
EXTENDS Naturals, Sequences

CONSTANTS
  Controls,     \* control_functions of an app: a set of <<node, command>>
  Reads,        \* the nodes in read_measurements of an app
  Operations,   \* names of the @agent_controlled operations of an app
  Suffix,       \* a command's name in lower case
  OwnSchema,    \* commands that are registered with a schema of their own
  WithNodeId    \* those of them whose schema has a property node_id

CellIds(a) == Reads[a] \cup {x[1] : x \in Controls[a]}
CommandsOf(a) == {x[2] : x \in Controls[a]}
NodesOf(a, c) == {x[1] : x \in {y \in Controls[a] : y[2] = c}}

ToolName(a, suffix) == a \o "_" \o suffix
ControlName(a, c) == ToolName(a, Suffix[c])

\* Dictionaries: what is stored later replaces what is there.
Entry(key, value) == [k \in {key} |-> value]
Updated(d, e) == [k \in DOMAIN d \cup DOMAIN e |-> IF k \in DOMAIN e THEN e[k] ELSE d[k]]

-----------------------------------------------------------------------------
(* registry.py.  Without nodes node_id is not constrained.                 *)

\* register_command: the handler, and the schema given or a default one; a
\* command registered before is replaced.
RegisterCommand(schemas, c) ==
  Updated(schemas, Entry(c, IF c \in OwnSchema THEN "own" ELSE "default"))

\* Only a node_id that the schema has is constrained; the default one has it.
TakesNode(c, form) == form = "default" \/ c \in WithNodeId

GetCommandSchema(c, nodes, schemas) ==
  IF c \notin DOMAIN schemas THEN [form |-> "fallback", nodes |-> {}]
  ELSE [form |-> schemas[c], nodes |-> IF TakesNode(c, schemas[c]) THEN nodes ELSE {}]

-----------------------------------------------------------------------------
(* tool_generator.py.                                                      *)

Tool(kind, a, does, schema) == [kind |-> kind, app |-> a, does |-> does, schema |-> schema]
Form(s) == [form |-> s, nodes |-> {}]

\* Commands that differ in case only have one tool, of one of them.
ControlTools(a, schemas) ==
  [n \in {ControlName(a, c) : c \in CommandsOf(a)} |->
     LET c == CHOOSE d \in CommandsOf(a) : ControlName(a, d) = n
     IN Tool("control", a, c, GetCommandSchema(c, NodesOf(a, c), schemas))]

MeasurementTools(a) ==
  IF Reads[a] = {} THEN <<>>
  ELSE Entry(ToolName(a, "get_measurements"),
             Tool("measurement", a, "get_measurements", [form |-> "own", nodes |-> Reads[a]]))

StateTools(a) ==
  LET tool(does) == Entry(ToolName(a, does), Tool("state", a, does, Form("own")))
  IN Updated(tool("get_state"), tool("set_state"))

AgentTools(a) ==
  [n \in {ToolName(a, op) : op \in Operations[a]} |->
     Tool("agent_controlled", a, CHOOSE op \in Operations[a] : ToolName(a, op) = n, Form("own"))]

\* generate_tools_for_app registers the tools in this order, the last one wins.
GenerateToolsForApp(tools, a, schemas) ==
  LET controls == Updated(tools, ControlTools(a, schemas))
      readings == Updated(controls, MeasurementTools(a))
  IN Updated(Updated(readings, StateTools(a)), AgentTools(a))

\* Mutant: a tool that is there is not replaced.
RefreshControlToolsKept(tools, a, schemas) == Updated(ControlTools(a, schemas), tools)

RefreshControlTools(tools, a, schemas) == Updated(tools, ControlTools(a, schemas))
=============================================================================
