----------------------------- MODULE Northbound -----------------------------
(***************************************************************************)
(* From the start of the controller process to an application that runs.   *)
(* AicController() loads plugins and application bundles and registers the *)
(* applications; then uvicorn serves REST and MCP requests while a         *)
(* background thread sets the applications up one after another.  If the   *)
(* server is started from server.app instead, the constructor runs in that *)
(* background thread too.  REST handlers run in a pool of threads, MCP     *)
(* handlers in the event loop.  What a loop thread does with a running     *)
(* application is AppRuntime's; here it only needs its plugins.            *)
(***************************************************************************)
EXTENDS ToolCatalogue, FiniteSets, Functions

CONSTANTS
  Launches,             \* how the process may be started
  Bundles, MainBundle,  \* installed app bundles; the one that is started
  AppsOf, CommandsIn,   \* apps and (in order) commands a bundle's modules register
  Plugins, Required,    \* installed plugins; required_plugins of an app
  Incomplete,           \* apps without a required attribute
  Callers,              \* clients, each with one request at a time
  Calls                 \* what each client may ask: [front, app, op]

Again == "app_bundle"   \* the hook of a bundle that is called once more

Apps == UNION {AppsOf[b] : b \in Bundles}
Commands == UNION {CommandsOf(a) : a \in Apps}
Topics == UNION {CellIds(a) : a \in Apps}
States == {"stopped", "running", "paused"}

ASSUME NorthboundAssumption ==
  /\ Launches \subseteq {"script", "module", "server"}
  /\ MainBundle \in Bundles /\ Again \notin Bundles
  /\ \A b \in Bundles : IsFiniteSet(AppsOf[b])
  /\ \A b, d \in Bundles : b # d => AppsOf[b] \cap AppsOf[d] = {}
  /\ \A c \in Callers :
       Calls[c] \subseteq [front : {"rest", "mcp"}, app : Apps, op : States \cup {"control"}]

VARIABLES
  launch,       \* "script": python aic_app.py, "module": python -m, "server"
  mainPc,       \* where AicController() is
  pending,      \* hooks still to call, then apps still to refresh
  plugins,      \* PluginManager
  schemas,      \* registry: command -> form of its schema
  apps,         \* AicManager.aic_apps
  tools,        \* MCPToolRegistry: name -> tool
  catalogue,    \* PluginRegistry: <<type, name>>
  manager,      \* AicManager.controller_instance is set
  routed,       \* apps with REST endpoints
  serving,      \* uvicorn accepts requests
  setUpPc,      \* where __aic_app_setup and __set_topics are
  toSetUp, current,  \* the apps left, and the one in hand
  instances, states, injected,  \* what an app has got so far
  topicsLeft, queued,           \* subscribed topics and their deques
  reading,      \* the reader thread runs
  pc, call, old,     \* the requests, and the old_state of an update
  eventLoop,    \* the MCP request that holds the event loop, or nobody
  room,         \* the PUSH socket for commands has room
  looping,      \* apps of which a loop thread runs
  missed        \* history: apps whose process() missed a plugin

loadVars == <<launch, mainPc, pending, plugins, schemas, apps, tools, manager>>
setUpVars == <<setUpPc, toSetUp, current, instances, injected, topicsLeft, queued, reading>>
serverVars == <<routed, serving>>
callVars == <<pc, call, old, eventLoop>>
loopVars == <<looping, missed>>
northVars == <<loadVars, catalogue, setUpVars, states, serverVars, callVars, room, loopVars>>

Nobody == "nobody"
NoCall == [front |-> "none", app |-> "none", op |-> "none"]
\* What a request turns out to be: "look" is a tool that changes nothing here.
AllCalls == [front : {"rest", "mcp"}, app : Apps, op : States \cup {"control", "look"}]

\* What the decorators of some apps leave in the tool registry, in the order in
\* which their classes are decorated.
Orders(as) == Bijection(as, 1..Cardinality(as))
Decorated(ts, order, ss) ==
  LET made(a) == GenerateToolsForApp(<<>>, a, ss)
      makers(n) == {a \in DOMAIN order : n \in DOMAIN made(a)}
      last(n) == CHOOSE a \in makers(n) : \A b \in makers(n) : order[b] <= order[a]
  IN Updated(ts, [n \in UNION {DOMAIN made(a) : a \in DOMAIN order} |-> made(last(n))[n]])

Init ==
  /\ launch \in Launches
  /\ apps \in {AppsOf[MainBundle]} \cup (IF launch = "server" THEN {{}} ELSE {})
  /\ \E order \in Orders(apps) : tools = Decorated(<<>>, order, <<>>)
  /\ mainPc = "plugins" /\ pending = Bundles
  /\ plugins = {} /\ schemas = <<>> /\ catalogue = {} /\ manager = FALSE
  /\ serving = (launch = "server")          \* create_app comes first there
  /\ routed = IF launch = "server" THEN apps ELSE {}
  /\ setUpPc = "idle" /\ toSetUp = {} /\ current = "none"
  /\ instances = {} /\ states = <<>> /\ injected = {}
  /\ topicsLeft = {} /\ queued = {} /\ reading = FALSE
  /\ pc = [c \in Callers |-> "idle"] /\ call = [c \in Callers |-> NoCall]
  /\ old = [c \in Callers |-> "none"]
  /\ eventLoop = Nobody /\ room = TRUE
  /\ looping = {} /\ missed = {}

-----------------------------------------------------------------------------
(* AicController.__init__.                                                 *)

\* A plugin that cannot be imported is reported and left out.
LoadPluginEntrypoints ==
  /\ mainPc = "plugins"
  /\ \E loaded \in SUBSET Plugins : plugins' = loaded
  /\ mainPc' = "bundles"
  /\ UNCHANGED <<launch, pending, schemas, apps, tools, manager, catalogue>>

\* The app module of the main bundle is not imported a second time, if it goes
\* by its own name: a script is "__main__", and its import finds the apps.
Loaded(b) == b = MainBundle /\ AppsOf[b] \subseteq apps
Imported(b) == Loaded(b) /\ launch # "script"

\* bootstrap_application_bundle, called by the hook of a bundle.  A commands
\* module that fails, after some of its commands, is a warning; an app module
\* that fails has registered some of its apps and ends the hook.  For two kinds
\* of failure the hook is called again without its entry point, and then loads
\* the modules by their default names, which are the main bundle's.
BootstrapApplicationBundle(hook) ==
  LET b == IF hook = Again THEN MainBundle ELSE hook IN
  /\ mainPc = "bundles" /\ hook \in pending
  /\ Again \in pending => hook = Again
  /\ \E ok \in BOOLEAN, new \in SUBSET AppsOf[b], n \in 0..Len(CommandsIn[b]) :
       /\ LET registered == Range(SubSeq(CommandsIn[b], 1, n))
          IN schemas' = Updated(schemas, [c \in registered |-> RegisterCommand(<<>>, c)[c]])
       /\ ok => new = AppsOf[b]
       /\ IF Loaded(b)
          THEN new = AppsOf[b] /\ ok = Imported(b) /\ UNCHANGED <<apps, tools>>
          ELSE /\ apps' = apps \cup new
               /\ \E order \in Orders(new) : tools' = Decorated(tools, order, schemas')
       /\ catalogue' = IF ok THEN catalogue \cup {<<"app_bundle", hook>>} ELSE catalogue
       /\ \E again \in (IF ok \/ hook = Again \/ Loaded(b) THEN {{}} ELSE {{}, {Again}}) :
            pending' = (pending \ {hook}) \cup again
  /\ UNCHANGED <<launch, mainPc, plugins, manager>>

StartRefresh ==
  /\ mainPc = "bundles" /\ pending = {}
  /\ mainPc' = "refresh" /\ pending' = apps
  /\ UNCHANGED <<launch, plugins, schemas, apps, tools, manager, catalogue>>

RefreshApp(a) ==
  /\ mainPc = "refresh" /\ a \in pending
  /\ tools' = RefreshControlTools(tools, a, schemas)
  /\ pending' = pending \ {a}
  /\ UNCHANGED <<launch, mainPc, plugins, schemas, apps, manager, catalogue>>

\* set_controller, and then the validators, which may raise.
Invalid(a) == a \in Incomplete \/ ~(Required[a] \subseteq plugins)
ValidateApps ==
  /\ mainPc = "refresh" /\ pending = {}
  /\ manager' = TRUE
  /\ mainPc' = IF \E a \in apps : Invalid(a) THEN "failed" ELSE "register"
  /\ UNCHANGED <<launch, pending, plugins, schemas, apps, tools, catalogue>>

\* connect() of the plugins, whose failure is reported only, the catalogue, and
\* the registration of every app, which may be refused.
RegisterApps ==
  /\ mainPc = "register"
  /\ catalogue' = catalogue \cup {<<"controller", "AicController">>}
                            \cup {<<"plugin", p>> : p \in plugins}
  /\ mainPc' \in {"built", "failed"}
  /\ UNCHANGED <<launch, pending, plugins, schemas, apps, tools, manager>>

Construct ==
  /\ \/ LoadPluginEntrypoints
     \/ \E hook \in Bundles \cup {Again} : BootstrapApplicationBundle(hook)
     \/ StartRefresh \/ (\E a \in Apps : RefreshApp(a)) \/ ValidateApps \/ RegisterApps
  /\ UNCHANGED <<setUpVars, states, serverVars, callVars, room, loopVars>>

-----------------------------------------------------------------------------
(* create_app, its lifespan, and the background thread.                    *)

\* The apps registered by now get REST endpoints; _run_controller_only starts.
StartServer ==
  /\ mainPc = "built" /\ setUpPc = "idle"
  /\ IF serving THEN UNCHANGED routed ELSE routed' = apps
  /\ serving' = TRUE
  /\ setUpPc' = "app" /\ toSetUp' = apps
  /\ UNCHANGED <<current, instances, injected, topicsLeft, queued, reading, states, catalogue>>

\* aic_app(): its constructor may raise, which ends the thread.
Instantiate(a) ==
  /\ setUpPc = "app" /\ a \in toSetUp
  /\ \/ /\ current' = a /\ instances' = instances \cup {a}
        /\ setUpPc' = "state"
     \/ setUpPc' = "failed" /\ UNCHANGED <<current, instances>>
  /\ UNCHANGED <<serverVars, toSetUp, injected, topicsLeft, queued, reading, states, catalogue>>

\* Mutant: the state is left out.
SetStoppedSkipped ==
  /\ setUpPc = "state"
  /\ setUpPc' = "inject"
  /\ topicsLeft' = topicsLeft \cup CellIds(current)
  /\ UNCHANGED <<serverVars, toSetUp, current, instances, injected, queued, reading, states, catalogue>>

SetStopped ==
  /\ setUpPc = "state"
  /\ states' = Updated(states, Entry(current, "stopped"))
  /\ topicsLeft' = topicsLeft \cup CellIds(current)
  /\ setUpPc' = "inject"
  /\ UNCHANGED <<serverVars, toSetUp, current, instances, injected, queued, reading, catalogue>>

\* Mutant: the state is set together with the plugins.
InjectPluginsReset ==
  /\ setUpPc = "inject"
  /\ catalogue' = catalogue \cup {<<"app", current>>}
  /\ injected' = injected \cup {current}
  /\ states' = Updated(states, Entry(current, "stopped"))
  /\ toSetUp' = toSetUp \ {current} /\ current' = "none"
  /\ setUpPc' = "app"
  /\ UNCHANGED <<serverVars, instances, topicsLeft, queued, reading>>

\* The catalogue's entry of the app, and aic_app.plugins.
InjectPlugins ==
  /\ setUpPc = "inject"
  /\ catalogue' = catalogue \cup {<<"app", current>>}
  /\ injected' = injected \cup {current}
  /\ toSetUp' = toSetUp \ {current} /\ current' = "none"
  /\ setUpPc' = "app"
  /\ UNCHANGED <<serverVars, instances, topicsLeft, queued, reading, states>>

StartTopics ==
  /\ setUpPc = "app" /\ toSetUp = {}
  /\ setUpPc' = "topics"
  /\ UNCHANGED <<serverVars, toSetUp, current, instances, injected, topicsLeft, queued, reading, states, catalogue>>

\* Mutant: only the first app of a topic gets a deque.
SetTopicOnce(t) ==
  /\ setUpPc = "topics" /\ t \in topicsLeft
  /\ \E a \in {x \in instances : t \in CellIds(x)} : queued' = queued \cup {<<t, a>>}
  /\ topicsLeft' = topicsLeft \ {t}
  /\ UNCHANGED <<serverVars, setUpPc, toSetUp, current, instances, injected, reading, states, catalogue>>

SetTopic(t) ==
  /\ setUpPc = "topics" /\ t \in topicsLeft
  /\ queued' = queued \cup {<<t, a>> : a \in {x \in instances : t \in CellIds(x)}}
  /\ topicsLeft' = topicsLeft \ {t}
  /\ UNCHANGED <<serverVars, setUpPc, toSetUp, current, instances, injected, reading, states, catalogue>>

StartReader ==
  /\ setUpPc = "topics" /\ topicsLeft = {}
  /\ setUpPc' = "done" /\ reading' = TRUE
  /\ UNCHANGED <<serverVars, toSetUp, current, instances, injected, topicsLeft, queued, states, catalogue>>

SetUp ==
  /\ \/ StartServer \/ (\E a \in Apps : Instantiate(a)) \/ SetStopped \/ InjectPlugins
     \/ StartTopics \/ (\E t \in Topics : SetTopic(t)) \/ StartReader
  /\ UNCHANGED <<loadVars, callVars, room, loopVars>>

-----------------------------------------------------------------------------
(* Requests.  A REST path exists for a routed app, an MCP tool if it is in *)
(* the registry; what is refused for want of them has no further effect.   *)

\* The tools a client calls for what it wants.
ToolsFor(k) ==
  DOMAIN tools \cap (IF k.op = "control" THEN {ControlName(k.app, c) : c \in CommandsOf(k.app)}
                     ELSE {ToolName(k.app, "set_state")})
\* What the tool does is what it was made for.
Served(k, tool) ==
  [k EXCEPT !.app = tool.app,
            !.op = CASE tool.kind = "control" -> "control"
                     [] tool.kind = "state" /\ tool.does = "set_state" /\ k.op \in States -> k.op
                     [] OTHER -> "look"]
Answering(k) ==
  IF k.front = "mcp" THEN {Served(k, tools[n]) : n \in ToolsFor(k)}
  ELSE IF k.app \in routed THEN {k} ELSE {}

\* The event loop accepts the request and hands it to the pool or keeps it.
Accept(c, k) ==
  /\ serving /\ eventLoop = Nobody
  /\ pc[c] = "idle"
  /\ \E served \in Answering(k) : call' = [call EXCEPT ![c] = served]
  /\ pc' = [pc EXCEPT ![c] = "check"]
  /\ eventLoop' = IF k.front = "mcp" THEN c ELSE Nobody
  /\ UNCHANGED <<old, states, looping, room>>

\* AicManager and update_app_state or send_manual_control: is there a
\* controller, and an instance?  A command may also be rejected.
Check(c) ==
  /\ pc[c] = "check"
  /\ LET known == manager /\ call[c].app \in instances
         next == CASE call[c].op = "control" -> {"send", "answer"}
                   [] call[c].op \in States -> {"read"}
                   [] OTHER -> {"answer"}
     IN \E p \in (IF known THEN next ELSE {"answer"}) : pc' = [pc EXCEPT ![c] = p]
  /\ UNCHANGED <<call, old, eventLoop, states, looping, room>>

\* old_state = app_states[name], a KeyError while it is not there.
ReadOldState(c) ==
  /\ pc[c] = "read"
  /\ IF call[c].app \in DOMAIN states
     THEN /\ old' = [old EXCEPT ![c] = states[call[c].app]]
          /\ pc' = [pc EXCEPT ![c] = "update"]
     ELSE pc' = [pc EXCEPT ![c] = "answer"] /\ UNCHANGED old
  /\ UNCHANGED <<call, eventLoop, states, looping, room>>

UpdateState(c) ==
  LET a == call[c].app IN
  /\ pc[c] = "update"
  /\ states' = [states EXCEPT ![a] = call[c].op]
  /\ looping' = IF call[c].op = "running" /\ old[c] = "stopped"
                THEN looping \cup {a} ELSE looping
  /\ pc' = [pc EXCEPT ![c] = "answer"]
  /\ old' = [old EXCEPT ![c] = "none"]
  /\ UNCHANGED <<call, eventLoop, room>>

\* send_string waits until the socket has room, in whichever thread it is.
SendCommand(c) ==
  /\ pc[c] = "send" /\ room
  /\ pc' = [pc EXCEPT ![c] = "answer"]
  /\ UNCHANGED <<call, old, eventLoop, states, looping, room>>

\* Mutant: the handler that ends in an error does not give the loop back.
AnswerHeld(c) ==
  /\ pc[c] = "answer"
  /\ eventLoop \in {Nobody, c}
  /\ pc' = [pc EXCEPT ![c] = "idle"]
  /\ call' = [call EXCEPT ![c] = NoCall]
  /\ eventLoop' = IF call[c].app \in instances THEN Nobody ELSE eventLoop
  /\ UNCHANGED <<old, states, looping, room>>

\* The answer is the event loop's to send.
Answer(c) ==
  /\ pc[c] = "answer"
  /\ eventLoop \in {Nobody, c}
  /\ pc' = [pc EXCEPT ![c] = "idle"]
  /\ call' = [call EXCEPT ![c] = NoCall]
  /\ eventLoop' = Nobody
  /\ UNCHANGED <<old, states, looping, room>>

Handle(c) == Check(c) \/ ReadOldState(c) \/ UpdateState(c)
Request(c) ==
  /\ Handle(c) \/ SendCommand(c) \/ Answer(c) \/ \E k \in Calls[c] : Accept(c, k)
  /\ UNCHANGED <<loadVars, catalogue, setUpVars, serverVars, missed>>

\* The command broker stops or starts taking messages.
BusFillsOrDrains ==
  /\ serving /\ room' = ~room
  /\ UNCHANGED <<loadVars, catalogue, setUpVars, states, serverVars, callVars, loopVars>>

-----------------------------------------------------------------------------
(* Loop threads.                                                           *)

LoopEnds(a) ==
  /\ a \in looping /\ states[a] = "stopped"
  /\ looping' = looping \ {a}
  /\ UNCHANGED missed

\* process() asks for a plugin that is not there yet: the thread ends.
ProcessMissesPlugin(a) ==
  /\ a \in looping /\ states[a] = "running"
  /\ Required[a] # {} /\ a \notin injected
  /\ missed' = missed \cup {a}
  /\ looping' = looping \ {a}

Loop(a) ==
  /\ LoopEnds(a) \/ ProcessMissesPlugin(a)
  /\ UNCHANGED <<loadVars, catalogue, setUpVars, states, serverVars, callVars, room>>

Next ==
  \/ Construct \/ SetUp
  \/ \E c \in Callers : Request(c)
  \/ BusFillsOrDrains
  \/ \E a \in Apps : Loop(a)

\* The threads of the process run, ZeroMQ wakes a sender when there is room, and
\* the event loop takes what waits for it in turn.  Nobody need call.
NorthSpec ==
  /\ Init /\ [][Next]_northVars
  /\ WF_northVars(Construct) /\ WF_northVars(SetUp)
  /\ \A a \in Apps : WF_northVars(Loop(a))
  /\ \A c \in Callers :
       /\ WF_northVars(Request(c) /\ Handle(c))
       /\ SF_northVars(Request(c) /\ SendCommand(c))
       /\ SF_northVars(Request(c) /\ Answer(c))

-----------------------------------------------------------------------------
\* The type of every variable.
NorthTypeOK ==
  /\ launch \in Launches
  /\ mainPc \in {"plugins", "bundles", "refresh", "register", "built", "failed"}
  /\ pending \subseteq Bundles \cup {Again} \cup Apps
  /\ plugins \subseteq Plugins /\ apps \subseteq Apps /\ routed \subseteq apps
  /\ \A c \in DOMAIN schemas : schemas[c] \in {"own", "default"}
  /\ \A n \in DOMAIN tools : tools[n].app \in Apps
  /\ manager \in BOOLEAN /\ serving \in BOOLEAN
  /\ setUpPc \in {"idle", "app", "state", "inject", "topics", "done", "failed"}
  /\ toSetUp \subseteq apps /\ current \in apps \cup {"none"}
  /\ injected \subseteq DOMAIN states /\ DOMAIN states \subseteq instances
  /\ instances \subseteq apps
  /\ \A a \in DOMAIN states : states[a] \in States
  /\ topicsLeft \subseteq Topics /\ queued \subseteq Topics \X Apps
  /\ reading \in BOOLEAN /\ room \in BOOLEAN
  /\ pc \in [Callers -> {"idle", "check", "read", "update", "send", "answer"}]
  /\ call \in [Callers -> AllCalls \cup {NoCall}]
  /\ old \in [Callers -> States \cup {"none"}]
  /\ eventLoop \in Callers \cup {Nobody}
  /\ looping \subseteq DOMAIN states /\ missed \subseteq apps

\* Once the constructor has refreshed the tools, the tool that goes by the name
\* of a command's is a control tool for a command of that name, the command's
\* own unless names collide; it has the schema that was registered and, if this
\* has a node_id, just the nodes of its own app: in whichever order modules were
\* imported, and also if an operation of some app has the name.
FitsCommand(tool, a, c) ==
  /\ tool.kind = "control" /\ tool.app = a /\ tool.does = c
  /\ c \in DOMAIN schemas =>
       /\ tool.schema.form = schemas[c]
       /\ TakesNode(c, schemas[c]) => tool.schema.nodes = NodesOf(a, c)
NameCurrent(n) ==
  /\ n \in DOMAIN tools
  /\ \E a \in apps : \E c \in CommandsOf(a) : ControlName(a, c) = n /\ FitsCommand(tools[n], a, c)
ToolsCurrent ==
  mainPc \in {"register", "built"} =>
    \A a \in apps : \A c \in CommandsOf(a) : NameCurrent(ControlName(a, c))

\* The background thread never takes back the state a request has set.
AcceptedStateKept ==
  [][\A a \in DOMAIN states : states'[a] # states[a] =>
       \E c \in Callers : pc[c] = "update" /\ call[c].app = a /\ call[c].op = states'[a]]_northVars

\* Once measurements are read every app that was registered has its plugins, a
\* deque for each of its nodes, and its entry in the catalogue, and no process()
\* misses a plugin any more.
SetUpComplete ==
  [][reading =>
       /\ \A a \in apps : /\ a \in injected /\ <<"app", a>> \in catalogue
                          /\ \A t \in CellIds(a) : <<t, a>> \in queued
       /\ missed' = missed]_northVars

\* As long as the command broker takes messages again and again, every request
\* is answered, although an MCP request may hold the event loop while it waits.
CallsAnswered ==
  []<>room => \A c \in Callers : pc[c] # "idle" ~> pc[c] = "idle"

\* If nothing fails, an app that clients keep asking for is started some time.
Asked(a) == \E c \in Callers : pc[c] = "check" /\ call[c].app = a /\ call[c].op = "running"
StartsEventually ==
  ([](setUpPc # "failed" /\ mainPc # "failed") /\ []<>room) =>
    \A a \in Apps : []<>Asked(a) => <>(a \in DOMAIN states /\ states[a] = "running")
=============================================================================
