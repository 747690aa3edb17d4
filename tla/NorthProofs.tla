----------------------------- MODULE NorthProofs -----------------------------
(***************************************************************************)
(* The tools, the states and the set-up of applications, for any bundles,  *)
(* plugins, clients and requests, and whatever fails on the way.           *)
(***************************************************************************)
EXTENDS Northbound, FiniteSetTheorems, TLAPS

\* A request past its first look is one for a state, of an application that is
\* there; its update finds the application's state.
CallsKnown ==
  \A c \in Callers :
    /\ pc[c] \in {"read", "update"} => call[c].op \in States
    /\ pc[c] = "update" => call[c].app \in DOMAIN states

\* The tools that go by the names of a refreshed application's commands.
Current(a) == \A c \in CommandsOf(a) : NameCurrent(ControlName(a, c))
Refreshed ==
  /\ mainPc = "refresh" => pending \subseteq apps /\ \A a \in apps \ pending : Current(a)
  /\ mainPc \in {"register", "built"} => \A a \in apps : Current(a)

(***************************************************************************)
(* The background thread starts when the constructor has ended, so that    *)
(* there are no more applications than it goes through.  One it has not    *)
(* come to has no instance, and so no state a request might have set.      *)
(***************************************************************************)
InHand == IF setUpPc \in {"state", "inject"} THEN {current} ELSE {}
Covered(a) ==
  /\ a \in injected /\ <<"app", a>> \in catalogue
  /\ \A t \in CellIds(a) : t \in topicsLeft \/ <<t, a>> \in queued
SetUpInOrder ==
  /\ IF setUpPc = "idle" THEN instances = {} ELSE mainPc = "built"
  /\ InHand \subseteq toSetUp /\ toSetUp \cap instances = InHand
  /\ setUpPc = "state" => current \notin DOMAIN states
  /\ setUpPc = "inject" => current \in DOMAIN states /\ CellIds(current) \subseteq topicsLeft
  /\ setUpPc # "idle" => \A a \in apps \ toSetUp : Covered(a)
  /\ setUpPc \in {"topics", "done"} => toSetUp = {}
  /\ reading => setUpPc = "done" /\ topicsLeft = {}

NorthInv == NorthTypeOK /\ CallsKnown /\ Refreshed /\ SetUpInOrder

USE NorthboundAssumption

-----------------------------------------------------------------------------
(* The tools of an application and their names.                            *)

\* Of finitely many numbers one is the greatest.
LEMMA Greatest ==
  ASSUME NEW n \in Nat, NEW S \in SUBSET (1..n), S # {}
  PROVE  \E m \in S : \A k \in S : k <= m
<1> DEFINE R == OpToRel(<, Nat)
           T == {n - k : k \in S}
<1>1. IsWellFoundedOn(R, Nat)
  BY NatLessThanWellFounded
<1>2. T \subseteq Nat /\ T # {}
  <2>1. \A k \in S : k \in 1..n /\ n - k \in Nat
    OBVIOUS
  <2>2. PICK k \in S : TRUE
    OBVIOUS
  <2>3. n - k \in T
    OBVIOUS
  <2>4. T \subseteq Nat
    BY <2>1
  <2>5. QED
    BY <2>3, <2>4
<1>3. \A x, y \in Nat : <<y, x>> \in R <=> y < x
  BY DEF OpToRel
<1> HIDE DEF R, T
<1>4. PICK x \in T : \A y \in T : <<y, x>> \notin R
  BY <1>1, <1>2, WFMin
<1>5. PICK m \in S : x = n - m
  BY DEF T
<1>6. ASSUME NEW k \in S
      PROVE  k <= m
  <2>1. n - k \in T /\ n - k \in Nat /\ x \in Nat
    BY <1>2 DEF T
  <2>2. ~(n - k < x)
    BY <1>2, <1>3, <1>4, <2>1
  <2>3. QED
    BY <1>5, <2>2
<1>7. QED
  BY <1>6

\* A tool is the application's for which it was made.
LEMMA ToolApps ==
  ASSUME NEW a, NEW ss, NEW n \in DOMAIN GenerateToolsForApp(<<>>, a, ss)
  PROVE  GenerateToolsForApp(<<>>, a, ss)[n].app = a
<1> DEFINE Of(d) == \A m \in DOMAIN d : d[m].app = a
<1>1. Of(ControlTools(a, ss))
  BY DEF ControlTools, Tool
<1>2. Of(MeasurementTools(a))
  BY DEF MeasurementTools, Entry, Tool
<1>3. \A does : Of(Entry(ToolName(a, does), Tool("state", a, does, Form("own"))))
  BY DEF Entry, Tool
<1>4. Of(AgentTools(a))
  BY DEF AgentTools, Tool
<1>5. \A d, e : Of(d) /\ Of(e) => Of(Updated(d, e))
  BY DEF Updated
<1>6. Of(<<>>)
  OBVIOUS
<1>7. Of(StateTools(a))
  <2> HIDE DEF Of
  <2>1. QED
    BY <1>3, <1>5 DEF StateTools
<1> HIDE DEF Of
<1>8. Of(GenerateToolsForApp(<<>>, a, ss))
  BY <1>1, <1>2, <1>4, <1>5, <1>6, <1>7 DEF GenerateToolsForApp
<1>9. QED
  BY <1>8 DEF Of

LEMMA DecoratedApps ==
  ASSUME NEW ts, NEW as \in SUBSET Apps, IsFiniteSet(as), NEW order \in Orders(as), NEW ss,
         \A n \in DOMAIN ts : ts[n].app \in Apps,
         NEW n \in DOMAIN Decorated(ts, order, ss)
  PROVE  Decorated(ts, order, ss)[n].app \in Apps
<1> DEFINE made(a) == GenerateToolsForApp(<<>>, a, ss)
           makers == {a \in DOMAIN order : n \in DOMAIN made(a)}
           last == CHOOSE a \in makers : \A b \in makers : order[b] <= order[a]
           names == UNION {DOMAIN made(a) : a \in DOMAIN order}
<1>1. /\ DOMAIN Decorated(ts, order, ss) = DOMAIN ts \cup names
      /\ Decorated(ts, order, ss)[n] = IF n \in names THEN made(last)[n] ELSE ts[n]
  BY DEF Decorated, Updated
<1>2. CASE n \in names
  <2>1. order \in [as -> 1..Cardinality(as)] /\ DOMAIN order = as
    BY DEF Orders, Bijection, Injection
  <2>2. Cardinality(as) \in Nat
    BY FS_CardinalityType
  <2>3. makers # {} /\ makers \subseteq as
    <3>1. PICK a \in DOMAIN order : n \in DOMAIN made(a)
      BY <1>2
    <3>2. a \in makers
      BY <3>1
    <3>3. QED
      BY <2>1, <3>2
  <2> DEFINE S == {order[a] : a \in makers}
  <2> HIDE DEF makers
  <2>4. S \in SUBSET (1..Cardinality(as)) /\ S # {}
    <3>1. \A a \in makers : order[a] \in 1..Cardinality(as)
      BY <2>1, <2>3
    <3>2. PICK a \in makers : TRUE
      BY <2>3
    <3>3. order[a] \in S
      OBVIOUS
    <3>4. QED
      BY <3>1, <3>3
  <2>5. PICK m \in S : \A k \in S : k <= m
    BY <2>2, <2>4, Greatest
  <2>6. \E a \in makers : \A b \in makers : order[b] <= order[a]
    BY <2>5
  <2>7. last \in makers
    BY <2>6
  <2> HIDE DEF last
  <2>8. last \in Apps /\ n \in DOMAIN made(last)
    BY <2>1, <2>7 DEF makers
  <2>9. made(last)[n].app = last
    BY <2>8, ToolApps
  <2>10. QED
    BY <1>1, <1>2, <2>8, <2>9
<1>3. CASE n \notin names
  BY <1>1, <1>3
<1>4. QED
  BY <1>2, <1>3

\* A control tool fits a command of its application, by whose name it goes.
LEMMA ControlToolFits ==
  ASSUME NEW a, NEW n \in DOMAIN ControlTools(a, schemas)
  PROVE  \E c \in CommandsOf(a) :
           ControlName(a, c) = n /\ FitsCommand(ControlTools(a, schemas)[n], a, c)
<1> DEFINE c == CHOOSE d \in CommandsOf(a) : ControlName(a, d) = n
<1>1. c \in CommandsOf(a) /\ ControlName(a, c) = n
  BY DEF ControlTools
<1>2. ControlTools(a, schemas)[n] =
        Tool("control", a, c, GetCommandSchema(c, NodesOf(a, c), schemas))
  BY DEF ControlTools
<1> HIDE DEF c
<1>3. FitsCommand(ControlTools(a, schemas)[n], a, c)
  BY <1>2 DEF FitsCommand, Tool, GetCommandSchema
<1>4. QED
  BY <1>1, <1>3

LEMMA InitInv == Init => NorthInv
<1> SUFFICES ASSUME Init
             PROVE  NorthInv
  OBVIOUS
<1>1. apps \subseteq Apps /\ AppsOf[MainBundle] \subseteq Apps
  BY DEF Init, Apps
<1>2. apps \in SUBSET Apps /\ \A n \in DOMAIN tools : tools[n].app \in Apps
  <2>1. IsFiniteSet(AppsOf[MainBundle]) /\ IsFiniteSet({})
    BY FS_EmptySet
  <2>2. IsFiniteSet(apps)
    BY <2>1 DEF Init
  <2>3. PICK order \in Orders(apps) : tools = Decorated(<<>>, order, <<>>)
    BY DEF Init
  <2>4. QED
    BY <1>1, <2>2, <2>3, DecoratedApps
<1>3. NorthTypeOK
  <2>1. /\ DOMAIN schemas = {} /\ DOMAIN states = {} /\ routed \subseteq apps
        /\ instances = {} /\ looping = {} /\ injected = {} /\ missed = {}
    BY DEF Init
  <2>2. /\ launch \in Launches /\ mainPc = "plugins" /\ pending = Bundles
        /\ plugins = {} /\ manager = FALSE /\ serving = (launch = "server") /\ setUpPc = "idle"
        /\ toSetUp = {} /\ current = "none" /\ topicsLeft = {} /\ queued = {}
        /\ reading = FALSE /\ room = TRUE /\ eventLoop = Nobody
    BY DEF Init
  <2>3. /\ pc \in [Callers -> {"idle", "check", "read", "update", "send", "answer"}]
        /\ call \in [Callers -> AllCalls \cup {NoCall}]
        /\ old \in [Callers -> States \cup {"none"}]
    <3>1. call = [c \in Callers |-> NoCall]
      BY DEF Init
    <3>2. call \in [Callers -> AllCalls \cup {NoCall}]
      BY <3>1
    <3>3. QED
      BY <3>2 DEF Init
  <2>4. QED
    BY <1>1, <1>2, <2>1, <2>2, <2>3 DEF NorthTypeOK
<1>4. CallsKnown /\ Refreshed /\ SetUpInOrder
  BY DEF Init, CallsKnown, Refreshed, SetUpInOrder, InHand
<1>5. QED
  BY <1>3, <1>4 DEF NorthInv

-----------------------------------------------------------------------------
(* The constructor.                                                        *)

\* It has ended when the set-up begins.
LEMMA ConstructKeeps ==
  ASSUME NorthInv, Construct
  PROVE  /\ setUpPc = "idle" /\ CallsKnown' /\ SetUpInOrder'
         /\ UNCHANGED <<setUpPc, toSetUp, current, instances, injected, topicsLeft, queued,
                        reading, states, routed, serving, pc, call, old, eventLoop, room,
                        looping, missed, launch>>
<1>1. UNCHANGED <<setUpPc, toSetUp, current, instances, injected, topicsLeft, queued,
                  reading, states, routed, serving, pc, call, old, eventLoop, room,
                  looping, missed, launch>>
  BY DEF Construct, setUpVars, serverVars, callVars, loopVars, LoadPluginEntrypoints,
         BootstrapApplicationBundle, StartRefresh, RefreshApp, ValidateApps, RegisterApps
<1>2. mainPc # "built"
  BY DEF Construct, LoadPluginEntrypoints, BootstrapApplicationBundle, StartRefresh,
         RefreshApp, ValidateApps, RegisterApps
<1>3. setUpPc = "idle"
  BY <1>2 DEF NorthInv, SetUpInOrder
<1>4. CallsKnown'
  BY <1>1 DEF NorthInv, CallsKnown
<1>5. SetUpInOrder'
  BY <1>1, <1>3 DEF NorthInv, SetUpInOrder, InHand
<1>6. QED
  BY <1>1, <1>3, <1>4, <1>5

LEMMA BootstrapInv ==
  ASSUME NorthInv, NEW hook \in Bundles \cup {Again}, BootstrapApplicationBundle(hook), Construct
  PROVE  NorthInv'
<1> DEFINE b == IF hook = Again THEN MainBundle ELSE hook
           forms(n) == LET registered == Range(SubSeq(CommandsIn[b], 1, n))
                       IN  [c \in registered |-> RegisterCommand(<<>>, c)[c]]
<1>1. /\ mainPc = "bundles" /\ UNCHANGED <<launch, mainPc, plugins, manager>>
  BY DEF BootstrapApplicationBundle
<1>2. PICK ok \in BOOLEAN, new \in SUBSET AppsOf[b], n \in 0..Len(CommandsIn[b]) :
        /\ schemas' = Updated(schemas, forms(n))
        /\ IF Loaded(b) THEN new = AppsOf[b] /\ UNCHANGED <<apps, tools>>
           ELSE /\ apps' = apps \cup new
                /\ \E order \in Orders(new) : tools' = Decorated(tools, order, schemas')
        /\ \E again \in {{}, {Again}} : pending' = (pending \ {hook}) \cup again
  BY DEF BootstrapApplicationBundle
<1>3. \A c \in DOMAIN schemas' : schemas'[c] \in {"own", "default"}
  <2>1. \A c \in DOMAIN forms(n) : forms(n)[c] \in {"own", "default"}
    BY DEF RegisterCommand, Updated, Entry
  <2>2. \A c \in DOMAIN schemas : schemas[c] \in {"own", "default"}
    BY DEF NorthInv, NorthTypeOK
  <2> HIDE DEF forms
  <2>3. QED
    BY <1>2, <2>1, <2>2 DEF Updated
<1>4. b \in Bundles
  OBVIOUS
<1> HIDE DEF b, forms
<1>5. new \in SUBSET Apps /\ IsFiniteSet(new)
  BY <1>4, FS_Subset DEF Apps
<1>6. apps \subseteq apps' /\ apps' \subseteq Apps
  BY <1>2, <1>5 DEF NorthInv, NorthTypeOK
<1>7. \A m \in DOMAIN tools' : tools'[m].app \in Apps
  <2>1. \A m \in DOMAIN tools : tools[m].app \in Apps
    BY DEF NorthInv, NorthTypeOK
  <2>2. CASE Loaded(b)
    BY <1>2, <2>1, <2>2
  <2>3. CASE ~Loaded(b)
    <3>1. PICK order \in Orders(new) : tools' = Decorated(tools, order, schemas')
      BY <1>2, <2>3
    <3>2. QED
      BY <1>5, <2>1, <3>1, DecoratedApps
  <2>4. QED
    BY <2>2, <2>3
<1>8. NorthTypeOK'
  BY <1>1, <1>2, <1>3, <1>6, <1>7, ConstructKeeps DEF NorthInv, NorthTypeOK
<1>9. Refreshed'
  BY <1>1 DEF Refreshed
<1>10. QED
  BY <1>8, <1>9, ConstructKeeps DEF NorthInv

\* A refresh gives each of its names a tool of its own application, and leaves
\* the tools of other names.
LEMMA RefreshInv ==
  ASSUME NorthInv, NEW a \in Apps, RefreshApp(a), Construct
  PROVE  NorthInv'
<1> DEFINE new == ControlTools(a, schemas)
<1>1. /\ mainPc = "refresh" /\ a \in pending /\ pending' = pending \ {a}
      /\ tools' = RefreshControlTools(tools, a, schemas)
      /\ UNCHANGED <<launch, mainPc, plugins, schemas, apps, manager>>
  BY DEF RefreshApp
<1>2. a \in apps /\ pending \subseteq apps /\ \A x \in apps \ pending : Current(x)
  BY <1>1 DEF NorthInv, Refreshed
<1>3. \A c \in CommandsOf(a) : ControlName(a, c) \in DOMAIN new
  BY DEF ControlTools
<1>4. \A n \in DOMAIN new : new[n].app = a
  BY DEF ControlTools, Tool
<1>5. \A n \in DOMAIN new : \E c \in CommandsOf(a) :
        ControlName(a, c) = n /\ FitsCommand(new[n], a, c)
  BY ControlToolFits
<1> HIDE DEF new
<1>6. /\ DOMAIN tools' = DOMAIN tools \cup DOMAIN new
      /\ \A n \in DOMAIN tools' : tools'[n] = IF n \in DOMAIN new THEN new[n] ELSE tools[n]
  BY <1>1 DEF RefreshControlTools, Updated, new
<1>7. NorthTypeOK'
  <2>1. \A n \in DOMAIN tools' : tools'[n].app \in Apps
    BY <1>4, <1>6 DEF NorthInv, NorthTypeOK
  <2>2. QED
    BY <1>1, <2>1, ConstructKeeps DEF NorthInv, NorthTypeOK
<1>8. ASSUME NEW n, NameCurrent(n) \/ n \in DOMAIN new
      PROVE  NameCurrent(n)'
  <2>1. CASE n \in DOMAIN new
    <3>1. PICK c \in CommandsOf(a) : ControlName(a, c) = n /\ FitsCommand(new[n], a, c)
      BY <1>5, <2>1
    <3>2. FitsCommand(tools[n], a, c)'
      BY <1>1, <1>6, <2>1, <3>1 DEF FitsCommand
    <3>3. QED
      BY <1>1, <1>2, <1>6, <2>1, <3>1, <3>2 DEF NameCurrent
  <2>2. CASE n \notin DOMAIN new
    <3>1. NameCurrent(n)
      BY <1>8, <2>2
    <3>2. n \in DOMAIN tools' /\ tools'[n] = tools[n]
      BY <1>6, <2>2, <3>1 DEF NameCurrent
    <3>3. QED
      BY <1>1, <3>1, <3>2 DEF NameCurrent, FitsCommand
  <2>3. QED
    BY <2>1, <2>2
<1>9. Current(a)'
  BY <1>3, <1>8 DEF Current
<1>10. \A x \in apps \ pending : Current(x)'
  BY <1>2, <1>8 DEF Current
<1>11. Refreshed'
  BY <1>1, <1>2, <1>9, <1>10 DEF Refreshed
<1>12. QED
  BY <1>7, <1>11, ConstructKeeps DEF NorthInv

LEMMA ConstructInv == NorthInv /\ Construct => NorthInv'
<1> SUFFICES ASSUME NorthInv, Construct
             PROVE  NorthInv'
  OBVIOUS
<1>1. CASE \E hook \in Bundles \cup {Again} : BootstrapApplicationBundle(hook)
  BY <1>1, BootstrapInv
<1>2. CASE \E a \in Apps : RefreshApp(a)
  BY <1>2, RefreshInv
<1>3. CASE LoadPluginEntrypoints
  <2>1. NorthTypeOK' /\ Refreshed'
    BY <1>3, ConstructKeeps DEF LoadPluginEntrypoints, NorthInv, NorthTypeOK, Refreshed
  <2>2. QED
    BY <2>1, ConstructKeeps DEF NorthInv
<1>4. CASE StartRefresh
  <2>1. NorthTypeOK' /\ Refreshed'
    BY <1>4, ConstructKeeps DEF StartRefresh, NorthInv, NorthTypeOK, Refreshed
  <2>2. QED
    BY <2>1, ConstructKeeps DEF NorthInv
<1>5. CASE ValidateApps \/ RegisterApps
  <2>1. /\ mainPc \in {"refresh", "register"} /\ (mainPc = "refresh" => pending = {})
        /\ mainPc' \in {"register", "built", "failed"} /\ manager' \in BOOLEAN
        /\ UNCHANGED <<pending, plugins, schemas, apps, tools>>
    BY <1>5 DEF ValidateApps, RegisterApps, NorthInv, NorthTypeOK
  <2>2. NorthTypeOK'
    BY <2>1, ConstructKeeps DEF NorthInv, NorthTypeOK
  <2>3. \A a \in apps : Current(a) /\ Current(a)'
    BY <2>1 DEF NorthInv, Refreshed, Current, NameCurrent, FitsCommand
  <2>4. Refreshed'
    BY <2>1, <2>3 DEF Refreshed
  <2>5. QED
    BY <2>2, <2>4, ConstructKeeps DEF NorthInv
<1>6. QED
  BY <1>1, <1>2, <1>3, <1>4, <1>5 DEF Construct

-----------------------------------------------------------------------------
(* The background thread.                                                  *)

\* What it does not touch, and what it needs of the constructor's outcome.
LEMMA SetUpKeeps ==
  ASSUME NorthInv, SetUp
  PROVE  /\ UNCHANGED <<launch, mainPc, pending, plugins, schemas, apps, tools, manager,
                        pc, call, old, eventLoop, room, looping, missed>>
         /\ Refreshed' /\ (DOMAIN states \subseteq DOMAIN states' => CallsKnown')
<1>1. UNCHANGED <<launch, mainPc, pending, plugins, schemas, apps, tools, manager,
                  pc, call, old, eventLoop, room, looping, missed>>
  BY DEF SetUp, loadVars, callVars, loopVars
<1>2. Refreshed'
  BY <1>1 DEF NorthInv, Refreshed, Current, NameCurrent, FitsCommand
<1>3. DOMAIN states \subseteq DOMAIN states' => CallsKnown'
  BY <1>1 DEF NorthInv, CallsKnown
<1>4. QED
  BY <1>1, <1>2, <1>3

LEMMA SetUpInv == NorthInv /\ SetUp => NorthInv'
<1> SUFFICES ASSUME NorthInv, SetUp
             PROVE  NorthInv'
  OBVIOUS
<1>1. UNCHANGED <<launch, mainPc, pending, plugins, schemas, apps, tools, manager,
                  pc, call, old, eventLoop, room, looping, missed>>
  BY SetUpKeeps
<1>2. NorthTypeOK /\ SetUpInOrder
  BY DEF NorthInv
<1>3. CASE StartServer
  <2>1. /\ mainPc = "built" /\ setUpPc = "idle" /\ setUpPc' = "app" /\ toSetUp' = apps
        /\ routed' \in {routed, apps} /\ serving' = TRUE
        /\ UNCHANGED <<current, instances, injected, topicsLeft, queued, reading, states, catalogue>>
    BY <1>3 DEF StartServer
  <2>2. NorthTypeOK'
    BY <1>1, <1>2, <2>1 DEF NorthTypeOK
  <2>3. SetUpInOrder'
    BY <1>1, <1>2, <2>1 DEF SetUpInOrder, InHand
  <2>4. QED
    BY <2>1, <2>2, <2>3, SetUpKeeps DEF NorthInv
<1>4. CASE \E a \in Apps : Instantiate(a)
  <2>1. PICK a \in Apps : Instantiate(a)
    BY <1>4
  <2>2. /\ setUpPc = "app" /\ a \in toSetUp
        /\ \/ setUpPc' = "state" /\ current' = a /\ instances' = instances \cup {a}
           \/ setUpPc' = "failed" /\ UNCHANGED <<current, instances>>
        /\ UNCHANGED <<routed, serving, toSetUp, injected, topicsLeft, queued, reading, states,
                       catalogue>>
    BY <2>1 DEF Instantiate, serverVars
  <2>3. a \in apps
    BY <1>2, <2>2 DEF NorthTypeOK
  <2>4. NorthTypeOK'
    BY <1>1, <1>2, <2>2, <2>3 DEF NorthTypeOK
  <2>5. a \notin instances /\ a \notin DOMAIN states
    BY <1>2, <2>2 DEF SetUpInOrder, InHand, NorthTypeOK
  <2>6. \A x \in apps \ toSetUp : Covered(x)'
    BY <1>2, <2>2 DEF SetUpInOrder, Covered
  <2>7. SetUpInOrder'
    BY <1>1, <1>2, <2>2, <2>5, <2>6 DEF SetUpInOrder, InHand
  <2>8. QED
    BY <2>2, <2>4, <2>7, SetUpKeeps DEF NorthInv
<1>5. CASE SetStopped
  <2>1. /\ setUpPc = "state" /\ setUpPc' = "inject"
        /\ states' = Updated(states, Entry(current, "stopped"))
        /\ topicsLeft' = topicsLeft \cup CellIds(current)
        /\ UNCHANGED <<routed, serving, toSetUp, current, instances, injected, queued, reading,
                       catalogue>>
    BY <1>5 DEF SetStopped, serverVars
  <2>2. /\ DOMAIN states' = DOMAIN states \cup {current} /\ states'[current] = "stopped"
        /\ \A a \in DOMAIN states \ {current} : states'[a] = states[a]
    BY <2>1 DEF Updated, Entry
  <2>3. current \in instances /\ current \in apps /\ current \in Apps
    BY <1>2, <2>1 DEF SetUpInOrder, InHand, NorthTypeOK
  <2>4. CellIds(current) \subseteq Topics
    BY <2>3 DEF Topics
  <2>5. NorthTypeOK'
    BY <1>1, <1>2, <2>1, <2>2, <2>3, <2>4 DEF NorthTypeOK, States
  <2>6. \A x \in apps \ toSetUp : Covered(x)'
    BY <1>2, <2>1 DEF SetUpInOrder, Covered
  <2>7. SetUpInOrder'
    BY <1>1, <1>2, <2>1, <2>2, <2>6 DEF SetUpInOrder, InHand
  <2>8. QED
    BY <2>2, <2>5, <2>7, SetUpKeeps DEF NorthInv
<1>6. CASE InjectPlugins
  <2>1. /\ setUpPc = "inject" /\ setUpPc' = "app"
        /\ catalogue' = catalogue \cup {<<"app", current>>}
        /\ injected' = injected \cup {current}
        /\ toSetUp' = toSetUp \ {current} /\ current' = "none"
        /\ UNCHANGED <<routed, serving, instances, topicsLeft, queued, reading, states>>
    BY <1>6 DEF InjectPlugins, serverVars
  <2>2. current \in DOMAIN states /\ CellIds(current) \subseteq topicsLeft
    BY <1>2, <2>1 DEF SetUpInOrder
  <2>3. NorthTypeOK'
    BY <1>1, <1>2, <2>1, <2>2 DEF NorthTypeOK
  <2>4. \A x \in apps \ toSetUp' : Covered(x)'
    BY <1>2, <2>1, <2>2 DEF SetUpInOrder, Covered
  <2>5. SetUpInOrder'
    BY <1>1, <1>2, <2>1, <2>4 DEF SetUpInOrder, InHand
  <2>6. QED
    BY <2>1, <2>3, <2>5, SetUpKeeps DEF NorthInv
<1>7. CASE StartTopics
  <2>1. /\ setUpPc = "app" /\ toSetUp = {} /\ setUpPc' = "topics"
        /\ UNCHANGED <<routed, serving, toSetUp, current, instances, injected, topicsLeft, queued,
                       reading, states, catalogue>>
    BY <1>7 DEF StartTopics, serverVars
  <2>2. NorthTypeOK'
    BY <1>1, <1>2, <2>1 DEF NorthTypeOK
  <2>3. SetUpInOrder'
    BY <1>1, <1>2, <2>1 DEF SetUpInOrder, InHand, Covered
  <2>4. QED
    BY <2>1, <2>2, <2>3, SetUpKeeps DEF NorthInv
<1>8. CASE \E t \in Topics : SetTopic(t)
  <2>1. PICK t \in Topics : SetTopic(t)
    BY <1>8
  <2>2. /\ setUpPc = "topics" /\ t \in topicsLeft
        /\ queued' = queued \cup {<<t, a>> : a \in {x \in instances : t \in CellIds(x)}}
        /\ topicsLeft' = topicsLeft \ {t}
        /\ UNCHANGED <<routed, serving, setUpPc, toSetUp, current, instances, injected, reading,
                       states, catalogue>>
    BY <2>1 DEF SetTopic, serverVars
  <2>3. NorthTypeOK'
    BY <1>1, <1>2, <2>2 DEF NorthTypeOK
\* Every application that needs the topic has its instance by now.
  <2>4. ASSUME NEW x \in apps \ toSetUp
        PROVE  Covered(x)'
    <3>1. x \in instances /\ Covered(x)
      BY <1>2, <2>2 DEF SetUpInOrder, Covered, NorthTypeOK
    <3>2. ASSUME NEW s \in CellIds(x)
          PROVE  s \in topicsLeft' \/ <<s, x>> \in queued'
      BY <2>2, <3>1 DEF Covered
    <3>3. QED
      BY <2>2, <3>1, <3>2 DEF Covered
  <2>5. SetUpInOrder'
    BY <1>1, <1>2, <2>2, <2>4 DEF SetUpInOrder, InHand
  <2>6. QED
    BY <2>2, <2>3, <2>5, SetUpKeeps DEF NorthInv
<1>9. CASE StartReader
  <2>1. /\ setUpPc = "topics" /\ topicsLeft = {} /\ setUpPc' = "done" /\ reading' = TRUE
        /\ UNCHANGED <<routed, serving, toSetUp, current, instances, injected, topicsLeft, queued,
                       states, catalogue>>
    BY <1>9 DEF StartReader, serverVars
  <2>2. NorthTypeOK'
    BY <1>1, <1>2, <2>1 DEF NorthTypeOK
  <2>3. SetUpInOrder'
    BY <1>1, <1>2, <2>1 DEF SetUpInOrder, InHand, Covered
  <2>4. QED
    BY <2>1, <2>2, <2>3, SetUpKeeps DEF NorthInv
<1>10. QED
  BY <1>3, <1>4, <1>5, <1>6, <1>7, <1>8, <1>9 DEF SetUp

-----------------------------------------------------------------------------
(* Requests.                                                               *)

LEMMA RequestInv ==
  ASSUME NorthInv, NEW c \in Callers, Request(c)
  PROVE  NorthInv'
<1>1. /\ UNCHANGED <<launch, mainPc, pending, plugins, schemas, apps, tools, manager, catalogue,
                     setUpPc, toSetUp, current, instances, injected, topicsLeft, queued, reading,
                     routed, serving, missed>>
      /\ Check(c) \/ ReadOldState(c) \/ UpdateState(c) \/ SendCommand(c) \/ Answer(c)
         \/ \E k \in Calls[c] : Accept(c, k)
  BY DEF Request, Handle, loadVars, setUpVars, serverVars
<1>2. NorthTypeOK /\ CallsKnown /\ Refreshed /\ SetUpInOrder
  BY DEF NorthInv
<1>3. Refreshed'
  BY <1>1, <1>2 DEF Refreshed, Current, NameCurrent, FitsCommand
\* What a request does to the variables, case by case.
<1>4. /\ DOMAIN states' = DOMAIN states /\ \A a \in DOMAIN states : states'[a] \in States
      /\ looping' \subseteq DOMAIN states /\ room' = room
      /\ eventLoop' \in Callers \cup {Nobody}
      /\ pc' \in [Callers -> {"idle", "check", "read", "update", "send", "answer"}]
      /\ call' \in [Callers -> AllCalls \cup {NoCall}]
      /\ old' \in [Callers -> States \cup {"none"}]
      /\ \A d \in Callers \ {c} : pc'[d] = pc[d] /\ call'[d] = call[d]
      /\ pc'[c] \in {"read", "update"} => call'[c].op \in States
      /\ pc'[c] = "update" => call'[c].app \in DOMAIN states
  <2>0. \A k \in Calls[c] : Answering(k) \subseteq AllCalls
    <3>1. ASSUME NEW k \in Calls[c], NEW tool, tool.app \in Apps
          PROVE  Served(k, tool) \in AllCalls
      <4> DEFINE op == CASE tool.kind = "control" -> "control"
                         [] tool.kind = "state" /\ tool.does = "set_state" /\ k.op \in States -> k.op
                         [] OTHER -> "look"
      <4>1. op \in States \cup {"control", "look"}
        OBVIOUS
      <4>2. Served(k, tool) = [k EXCEPT !.app = tool.app, !.op = op]
        BY DEF Served
      <4> HIDE DEF op
      <4>3. k \in [front : {"rest", "mcp"}, app : Apps, op : States \cup {"control"}]
        OBVIOUS
      <4>4. QED
        BY <3>1, <4>1, <4>2, <4>3 DEF AllCalls
    <3>2. ASSUME NEW k \in Calls[c]
          PROVE  k \in AllCalls
      BY DEF AllCalls
    <3>3. \A k \in Calls[c] : \A n \in ToolsFor(k) : tools[n].app \in Apps
      BY <1>2 DEF NorthTypeOK, ToolsFor
    <3>4. QED
      BY <3>1, <3>2, <3>3 DEF Answering
  <2> USE <1>2, <2>0 DEF NorthTypeOK, CallsKnown
  <2>1. CASE \E k \in Calls[c] : Accept(c, k)
    BY <2>1 DEF Accept
  <2>2. CASE Check(c)
    BY <2>2 DEF Check
  <2>3. CASE ReadOldState(c)
    BY <2>3 DEF ReadOldState
  <2>4. CASE UpdateState(c)
    BY <2>4 DEF UpdateState
  <2>5. CASE SendCommand(c)
    BY <2>5 DEF SendCommand
  <2>6. CASE Answer(c)
    BY <2>6 DEF Answer
  <2>7. QED
    BY <1>1, <2>1, <2>2, <2>3, <2>4, <2>5, <2>6
<1>5. NorthTypeOK'
  BY <1>1, <1>2, <1>4 DEF NorthTypeOK
<1>6. CallsKnown'
  BY <1>2, <1>4 DEF CallsKnown
<1>7. SetUpInOrder'
  BY <1>1, <1>2, <1>4 DEF SetUpInOrder, InHand, Covered
<1>8. QED
  BY <1>3, <1>5, <1>6, <1>7 DEF NorthInv

LEMMA OtherInv ==
  ASSUME NorthInv, BusFillsOrDrains \/ (\E a \in Apps : Loop(a)) \/ UNCHANGED northVars
  PROVE  NorthInv'
<1>1. /\ UNCHANGED <<launch, mainPc, pending, plugins, schemas, apps, tools, manager, catalogue,
                     setUpPc, toSetUp, current, instances, injected, topicsLeft, queued, reading,
                     states, routed, serving, pc, call, old, eventLoop>>
      /\ room' \in BOOLEAN /\ looping' \subseteq looping /\ missed' \subseteq missed \cup looping
  BY DEF NorthInv, NorthTypeOK, BusFillsOrDrains, Loop, LoopEnds, ProcessMissesPlugin, northVars,
         loadVars, setUpVars, serverVars, callVars, loopVars
<1>2. NorthTypeOK'
  BY <1>1 DEF NorthInv, NorthTypeOK
<1>3. CallsKnown' /\ Refreshed'
  BY <1>1 DEF NorthInv, CallsKnown, Refreshed, Current, NameCurrent, FitsCommand
<1>4. SetUpInOrder'
  BY <1>1 DEF NorthInv, SetUpInOrder, InHand, Covered
<1>5. QED
  BY <1>2, <1>3, <1>4 DEF NorthInv

LEMMA StepInv == NorthInv /\ [Next]_northVars => NorthInv'
BY ConstructInv, SetUpInv, RequestInv, OtherInv DEF Next

LEMMA Invariance == NorthSpec => []NorthInv
BY InitInv, StepInv, PTL DEF NorthSpec

-----------------------------------------------------------------------------
\* Every variable keeps its type.
THEOREM TypeCorrect == NorthSpec => []NorthTypeOK
<1>1. NorthInv => NorthTypeOK
  BY DEF NorthInv
<1>2. QED
  BY <1>1, Invariance, PTL

\* The tool of every registered command is current once the constructor has
\* refreshed the tools, in whichever order modules were imported.
THEOREM ToolsRefreshed == NorthSpec => []ToolsCurrent
<1>1. NorthInv => ToolsCurrent
  BY DEF NorthInv, Refreshed, Current, ToolsCurrent
<1>2. QED
  BY <1>1, Invariance, PTL

\* Only a request changes the state an application has, to what it asks for.
LEMMA StateStep ==
  NorthInv /\ [Next]_northVars =>
    [\A a \in DOMAIN states : states'[a] # states[a] =>
       \E c \in Callers : pc[c] = "update" /\ call[c].app = a /\ call[c].op = states'[a]]_northVars
<1> SUFFICES ASSUME NorthInv, Next, NEW a \in DOMAIN states, states'[a] # states[a]
             PROVE  \E c \in Callers :
                      pc[c] = "update" /\ call[c].app = a /\ call[c].op = states'[a]
  OBVIOUS
<1>1. CASE SetStopped
  <2>1. current # a
    BY <1>1 DEF SetStopped, NorthInv, SetUpInOrder
  <2>2. QED
    BY <1>1, <2>1 DEF SetStopped, Updated, Entry
<1>2. ASSUME NEW c \in Callers, Request(c)
      PROVE  pc[c] = "update" /\ call[c].app = a /\ call[c].op = states'[a]
  BY <1>2 DEF Request, Handle, Check, ReadOldState, UpdateState, SendCommand, Answer, Accept
<1>3. CASE states' = states
  BY <1>3
<1>4. SetStopped \/ (\E c \in Callers : Request(c)) \/ states' = states
  BY DEF Next, Construct, SetUp, BusFillsOrDrains, Loop, StartServer, Instantiate, InjectPlugins,
         StartTopics, SetTopic, StartReader
<1>5. QED
  BY <1>1, <1>2, <1>3, <1>4

\* The set-up never takes back a state that a request has been told is set.
THEOREM SetUpKeepsStates == NorthSpec => AcceptedStateKept
BY StateStep, Invariance, PTL DEF NorthSpec, AcceptedStateKept

LEMMA ReadingStep ==
  NorthInv /\ [Next]_northVars =>
    [reading =>
       /\ \A a \in apps : /\ a \in injected /\ <<"app", a>> \in catalogue
                          /\ \A t \in CellIds(a) : <<t, a>> \in queued
       /\ missed' = missed]_northVars
<1> SUFFICES ASSUME NorthInv, Next, reading
             PROVE  /\ \A a \in apps : /\ a \in injected /\ <<"app", a>> \in catalogue
                                       /\ \A t \in CellIds(a) : <<t, a>> \in queued
                    /\ missed' = missed
  OBVIOUS
<1>1. setUpPc = "done" /\ topicsLeft = {} /\ toSetUp = {} /\ \A a \in apps : Covered(a)
  BY DEF NorthInv, SetUpInOrder
<1>2. \A a \in apps : /\ a \in injected /\ <<"app", a>> \in catalogue
                      /\ \A t \in CellIds(a) : <<t, a>> \in queued
  BY <1>1 DEF Covered
<1>3. looping \subseteq injected
  BY <1>2 DEF NorthInv, NorthTypeOK
<1>4. missed' = missed
  BY <1>3 DEF Next, Construct, SetUp, Request, BusFillsOrDrains, Loop, LoopEnds,
              ProcessMissesPlugin, loopVars
<1>5. QED
  BY <1>2, <1>4

\* When measurements are read every application is completely set up.
THEOREM ReadingAfterSetUp == NorthSpec => SetUpComplete
BY ReadingStep, Invariance, PTL DEF NorthSpec, SetUpComplete
=============================================================================
