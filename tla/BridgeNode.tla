----------------------------- MODULE BridgeNode -----------------------------
(***************************************************************************)
(* A Twilight bridge node: setup() runs first, then the measurement thread *)
(* (poll_measurements) and the command thread (handle_command) work on the *)
(* same session id and schema paths without a lock, each with REST calls   *)
(* to Twilight that may fail, or change the device though the answer is    *)
(* lost.  Others change the device too, and Twilight may be started anew.  *)
(***************************************************************************)
EXTENDS DeviceCommands

CONSTANTS
  Kinds,       \* the kinds of node: "amp", "roadm", "source", "end"
  Schema,      \* the fields of the device of a kind, in the order of the schema
  Commands,    \* what the command thread may receive
  Sessions, DefaultSession,  \* Twilight's session ids
  Initial,     \* every field's value when Twilight starts
  OtherValue   \* what someone else sets a field to

\* A field is its path, the words in its name and what it really is, which no
\* node is told: a setting, of a channel if the setting has channels.  What the
\* names of a device's fields must have for that: of all the words the nodes
\* look for, just those of the setting.
FieldWords ==
  [target_gain |-> {"target_gain"}, gain_tilt |-> {"gain_tilt"},
   preamp_gain |-> {"pre", "target_gain"}, preamp_tilt |-> {"pre", "gain_tilt"},
   booster_gain |-> {"booster", "target_gain"}, booster_tilt |-> {"booster", "gain_tilt"},
   voa_mux |-> {"mux", "channel_attenuations"},
   voa_demux |-> {"mux", "demux", "channel_attenuations"}]
Quantities == {"target_gain", "gain_tilt", "channel_attenuations"}
LookedFor == Quantities \cup {"pre", "booster", "mux", "demux"}

\* A line amplifier has to know a preamp of its device by its whole name, and
\* the path it falls back to, if there is one, is that of its own setting.
NameTells(k, f) ==
  /\ IF f.setting \in DOMAIN FieldWords
     THEN f.words \cap LookedFor = FieldWords[f.setting]
     ELSE f.words \cap Quantities = {}
  /\ k = "amp" /\ "pre" \in f.words => f.words \cap NotLine # {}
  /\ \A s \in AmpSettings :
       k = "amp" /\ f.path = <<"components", "amp", s>> => f.setting = s
  /\ f.setting \notin Voas \cup {"tx_power"} => f.channel = Null
  /\ k = "source" => f.setting = "tx_power" /\ f.path = SignalPath(f.channel)

\* Beside the field of one channel of a VOA, the field that goes by the number
\* of a channel is that of the same VOA and of this channel.
ChannelTells(f, g) ==
  \A ch \in {c.channel : c \in Commands} :
    f.setting \in Voas /\ g.path = Append(BaseOf(f.path), ch)
      => g.setting = f.setting /\ g.channel = ch

ASSUME BridgeAssumption ==
  /\ DefaultSession \in Sessions /\ Null \notin Sessions
  /\ Kinds \subseteq {"amp", "roadm", "source", "end"}
  /\ \A c \in Commands :
       c.name \in {"SET_GAIN", "SET_VOA", "SET_TILT", "LAUNCH_POWER",
                   "CHANNEL_ALLOCATION", "AMPLIFIER_GAIN", "SET_TX_POWER"}
  /\ \A k \in Kinds :
       /\ Schema[k] \in Seq(ToSet(Schema[k]))
       /\ \A f \in ToSet(Schema[k]) : f.path \notin {NoPath, Null} /\ NameTells(k, f)
       /\ \A f, g \in ToSet(Schema[k]) :
            /\ ChannelTells(f, g)
            /\ f.setting = g.setting /\ f.channel = g.channel => f.path = g.path

VARIABLES
  kind,      \* which node this is
  ready,     \* setup() has returned
  session,   \* session_id
  paths,     \* the cached paths, and bases of paths
  pollPc,    \* where the measurement thread (first: setup) is
  position,  \* the field of the schema it looks at
  commandPc, \* where the command thread is
  command,   \* the command it has received
  updates,   \* what it is about to write
  twilightUp, live, config,  \* Twilight: answers, its session, the device
  written,   \* history: what was last set, per field
  raced,     \* history: fields another set between a read and its write back
  room       \* the PUSH socket for measurements takes a message

pollVars == <<ready, session, paths, pollPc, position>>
commandVars == <<commandPc, command, updates>>
twilightVars == <<twilightUp, live, config>>
historyVars == <<written, raced>>
bridgeVars == <<kind, pollVars, commandVars, twilightVars, historyVars, room>>

Settings == CASE kind = "amp" -> AmpSettings [] kind = "roadm" -> RoadmSettings [] OTHER -> {}
Fields == {f.path : f \in ToSet(Schema[kind])}
Fresh == [p \in Fields |-> Initial]
HasSchema == kind \in {"amp", "roadm"}
\* The amplifier looks up two paths, the ROADM goes through the fields.
LearnSteps == IF kind = "amp" THEN 2 ELSE Len(Schema[kind])

BridgeInit ==
  /\ kind \in Kinds
  /\ session \in {DefaultSession, Null}   \* TWILIGHT_SESSION_ID unset or empty
  /\ ready = FALSE
  /\ paths = [s \in Settings |-> NoPath]
  /\ pollPc = "start" /\ position = 1
  /\ commandPc = "receive" /\ command = Null
  /\ updates = NoUpdate
  /\ twilightUp \in BOOLEAN
  /\ live \in Sessions
  /\ config = Fresh /\ written = Fresh /\ raced = {}
  /\ room = TRUE

\* A REST call on the node's session: Twilight must answer and know it.
Reachable == twilightUp /\ session = live

-----------------------------------------------------------------------------
(* setup() and the measurement thread.                                     *)

\* setup() returns, or the poll goes on to read the configuration.
Continue(label) ==
  IF ready THEN pollPc' = label /\ UNCHANGED ready
  ELSE pollPc' = "start" /\ ready' = TRUE

StartPoll ==
  /\ pollPc = "start"
  /\ pollPc' = CASE session = Null -> "detect"
                 [] session # Null /\ ~ready /\ HasSchema -> "schema"
                 [] OTHER -> "fetch"
  /\ ready' = (ready \/ (session # Null /\ ~HasSchema))
  /\ UNCHANGED <<session, paths, position>>

\* Mutant: without a session the poll gives up and does not look again.
DetectOnce ==
  /\ pollPc = "detect"
  /\ IF twilightUp /\ ~ready
     THEN /\ session' = live
          /\ IF HasSchema THEN pollPc' = "schema" /\ UNCHANGED ready ELSE Continue("fetch")
     ELSE pollPc' = "start" /\ ready' = TRUE /\ UNCHANGED session
  /\ UNCHANGED <<paths, position>>

\* _detect_session: the first session listed; a failure is a warning.
DetectSession ==
  /\ pollPc = "detect"
  /\ IF twilightUp
     THEN /\ session' = live
          /\ IF HasSchema THEN pollPc' = "schema" /\ UNCHANGED ready ELSE Continue("fetch")
     ELSE pollPc' = "start" /\ ready' = TRUE /\ UNCHANGED session
  /\ UNCHANGED <<paths, position>>

\* Mutant: the position is reset to one before the first.
FetchSchemaAtZero ==
  /\ pollPc = "schema"
  /\ IF Reachable
     THEN pollPc' = "learn" /\ position' = 0 /\ UNCHANGED ready
     ELSE Continue("fetch") /\ UNCHANGED position
  /\ UNCHANGED <<session, paths>>

\* get_device_config_schema; a failure is a warning, and is final: the paths
\* are only cached when the session was just set.
FetchSchema ==
  /\ pollPc = "schema"
  /\ IF Reachable
     THEN pollPc' = "learn" /\ position' = 1 /\ UNCHANGED ready
     ELSE Continue("fetch") /\ UNCHANGED position
  /\ UNCHANGED <<session, paths>>

\* The paths are set one after another, where the command thread sees them.
LearnPath ==
  /\ pollPc = "learn"
  /\ \/ /\ position <= LearnSteps
        /\ paths' = IF kind = "roadm" THEN LearnField(paths, Schema[kind][position])
                    ELSE IF position = 1
                    THEN [paths EXCEPT !["target_gain"] = GetAmpGainPath(Schema[kind])]
                    ELSE [paths EXCEPT !["gain_tilt"] = GetAmpTiltPath(Schema[kind])]
        /\ position' = position + 1
        /\ UNCHANGED <<pollPc, ready>>
     \/ /\ position > LearnSteps
        /\ Continue("fetch")
        /\ UNCHANGED <<paths, position>>
  /\ UNCHANGED session

\* get_device_config; a failure ends the poll without a report.
FetchConfig ==
  /\ pollPc = "fetch" /\ kind # "end"
  /\ pollPc' = IF Reachable THEN "report" ELSE "start"
  /\ UNCHANGED <<ready, session, paths, position>>

\* The end terminal measures its ports one by one instead; those that fail are
\* left out of the report, which is sent even if it is empty.
MeasurePorts ==
  /\ pollPc = "fetch" /\ kind = "end"
  /\ pollPc' = "report"
  /\ UNCHANGED <<ready, session, paths, position>>

\* The report, in which a setting without a path has a number of the code,
\* goes to the measurement broker; the thread waits until the socket takes it.
BuildReport ==
  /\ pollPc = "report" /\ room
  /\ pollPc' = "start"
  /\ UNCHANGED <<ready, session, paths, position>>

Poll ==
  /\ StartPoll \/ DetectSession \/ FetchSchema \/ LearnPath \/ FetchConfig
     \/ MeasurePorts \/ BuildReport
  /\ UNCHANGED <<kind, commandVars, twilightVars, historyVars, room>>

-----------------------------------------------------------------------------
(* The command thread.                                                     *)

ReceiveCommand(c) ==
  /\ ready
  /\ commandPc = "receive"
  /\ command' = c
  /\ commandPc' = "handle"
  /\ UNCHANGED <<kind, pollVars, updates, twilightVars, historyVars, room>>

\* handle_command returns; NodeRunner does not look at what.
Answer == commandPc' = "receive" /\ command' = Null /\ updates' = NoUpdate

\* Without a session, or with nothing to write, the command is refused.  The
\* source reads the device's signals first; the end takes no commands.
Computed ==
  CASE kind = "amp" -> AmpUpdates(Payload(command), paths)
    [] kind = "roadm" -> RoadmUpdates(Payload(command), paths)
    [] kind = "source" /\ Reachable -> SourceUpdates(Payload(command), config)
    [] OTHER -> NoUpdate

Handle ==
  /\ commandPc = "handle"
  /\ IF session = Null \/ Computed = NoUpdate THEN Answer
     ELSE /\ updates' = Computed
          /\ commandPc' = "patch"
          /\ UNCHANGED command
  /\ UNCHANGED <<kind, pollVars, twilightVars, historyVars, room>>

\* The setting and the channel a command names, and the field of the device
\* that is these: what the command means, whatever the node makes of it.
SettingOf(c) ==
  CASE c.name = "SET_GAIN" /\ c.part = "preamp" -> "preamp_gain"
    [] c.name = "SET_GAIN" /\ c.part = "booster" -> "booster_gain"
    [] c.name = "SET_GAIN" /\ c.part \notin {"preamp", "booster"} -> "target_gain"
    [] c.name = "SET_VOA" /\ c.part = "mux" -> "voa_mux"
    [] c.name = "SET_VOA" /\ c.part = "demux" -> "voa_demux"
    [] c.name = "SET_TILT" -> "gain_tilt"
    [] c.name = "AMPLIFIER_GAIN" -> "target_gain"
    [] c.name = "SET_TX_POWER" -> "tx_power"
    [] OTHER -> NoPath
ChannelOf(c) == IF c.name \in {"SET_VOA", "SET_TX_POWER"} THEN c.channel ELSE Null
Means(c, f) == f.setting = SettingOf(c) /\ f.channel = ChannelOf(c)
Meant ==
  LET mine == {f \in ToSet(Schema[kind]) : Means(command, f)}
  IN IF mine = {} THEN NoPath ELSE (CHOOSE f \in mine : TRUE).path

\* configure_device: the PATCH is done, whether or not its answer arrives, or
\* it is not.
Patch ==
  /\ commandPc = "patch"
  /\ \/ /\ Reachable /\ DOMAIN updates \subseteq Fields
        /\ config' = [p \in Fields |-> IF p \in DOMAIN updates THEN updates[p] ELSE config[p]]
        /\ written' = [p \in Fields |-> IF p = Meant THEN command.value ELSE written[p]]
        /\ raced' = raced \ {Meant}
     \/ UNCHANGED <<config, written, raced>>
  /\ Answer
  /\ UNCHANGED <<kind, pollVars, twilightUp, live, room>>

CommandThread == Handle \/ Patch

-----------------------------------------------------------------------------
(* Twilight and its other users.                                           *)

\* The source terminal is between its read of the signals and its write.
Racing == kind = "source" /\ commandPc = "patch"

Outage ==
  /\ twilightUp' = ~twilightUp
  /\ UNCHANGED <<kind, pollVars, commandVars, live, config, historyVars, room>>

NewSession ==
  /\ \E s \in Sessions \ {live} : live' = s
  /\ config' = Fresh /\ written' = Fresh
  /\ raced' = IF Racing THEN Fields ELSE {}
  /\ UNCHANGED <<kind, pollVars, commandVars, twilightUp, room>>

SetByOther(p) ==
  /\ config[p] # OtherValue
  /\ config' = [config EXCEPT ![p] = OtherValue]
  /\ written' = [written EXCEPT ![p] = OtherValue]
  /\ raced' = IF Racing THEN raced \cup {p} ELSE raced \ {p}
  /\ UNCHANGED <<kind, pollVars, commandVars, twilightUp, live, room>>

\* The measurement broker stops taking messages, or takes them again.
BrokerRoom ==
  /\ room' = ~room
  /\ UNCHANGED <<kind, pollVars, commandVars, twilightVars, historyVars>>

BridgeNext ==
  \/ Poll
  \/ \E c \in Commands : ReceiveCommand(c)
  \/ CommandThread
  \/ Outage \/ NewSession \/ BrokerRoom
  \/ \E p \in Fields : SetByOther(p)

BridgeSpec ==
  /\ BridgeInit /\ [][BridgeNext]_bridgeVars
  /\ WF_bridgeVars(Poll) /\ WF_bridgeVars(CommandThread)

-----------------------------------------------------------------------------
Values == {Initial, OtherValue, Null} \cup {c.value : c \in Commands}

\* The type of every variable.
BridgeTypeOK ==
  /\ kind \in Kinds /\ ready \in BOOLEAN
  /\ session \in Sessions \cup {Null}
  /\ paths \in [Settings -> Fields \cup {BaseOf(p) : p \in Fields} \cup {NoPath}]
  /\ pollPc \in {"start", "detect", "schema", "learn", "fetch", "report"}
  /\ position \in 1..(LearnSteps + 1)
  /\ commandPc \in {"receive", "handle", "patch"}
  /\ command \in Commands \cup {Null}
  /\ twilightUp \in BOOLEAN /\ live \in Sessions
  /\ config \in [Fields -> Values] /\ written \in [Fields -> Values]
  /\ raced \subseteq Fields /\ room \in BOOLEAN

\* Every field holds what was last set, by a command that means it or by
\* somebody else: no command changes another field, or another channel's,
\* whichever paths the measurement thread has learned so far and whichever PATCH
\* was lost.  Only the source terminal, which writes back all it read, may undo
\* what another set in between.
LastWriteStands == \A p \in Fields : config[p] = written[p] \/ p \in raced

\* commands.py:32 says of SET_GAIN "line amp: {"target_gain": value}", and 0 is
\* the lowest gain its validator lets through: a PATCH that changes the device
\* gives the field its command means the command's value.  It does not if that
\* is 0, which handle_command of a line amplifier takes for no value at all.
PatchAsCommanded ==
  [][commandPc = "patch" /\ commandPc' = "receive" /\ config' # config
       => config'[Meant] = command.value]_bridgeVars

\* Once Twilight answers and keeps the node's session, or the node has none
\* yet, and the broker takes messages, there is always a next report, even if
\* set-up found no session.
ReportsResume ==
  <>[](room /\ twilightUp /\ session \in {Null, live}) =>
    []<>(pollPc = "report") /\ []<>(pollPc # "report")
=============================================================================
