----------------------------- MODULE NodeProofs -----------------------------
(***************************************************************************)
(* What is proved of the nodes.  Of Register: that every registered node   *)
(* stays monitored, for any finite set of nodes and any bounds.  Of        *)
(* BridgeNode: that no command changes a field it does not mean, for any   *)
(* schema whose names tell what a field is, and any commands but a gain of *)
(* zero for a line amplifier.                                              *)
(***************************************************************************)
EXTENDS Register, BridgeNode, FiniteSetTheorems, WellFoundedInduction, TLAPS

-----------------------------------------------------------------------------
(* The fields of a device and the words in their names.                    *)

FieldsOf(k) == ToSet(Schema[k])

LEMMA SchemaFacts ==
  ASSUME NEW k \in Kinds
  PROVE  /\ \A f \in FieldsOf(k) : f.path \notin {NoPath, Null} /\ NameTells(k, f)
         /\ \A f, g \in FieldsOf(k) :
              /\ ChannelTells(f, g)
              /\ f.setting = g.setting /\ f.channel = g.channel => f.path = g.path
         /\ Len(Schema[k]) \in Nat
         /\ DOMAIN Schema[k] = 1..Len(Schema[k])
         /\ \A i \in 1..Len(Schema[k]) : Schema[k][i] \in FieldsOf(k)
<1>1. Schema[k] \in Seq(FieldsOf(k))
  BY BridgeAssumption DEF FieldsOf
<1>2. QED
  BY <1>1, BridgeAssumption DEF FieldsOf

\* Only a VOA and a transmitter have channels.
LEMMA NoChannel ==
  ASSUME NEW k \in Kinds, NEW f \in FieldsOf(k), f.setting \notin Voas \cup {"tx_power"}
  PROVE  f.channel = Null
BY SchemaFacts DEF NameTells

\* The words the nodes look for tell the setting of a field.
LEMMA SettingWords ==
  ASSUME NEW k \in Kinds, NEW f \in FieldsOf(k),
         f.words \cap Quantities # {}
  PROVE  /\ f.setting \in DOMAIN FieldWords
         /\ f.words \cap LookedFor = FieldWords[f.setting]
<1>1. NameTells(k, f)
  BY SchemaFacts
<1>2. QED
  BY <1>1 DEF NameTells

LEMMA WordsOf ==
  DOMAIN FieldWords = {"target_gain", "gain_tilt", "preamp_gain", "preamp_tilt",
                       "booster_gain", "booster_tilt", "voa_mux", "voa_demux"}
BY DEF FieldWords

\* The amplifier's two look-ups find no field of a preamp or a booster.
LEMMA LineFields ==
  ASSUME "amp" \in Kinds, NEW f \in FieldsOf("amp"), f.words \cap NotLine = {}
  PROVE  /\ "target_gain" \in f.words => f.setting = "target_gain"
         /\ "gain_tilt" \in f.words => f.setting = "gain_tilt"
<1>1. "pre" \notin f.words /\ "booster" \notin f.words
  BY SchemaFacts DEF NameTells, NotLine
<1>2. ASSUME NEW w \in {"target_gain", "gain_tilt"}, w \in f.words
      PROVE  f.setting = w
  <2>1. /\ f.setting \in DOMAIN FieldWords
        /\ f.words \cap LookedFor = FieldWords[f.setting]
    BY <1>2, SettingWords DEF Quantities
  <2>2. w \in FieldWords[f.setting]
    BY <1>2, <2>1 DEF LookedFor, Quantities
  <2>3. "pre" \notin FieldWords[f.setting] /\ "booster" \notin FieldWords[f.setting]
    BY <1>1, <2>1
  <2>4. QED
    BY <2>1, <2>2, <2>3, WordsOf DEF FieldWords
<1>3. QED
  BY <1>2

\* The ROADM's loop takes a field for the setting that it is and no other.
LEMMA RoadmFields ==
  ASSUME NEW k \in Kinds, NEW f \in FieldsOf(k), NEW s \in RoadmFieldSettings(f.words)
  PROVE  f.setting = s
<1>1. f.words \cap Quantities # {} /\ s \in RoadmSettings
  BY DEF RoadmFieldSettings, RoadmSettings, Quantities
<1>2. /\ f.setting \in DOMAIN FieldWords
      /\ f.words \cap LookedFor = FieldWords[f.setting]
  BY <1>1, SettingWords
<1> DEFINE W == FieldWords[f.setting]
<1>3. \A w \in LookedFor : w \in f.words <=> w \in W
  BY <1>2
<1>4. CASE s = "preamp_gain"
  <2>1. "pre" \in W /\ "target_gain" \in W
    BY <1>3, <1>4 DEF RoadmFieldSettings, LookedFor, Quantities
  <2>2. QED
    BY <1>2, <1>4, <2>1, WordsOf DEF FieldWords
<1>5. CASE s = "preamp_tilt"
  <2>1. "pre" \in W /\ "gain_tilt" \in W
    BY <1>3, <1>5 DEF RoadmFieldSettings, LookedFor, Quantities
  <2>2. QED
    BY <1>2, <1>5, <2>1, WordsOf DEF FieldWords
<1>6. CASE s = "booster_gain"
  <2>1. "booster" \in W /\ "target_gain" \in W
    BY <1>3, <1>6 DEF RoadmFieldSettings, LookedFor, Quantities
  <2>2. QED
    BY <1>2, <1>6, <2>1, WordsOf DEF FieldWords
<1>7. CASE s = "booster_tilt"
  <2>1. "booster" \in W /\ "gain_tilt" \in W
    BY <1>3, <1>7 DEF RoadmFieldSettings, LookedFor, Quantities
  <2>2. QED
    BY <1>2, <1>7, <2>1, WordsOf DEF FieldWords
<1>8. CASE s = "voa_demux"
  <2>1. "demux" \in W
    BY <1>3, <1>8 DEF RoadmFieldSettings, LookedFor, Quantities
  <2>2. QED
    BY <1>2, <1>8, <2>1, WordsOf DEF FieldWords
<1>9. CASE s = "voa_mux"
  <2>1. "mux" \in W /\ "demux" \notin W
    BY <1>3, <1>9 DEF RoadmFieldSettings, LookedFor, Quantities
  <2>2. QED
    BY <1>2, <1>9, <2>1, WordsOf DEF FieldWords
<1>10. QED
  BY <1>1, <1>4, <1>5, <1>6, <1>7, <1>8, <1>9 DEF RoadmSettings

\* find_schema_path: a field that fits, or none.
LEMMA FindFits ==
  ASSUME NEW k \in Kinds, NEW contains, NEW excludes,
         FindSchemaPath(Schema[k], contains, excludes) # NoPath
  PROVE  \E f \in FieldsOf(k) :
           /\ f.path = FindSchemaPath(Schema[k], contains, excludes)
           /\ contains \subseteq f.words /\ excludes \cap f.words = {}
<1> DEFINE fits == {i \in DOMAIN Schema[k] :
                      contains \subseteq Schema[k][i].words
                        /\ excludes \cap Schema[k][i].words = {}}
           first == CHOOSE i \in fits : \A j \in fits : i <= j
<1>1. fits # {} /\ FindSchemaPath(Schema[k], contains, excludes) = Schema[k][first].path
  BY DEF FindSchemaPath
<1>2. fits \subseteq Nat
  BY SchemaFacts
<1>3. \E i \in fits : \A j \in fits : i <= j
  <2>1. PICK i \in fits : \A j \in fits : <<j, i>> \notin OpToRel(<, Nat)
    BY <1>1, <1>2, NatLessThanWellFounded, WFMin
  <2>2. \A j \in fits : ~(j < i)
    BY <1>2, <2>1 DEF OpToRel
  <2>3. QED
    BY <1>2, <2>2
<1>4. first \in fits
  BY <1>3
<1>5. QED
  BY <1>1, <1>4, SchemaFacts

\* What the amplifier looks up is the path of the setting, or none.
LEMMA LookedUp ==
  ASSUME "amp" \in Kinds, NEW w \in AmpSettings,
         FindSchemaPath(Schema["amp"], {w}, NotLine) # NoPath
  PROVE  \E f \in FieldsOf("amp") :
           f.path = FindSchemaPath(Schema["amp"], {w}, NotLine) /\ f.setting = w
<1>1. \A contains, excludes :
        FindSchemaPath(Schema["amp"], contains, excludes) # NoPath =>
          \E f \in FieldsOf("amp") :
            /\ f.path = FindSchemaPath(Schema["amp"], contains, excludes)
            /\ contains \subseteq f.words /\ excludes \cap f.words = {}
  BY FindFits
<1>2. PICK f \in FieldsOf("amp") :
        /\ f.path = FindSchemaPath(Schema["amp"], {w}, NotLine)
        /\ {w} \subseteq f.words /\ NotLine \cap f.words = {}
  BY <1>1, Zenon
<1>3. QED
  BY <1>2, LineFields DEF AmpSettings

-----------------------------------------------------------------------------
(* What the payload of a command has for each kind of node.                *)

\* For a line amplifier: a value if the command means its gain.
LEMMA AmpPayload ==
  ASSUME NEW c \in Commands
  PROVE  LET p == Payload(c) IN
         /\ "gain_tilt" \notin DOMAIN p
         /\ {"target_gain", "amplifier_gain"} \cap DOMAIN p # {} =>
              /\ SettingOf(c) = "target_gain" /\ ChannelOf(c) = Null
              /\ \/ /\ c.name = "SET_GAIN" /\ c.part \notin {"preamp", "booster"}
                    /\ Get(p, "target_gain") = c.value
                    /\ Get(p, "amplifier_gain") = Null
                 \/ /\ Get(p, "target_gain") = Null
                    /\ Get(p, "amplifier_gain") = c.value
<1>1. CASE c.name = "SET_GAIN"
  <2>1. Payload(c) = SetGain(c)
    BY <1>1 DEF Payload
  <2>2. CASE c.part = "preamp"
    BY <2>1, <2>2 DEF SetGain
  <2>3. CASE c.part = "booster"
    BY <2>1, <2>3 DEF SetGain
  <2>4. CASE c.part \notin {"preamp", "booster"}
    BY <1>1, <2>1, <2>4 DEF SetGain, Get, SettingOf, ChannelOf
  <2>5. QED
    BY <2>2, <2>3, <2>4
<1>2. CASE c.name = "AMPLIFIER_GAIN"
  BY <1>2 DEF Payload, AmplifierGain, Get, SettingOf, ChannelOf
<1>3. CASE c.name = "SET_VOA"
  <2>1. DOMAIN Payload(c) \subseteq {"channel", "voa_mux", "voa_demux", "voa_attenuation"}
    BY <1>3 DEF Payload, SetVoa
  <2>2. QED
    BY <2>1
<1>4. CASE c.name \in {"SET_TILT", "LAUNCH_POWER", "CHANNEL_ALLOCATION", "SET_TX_POWER"}
  <2>1. DOMAIN Payload(c) \subseteq {"tilt_value", "launch_power_adjustment",
                                    "channel_allocation", "tx_power", "channel",
                                    "tx_power_ch_"}
    BY <1>4 DEF Payload, SetTilt, LaunchPower, ChannelAllocation, TxPower
  <2>2. QED
    BY <2>1
<1>5. QED
  BY <1>1, <1>2, <1>3, <1>4, BridgeAssumption

\* For a ROADM: the value, under the name of the setting that is meant, and of
\* a VOA the channel.
LEMMA RoadmPayload ==
  ASSUME NEW c \in Commands
  PROVE  LET p == Payload(c) IN
         \A s \in RoadmSettings \cap DOMAIN p :
           /\ s = SettingOf(c) /\ RoadmValue(p, s) = c.value
           /\ IF s \in Voas THEN p["channel"] = c.channel /\ ChannelOf(c) = c.channel
              ELSE ChannelOf(c) = Null
<1>1. CASE c.name = "SET_GAIN"
  <2>1. Payload(c) = SetGain(c)
    BY <1>1 DEF Payload
  <2>2. CASE c.part = "preamp"
    BY <1>1, <2>1, <2>2 DEF SetGain, SettingOf, RoadmValue, ChannelOf, Voas
  <2>3. CASE c.part = "booster"
    BY <1>1, <2>1, <2>3 DEF SetGain, SettingOf, RoadmValue, ChannelOf, Voas
  <2>4. CASE c.part \notin {"preamp", "booster"}
    BY <2>1, <2>4 DEF SetGain, RoadmSettings
  <2>5. QED
    BY <2>2, <2>3, <2>4
<1>2. CASE c.name = "SET_VOA"
  <2>1. Payload(c) = SetVoa(c)
    BY <1>2 DEF Payload
  <2>2. CASE c.part = "mux"
    <3>1. Payload(c) = [channel |-> c.channel, voa_mux |-> c.value]
      BY <2>1, <2>2 DEF SetVoa
    <3>2. QED
      BY <1>2, <2>2, <3>1 DEF SettingOf, RoadmValue, RoadmSettings, ChannelOf, Voas
  <2>3. CASE c.part = "demux"
    <3>1. Payload(c) = [channel |-> c.channel, voa_demux |-> c.value]
      BY <2>1, <2>3 DEF SetVoa
    <3>2. QED
      BY <1>2, <2>3, <3>1 DEF SettingOf, RoadmValue, RoadmSettings, ChannelOf, Voas
  <2>4. CASE c.part \notin {"mux", "demux"}
    BY <2>1, <2>4 DEF SetVoa, RoadmSettings
  <2>5. QED
    BY <2>2, <2>3, <2>4
<1>3. CASE c.name \in {"SET_TILT", "LAUNCH_POWER", "CHANNEL_ALLOCATION",
                      "AMPLIFIER_GAIN", "SET_TX_POWER"}
  <2>1. DOMAIN Payload(c) \subseteq {"tilt_value", "launch_power_adjustment", "amplifier_gain",
                                    "channel_allocation", "tx_power", "channel",
                                    "tx_power_ch_"}
    BY <1>3 DEF Payload, SetTilt, LaunchPower, ChannelAllocation, AmplifierGain, TxPower
  <2>2. QED
    BY <2>1 DEF RoadmSettings
<1>4. QED
  BY <1>1, <1>2, <1>3, BridgeAssumption

\* For the source terminal, in either format: the power and the channel that
\* are meant, or no power.
LEMMA SourcePayload ==
  ASSUME NEW c \in Commands, SourceSignal(Payload(c)).power # Null
  PROVE  /\ SettingOf(c) = "tx_power"
         /\ SourceSignal(Payload(c)) = [channel |-> ChannelOf(c), power |-> c.value]
<1> DEFINE keys == {"tx_power", "tx_power_ch_"}
<1>1. keys \cap DOMAIN Payload(c) # {}
  BY DEF SourceSignal
<1>2. CASE c.name = "SET_TX_POWER"
  <2>1. Payload(c) = TxPower(c) /\ SettingOf(c) = "tx_power" /\ ChannelOf(c) = c.channel
    BY <1>2 DEF Payload, SettingOf, ChannelOf
  <2>2. CASE c.part = "compact"
    BY <2>1, <2>2 DEF TxPower, SourceSignal
  <2>3. CASE c.part # "compact"
    BY <2>1, <2>3 DEF TxPower, SourceSignal
  <2>4. QED
    BY <2>2, <2>3
<1>3. CASE c.name = "SET_GAIN"
  BY <1>1, <1>3 DEF Payload, SetGain
<1>4. CASE c.name = "SET_VOA"
  BY <1>1, <1>4 DEF Payload, SetVoa
<1>5. CASE c.name \in {"SET_TILT", "LAUNCH_POWER", "CHANNEL_ALLOCATION", "AMPLIFIER_GAIN"}
  BY <1>1, <1>5 DEF Payload, SetTilt, LaunchPower, ChannelAllocation, AmplifierGain
<1>6. QED
  BY <1>2, <1>3, <1>4, <1>5, BridgeAssumption

-----------------------------------------------------------------------------
(* What handle_command writes.                                             *)

\* The one command that a line amplifier makes another of: SET_GAIN of zero.
LineGainOfZero(c) ==
  c.name = "SET_GAIN" /\ c.part \notin {"preamp", "booster"} /\ c.value = 0
NoZeroGain == "amp" \in Kinds => \A c \in Commands : ~LineGainOfZero(c)

LEMMA AmpWrites ==
  ASSUME NEW c \in Commands, NEW known, AmpUpdates(Payload(c), known) # NoUpdate
  PROVE  LET u == AmpUpdates(Payload(c), known)
             path == AmpPath(known, "target_gain")
         IN /\ SettingOf(c) = "target_gain" /\ ChannelOf(c) = Null
            /\ DOMAIN u = {path}
            /\ u[path] \in {c.value, Null}
            /\ LineGainOfZero(c) \/ u[path] = c.value
<1> DEFINE p == Payload(c)
           u == AmpUpdates(p, known)
           gain == {"target_gain" : k \in {"target_gain", "amplifier_gain"} \cap DOMAIN p}
           set == gain \cup ({"gain_tilt"} \cap DOMAIN p)
           value(s) == IF s = "gain_tilt" THEN p[s]
                       ELSE OrElse(Get(p, "target_gain"), Get(p, "amplifier_gain"))
           path == AmpPath(known, "target_gain")
<1>1. u = [q \in {AmpPath(known, s) : s \in set} |->
             value(CHOOSE s \in set : AmpPath(known, s) = q)]
  BY DEF AmpUpdates
<1>2. set = gain
  BY AmpPayload
<1>3. CASE gain = {}
  <2>1. u = NoUpdate
    BY <1>1, <1>2, <1>3 DEF NoUpdate
  <2>2. QED
    BY <2>1
<1>4. CASE gain # {}
  <2>1. set = {"target_gain"}
    BY <1>2, <1>4
  <2>2. DOMAIN u = {path}
    BY <1>1, <2>1
  <2>3. (CHOOSE s \in set : AmpPath(known, s) = path) = "target_gain"
    BY <2>1
  <2>4. u[path] = OrElse(Get(p, "target_gain"), Get(p, "amplifier_gain"))
    <3>1. u[path] = value("target_gain")
      BY <1>1, <2>1, <2>3
    <3>2. QED
      BY <3>1
  <2>5. {"target_gain", "amplifier_gain"} \cap DOMAIN p # {}
    BY <1>4
  <2>6. /\ SettingOf(c) = "target_gain" /\ ChannelOf(c) = Null
        /\ \/ /\ c.name = "SET_GAIN" /\ c.part \notin {"preamp", "booster"}
              /\ u[path] = OrElse(c.value, Null)
           \/ u[path] = OrElse(Null, c.value)
    BY <2>4, <2>5, AmpPayload
  <2>7. QED
    BY <2>2, <2>6 DEF OrElse, Truthy, LineGainOfZero
<1>5. QED
  BY <1>3, <1>4

LEMMA RoadmWrites ==
  ASSUME NEW c \in Commands, NEW known, RoadmUpdates(Payload(c), known) # NoUpdate
  PROVE  LET u == RoadmUpdates(Payload(c), known) IN
         \E s \in RoadmSettings : \E target :
           /\ s = SettingOf(c) /\ known[s] # NoPath
           /\ IF s \in Voas
              THEN ChannelOf(c) = c.channel /\ target = Append(known[s], c.channel)
              ELSE ChannelOf(c) = Null /\ target = known[s]
           /\ DOMAIN u = {target} /\ u[target] = c.value
<1> DEFINE p == Payload(c)
           u == RoadmUpdates(p, known)
           set == {s \in RoadmSettings \cap DOMAIN p :
                     /\ known[s] # NoPath
                     /\ s \in Voas => /\ Get(p, "channel") # Null
                                      /\ RoadmValue(p, s) # Null}
           target(s) == RoadmTarget(p, known, s)
<1>1. u = [q \in {target(s) : s \in set} |-> RoadmValue(p, CHOOSE s \in set : target(s) = q)]
  BY DEF RoadmUpdates
<1>2. set # {}
  <2>1. ASSUME set = {} PROVE u = NoUpdate
    BY <1>1, <2>1 DEF NoUpdate
  <2>2. QED
    BY <2>1
<1>3. PICK s \in set : TRUE
  BY <1>2
<1>4. /\ s \in RoadmSettings /\ s = SettingOf(c) /\ known[s] # NoPath
      /\ RoadmValue(p, s) = c.value
  BY <1>3, RoadmPayload
<1>5. set = {s}
  BY <1>3, <1>4, RoadmPayload
<1>6. IF s \in Voas
      THEN ChannelOf(c) = c.channel /\ target(s) = Append(known[s], c.channel)
      ELSE ChannelOf(c) = Null /\ target(s) = known[s]
  BY <1>3, RoadmPayload DEF RoadmTarget
<1> HIDE DEF set, target
<1>7. DOMAIN u = {target(s)}
  BY <1>1, <1>5
<1>8. u[target(s)] = c.value
  <2>1. (CHOOSE r \in set : target(r) = target(s)) = s
    BY <1>5
  <2>2. QED
    BY <1>1, <1>4, <1>5, <2>1
<1>9. QED
  BY <1>4, <1>6, <1>7, <1>8

LEMMA SourceWrites ==
  ASSUME NEW c \in Commands, NEW old, SourceUpdates(Payload(c), old) # NoUpdate
  PROVE  LET path == SignalPath(ChannelOf(c)) IN
         /\ SettingOf(c) = "tx_power" /\ path \in DOMAIN old
         /\ SourceUpdates(Payload(c), old) = [old EXCEPT ![path] = c.value]
<1> DEFINE signal == SourceSignal(Payload(c))
<1>1. /\ SignalPath(signal.channel) \in DOMAIN old /\ signal.power # Null
      /\ SourceUpdates(Payload(c), old) = [old EXCEPT ![SignalPath(signal.channel)] = signal.power]
  BY DEF SourceUpdates
<1>2. SettingOf(c) = "tx_power" /\ signal.channel = ChannelOf(c) /\ signal.power = c.value
  BY <1>1, SourcePayload
<1>3. QED
  BY <1>1, <1>2

\* What a command means is the path of the field that is its setting.
LEMMA MeantPath ==
  ASSUME kind \in Kinds, NEW f \in FieldsOf(kind), Means(command, f)
  PROVE  Meant = f.path
<1> DEFINE mine == {g \in FieldsOf(kind) : Means(command, g)}
<1>1. f \in mine /\ (CHOOSE g \in mine : TRUE) \in mine
  OBVIOUS
<1>2. Meant = (CHOOSE g \in mine : TRUE).path
  BY <1>1 DEF Meant, FieldsOf
<1>3. QED
  BY <1>1, <1>2, SchemaFacts DEF Means

-----------------------------------------------------------------------------
(***************************************************************************)
(* Of each variable its type, and of the paths that the measurement thread *)
(* has learned so far, wherever it is in learning them, that each is of a  *)
(* field that is the setting it is kept for, or of a VOA the base of one.  *)
(***************************************************************************)
CommandAt == commandPc \in {"handle", "patch"} => command \in Commands
UpdatesType == \A p \in DOMAIN updates : updates[p] \in Values
PathsRight ==
  \A s \in Settings :
    paths[s] # NoPath =>
      \E f \in FieldsOf(kind) :
        f.setting = s /\ paths[s] = IF s \in Voas THEN BaseOf(f.path) ELSE f.path
NodeInv == BridgeTypeOK /\ CommandAt /\ UpdatesType /\ PathsRight

\* Fields and Settings do not change, because the kind of node does not.
LEMMA SameDevice ==
  ASSUME UNCHANGED kind
  PROVE  /\ Fields' = Fields /\ Settings' = Settings /\ Fresh' = Fresh
         /\ LearnSteps' = LearnSteps /\ FieldsOf(kind)' = FieldsOf(kind)
BY DEF Fields, Settings, Fresh, LearnSteps, FieldsOf

LEMMA FieldPaths == Fields = {f.path : f \in FieldsOf(kind)}
BY DEF Fields, FieldsOf

\* What the node may keep as a path.
Kept == Fields \cup {BaseOf(p) : p \in Fields} \cup {NoPath}

LEMMA BridgeInitInv == BridgeInit => NodeInv
<1> SUFFICES ASSUME BridgeInit
             PROVE  NodeInv
  OBVIOUS
<1>1. LearnSteps \in Nat
  BY SchemaFacts DEF BridgeInit, LearnSteps
<1>2. Fresh \in [Fields -> Values]
  BY DEF Fresh, Values
<1>3. BridgeTypeOK
  <2>1. position \in 1..(LearnSteps + 1)
    BY <1>1 DEF BridgeInit
  <2>2. session \in Sessions \cup {Null}
    BY BridgeAssumption DEF BridgeInit
  <2>3. paths \in [Settings -> Kept]
    BY DEF BridgeInit, Kept
  <2>4. config \in [Fields -> Values] /\ written \in [Fields -> Values]
    BY <1>2 DEF BridgeInit
  <2>5. QED
    BY <2>1, <2>2, <2>3, <2>4 DEF BridgeInit, BridgeTypeOK, Kept
<1>4. UpdatesType
  BY DEF BridgeInit, UpdatesType, NoUpdate
<1>5. QED
  BY <1>3, <1>4 DEF BridgeInit, NodeInv, CommandAt, PathsRight

\* One path learned, of an amplifier or of a ROADM.
LEMMA LearnedRight ==
  ASSUME NodeInv, UNCHANGED kind, LearnPath
  PROVE  PathsRight' /\ paths' \in [Settings -> Kept]
<1> USE SameDevice DEF NodeInv
<1>1. kind \in Kinds /\ paths \in [Settings -> Kept] /\ PathsRight
  BY DEF BridgeTypeOK, Kept
<1>0. Kept' = Kept
  BY DEF Kept
<1>2. CASE paths' = paths
  BY <1>0, <1>1, <1>2 DEF PathsRight
<1>3. CASE /\ kind = "roadm" /\ position \in 1..Len(Schema[kind])
           /\ paths' = LearnField(paths, Schema[kind][position])
  <2> DEFINE f == Schema[kind][position]
  <2>1. f \in FieldsOf(kind)
    BY <1>1, <1>3, SchemaFacts
  <2> DEFINE New(r) == IF r \in Voas THEN BaseOf(f.path) ELSE f.path
  <2>2. paths' = [r \in Settings |->
                    IF r \in RoadmFieldSettings(f.words) THEN New(r) ELSE paths[r]]
    <3>1. DOMAIN paths = Settings /\ RoadmFieldSettings(f.words) \subseteq RoadmSettings
      BY <1>1 DEF RoadmFieldSettings
    <3>2. QED
      BY <1>3, <3>1 DEF LearnField
  <2>3. \A r : New(r) \in Kept
    BY <2>1, FieldPaths DEF Kept
  <2>4. \A r \in RoadmFieldSettings(f.words) : f.setting = r
    BY <1>1, <2>1, RoadmFields
  <2> HIDE DEF f
  <2>5. PathsRight'
    <3>1. ASSUME NEW r \in Settings, paths'[r] # NoPath
          PROVE  \E g \in FieldsOf(kind) :
                   g.setting = r /\ paths'[r] = IF r \in Voas THEN BaseOf(g.path) ELSE g.path
      <4>1. CASE r \in RoadmFieldSettings(f.words)
        BY <2>1, <2>2, <2>4, <4>1
      <4>2. CASE r \notin RoadmFieldSettings(f.words)
        BY <1>1, <2>2, <3>1, <4>2 DEF PathsRight
      <4>3. QED
        BY <4>1, <4>2
    <3>2. QED
      BY <3>1 DEF PathsRight
  <2> HIDE DEF New
  <2>6. QED
    BY <1>0, <1>1, <2>2, <2>3, <2>5
<1>4. ASSUME kind = "amp", NEW w \in AmpSettings,
             paths' = [paths EXCEPT ![w] = FindSchemaPath(Schema[kind], {w}, NotLine)]
      PROVE  PathsRight' /\ paths' \in [Settings -> Kept]
  <2> DEFINE found == FindSchemaPath(Schema[kind], {w}, NotLine)
  <2>1. found # NoPath => \E f \in FieldsOf(kind) : f.path = found /\ f.setting = w
    BY <1>1, <1>4, LookedUp
  <2>2. found \in Kept /\ w \notin Voas
    BY <1>4, <2>1, FieldPaths DEF Kept, AmpSettings, Voas
  <2>3. paths' = [paths EXCEPT ![w] = found]
    BY <1>4
  <2> HIDE DEF found
  <2>4. paths' \in [Settings -> Kept]
    BY <1>1, <2>2, <2>3
  <2>5. \A r \in Settings : r # w => paths'[r] = paths[r]
    BY <1>1, <2>3
  <2>6. w \in Settings => paths'[w] = found
    BY <1>1, <2>3
  <2>7. QED
    BY <1>0, <1>1, <2>1, <2>2, <2>4, <2>5, <2>6 DEF PathsRight
<1>5. CASE paths' # paths
  <2>1. position <= LearnSteps /\ position \in 1..(LearnSteps + 1)
    BY <1>5 DEF LearnPath, BridgeTypeOK
  <2>2. CASE kind = "roadm"
    <3>1. position \in 1..Len(Schema[kind])
      BY <1>1, <2>1, <2>2, SchemaFacts DEF LearnSteps
    <3>2. QED
      BY <1>3, <1>5, <2>2, <3>1 DEF LearnPath
  <2>3. CASE kind = "amp"
    <3>1. \/ paths' = [paths EXCEPT !["target_gain"] = FindSchemaPath(Schema[kind], {"target_gain"}, NotLine)]
          \/ paths' = [paths EXCEPT !["gain_tilt"] = FindSchemaPath(Schema[kind], {"gain_tilt"}, NotLine)]
      BY <1>5, <2>3 DEF LearnPath, GetAmpGainPath, GetAmpTiltPath
    <3>2. QED
      BY <1>4, <2>3, <3>1 DEF AmpSettings
  <2>4. CASE kind \notin {"amp", "roadm"}
    <3>1. Settings = {} /\ Settings' = {}
      BY <2>4 DEF Settings
    <3>2. paths' = paths
      <4>1. DOMAIN paths = {}
        BY <1>1, <3>1
      <4>2. \A w, v : [paths EXCEPT ![w] = v] = paths
        BY <1>1, <4>1
      <4>3. QED
        BY <1>5, <2>4, <4>2 DEF LearnPath
    <3>3. QED
      BY <1>2, <3>2
  <2>5. QED
    BY <2>2, <2>3, <2>4
<1>6. QED
  BY <1>2, <1>5

\* Steps of the measurement thread: only learning a path touches the paths.
LEMMA PollInv ==
  ASSUME NodeInv, Poll
  PROVE  NodeInv'
<1>1. UNCHANGED <<kind, commandPc, command, updates, twilightUp, live, config, written, raced, room>>
  BY DEF Poll, commandVars, twilightVars, historyVars
<1>2. /\ Fields' = Fields /\ Settings' = Settings
      /\ LearnSteps' = LearnSteps /\ FieldsOf(kind)' = FieldsOf(kind)
  BY <1>1, SameDevice
<1>3. LearnSteps \in Nat /\ position \in 1..(LearnSteps + 1)
  BY SchemaFacts DEF NodeInv, BridgeTypeOK, LearnSteps
<1>4. PathsRight' /\ paths' \in [Settings -> Kept]
  <2>1. CASE LearnPath
    BY <1>1, <2>1, LearnedRight
  <2>2. CASE paths' = paths
    BY <1>1, <1>2, <2>2 DEF PathsRight, NodeInv, BridgeTypeOK, Kept
  <2>3. QED
    BY <2>1, <2>2 DEF Poll, StartPoll, DetectSession, FetchSchema, FetchConfig,
                      MeasurePorts, BuildReport
<1>5. /\ ready' \in BOOLEAN
      /\ session' \in Sessions \cup {Null}
      /\ pollPc' \in {"start", "detect", "schema", "learn", "fetch", "report"}
      /\ position' \in 1..(LearnSteps + 1)
  <2> USE DEF NodeInv, BridgeTypeOK
  <2>1. CASE StartPoll
    BY <1>3, <2>1 DEF StartPoll
  <2>2. CASE DetectSession
    BY <1>3, <2>2 DEF DetectSession, Continue
  <2>3. CASE FetchSchema
    <3>1. 1 \in 1..(LearnSteps + 1)
      BY <1>3
    <3>2. position' \in {1, position} /\ session' = session
      BY <2>3 DEF FetchSchema
    <3>3. ready' \in BOOLEAN /\ pollPc' \in {"learn", "fetch", "start"}
      BY <2>3 DEF FetchSchema, Continue
    <3>4. QED
      BY <1>3, <3>1, <3>2, <3>3
  <2>4. CASE LearnPath
    <3>1. position' \in 1..(LearnSteps + 1)
      BY <1>3, <2>4 DEF LearnPath
    <3>2. session' = session /\ ready' \in BOOLEAN /\ pollPc' \in {"start", "learn", "fetch"}
      BY <2>4 DEF LearnPath, Continue
    <3>3. QED
      BY <3>1, <3>2
  <2>5. CASE FetchConfig \/ MeasurePorts \/ BuildReport
    BY <1>3, <2>5 DEF FetchConfig, MeasurePorts, BuildReport
  <2>6. QED
    BY <2>1, <2>2, <2>3, <2>4, <2>5 DEF Poll
<1>6. BridgeTypeOK'
  BY <1>1, <1>2, <1>4, <1>5 DEF NodeInv, BridgeTypeOK, Kept
<1>7. QED
  BY <1>1, <1>4, <1>6 DEF NodeInv, CommandAt, UpdatesType

\* What handle_command writes, whatever kind the node is of.
LEMMA ComputedForm ==
  ASSUME NodeInv, commandPc = "handle", Computed # NoUpdate
  PROVE  \/ /\ kind = "amp"
            /\ SettingOf(command) = "target_gain" /\ ChannelOf(command) = Null
            /\ LET path == AmpPath(paths, "target_gain") IN
               /\ DOMAIN Computed = {path}
               /\ Computed[path] \in {command.value, Null}
               /\ LineGainOfZero(command) \/ Computed[path] = command.value
         \/ /\ kind = "roadm"
            /\ \E s \in RoadmSettings : \E target :
                 /\ s = SettingOf(command) /\ paths[s] # NoPath
                 /\ IF s \in Voas
                    THEN /\ ChannelOf(command) = command.channel
                         /\ target = Append(paths[s], command.channel)
                    ELSE ChannelOf(command) = Null /\ target = paths[s]
                 /\ DOMAIN Computed = {target} /\ Computed[target] = command.value
         \/ /\ kind = "source"
            /\ SettingOf(command) = "tx_power"
            /\ LET path == SignalPath(ChannelOf(command)) IN
               /\ path \in Fields
               /\ Computed = [config EXCEPT ![path] = command.value]
<1>1. command \in Commands /\ kind \in Kinds /\ config \in [Fields -> Values]
  BY DEF NodeInv, CommandAt, BridgeTypeOK
<1>2. CASE kind = "amp"
  <2>1. Computed = AmpUpdates(Payload(command), paths)
    BY <1>2 DEF Computed
  <2>2. QED
    BY <1>1, <1>2, <2>1, AmpWrites
<1>3. CASE kind = "roadm"
  <2>1. Computed = RoadmUpdates(Payload(command), paths)
    BY <1>3 DEF Computed
  <2>2. QED
    BY <1>1, <1>3, <2>1, RoadmWrites
<1>4. CASE kind \notin {"amp", "roadm"}
  <2>1. kind = "source" /\ Computed = SourceUpdates(Payload(command), config)
    BY <1>4 DEF Computed
  <2>2. DOMAIN config = Fields
    BY <1>1
  <2>3. QED
    BY <1>1, <2>1, <2>2, SourceWrites
<1>5. QED
  BY <1>2, <1>3, <1>4

LEMMA CommandInv ==
  ASSUME NodeInv, (\E c \in Commands : ReceiveCommand(c)) \/ CommandThread
  PROVE  NodeInv'
<1>1. CASE \E c \in Commands : ReceiveCommand(c)
  BY <1>1, SameDevice
  DEF ReceiveCommand, NodeInv, BridgeTypeOK, CommandAt, UpdatesType, PathsRight,
      pollVars, twilightVars, historyVars
<1>2. CASE Handle
  <2>1. /\ UNCHANGED <<kind, ready, session, paths, pollPc, position>>
        /\ UNCHANGED <<twilightUp, live, config, written, raced, room>>
    BY <1>2 DEF Handle, pollVars, twilightVars, historyVars
  <2>2. /\ commandPc' \in {"receive", "patch"}
        /\ command' \in Commands \cup {Null}
        /\ commandPc' = "patch" => command' \in Commands
    BY <1>2 DEF Handle, Answer, NodeInv, CommandAt, BridgeTypeOK
  <2>3. UpdatesType'
    <3>1. CASE updates' = NoUpdate
      BY <3>1 DEF NoUpdate, UpdatesType
    <3>2. CASE commandPc = "handle" /\ Computed # NoUpdate /\ updates' = Computed
      <4>1. command \in Commands /\ command.value \in Values /\ Null \in Values
        BY <3>2 DEF NodeInv, CommandAt, Values
      <4>2. config \in [Fields -> Values]
        BY DEF NodeInv, BridgeTypeOK
      <4>3. \A p \in DOMAIN Computed : Computed[p] \in Values
        BY <3>2, <4>1, <4>2, ComputedForm
      <4>4. QED
        BY <2>1, <3>2, <4>3 DEF UpdatesType, Values
    <3>3. QED
      BY <1>2, <3>1, <3>2 DEF Handle, Answer
  <2>4. QED
    BY <2>1, <2>2, <2>3, SameDevice DEF NodeInv, BridgeTypeOK, CommandAt, PathsRight
<1>3. CASE Patch
  <2>1. /\ UNCHANGED <<kind, ready, session, paths, pollPc, position, twilightUp, live, room>>
        /\ commandPc' = "receive" /\ command' = Null /\ updates' = NoUpdate
    BY <1>3 DEF Patch, Answer, pollVars
  <2>2. config' \in [Fields -> Values] /\ written' \in [Fields -> Values] /\ raced' \subseteq Fields
    <3>1. CASE UNCHANGED <<config, written, raced>>
      BY <3>1 DEF NodeInv, BridgeTypeOK
    <3>2. CASE ~UNCHANGED <<config, written, raced>>
      <4>1. commandPc = "patch"
        BY <1>3 DEF Patch
      <4>2. command.value \in Values
        BY <4>1 DEF NodeInv, CommandAt, Values
      <4>3. \A p \in Fields : config[p] \in Values /\ written[p] \in Values
        BY DEF NodeInv, BridgeTypeOK
      <4>4. \A p \in DOMAIN updates : updates[p] \in Values
        BY DEF NodeInv, UpdatesType
      <4>5. /\ config' = [p \in Fields |-> IF p \in DOMAIN updates THEN updates[p] ELSE config[p]]
            /\ written' = [p \in Fields |-> IF p = Meant THEN command.value ELSE written[p]]
            /\ raced' = raced \ {Meant}
        BY <1>3, <3>2 DEF Patch
      <4>6. raced \subseteq Fields
        BY DEF NodeInv, BridgeTypeOK
      <4>7. QED
        BY <4>2, <4>3, <4>4, <4>5, <4>6
    <3>3. QED
      BY <3>1, <3>2
  <2>3. QED
    BY <2>1, <2>2, SameDevice
    DEF NodeInv, BridgeTypeOK, CommandAt, UpdatesType, PathsRight, NoUpdate
<1>4. QED
  BY <1>1, <1>2, <1>3 DEF CommandThread

\* Twilight and its other users only touch the device.
LEMMA TwilightInv ==
  ASSUME NodeInv, Outage \/ NewSession \/ BrokerRoom \/ \E p \in Fields : SetByOther(p)
  PROVE  NodeInv'
<1>1. UNCHANGED <<kind, ready, session, paths, pollPc, position, commandPc, command, updates>>
  BY DEF Outage, NewSession, BrokerRoom, SetByOther, pollVars, commandVars
<1>2. /\ twilightUp' \in BOOLEAN /\ live' \in Sessions
      /\ config' \in [Fields -> Values] /\ written' \in [Fields -> Values]
      /\ raced' \subseteq Fields /\ room' \in BOOLEAN
  <2> USE DEF NodeInv, BridgeTypeOK
  <2>1. CASE Outage
    BY <2>1 DEF Outage, historyVars
  <2>2. CASE NewSession
    BY <2>2 DEF NewSession, Fresh, Values
  <2>3. CASE \E p \in Fields : SetByOther(p)
    BY <2>3 DEF SetByOther, Values
  <2>4. CASE BrokerRoom
    BY <2>4 DEF BrokerRoom, twilightVars, historyVars
  <2>5. QED
    BY <2>1, <2>2, <2>3, <2>4
<1>3. QED
  BY <1>1, <1>2, SameDevice DEF NodeInv, BridgeTypeOK, CommandAt, UpdatesType, PathsRight

LEMMA NodeStep == NodeInv /\ [BridgeNext]_bridgeVars => NodeInv'
<1> SUFFICES ASSUME NodeInv, [BridgeNext]_bridgeVars
             PROVE  NodeInv'
  OBVIOUS
<1>1. CASE UNCHANGED bridgeVars
  BY <1>1, SameDevice
  DEF bridgeVars, pollVars, commandVars, twilightVars, historyVars, NodeInv, BridgeTypeOK,
      CommandAt, UpdatesType, PathsRight
<1>2. CASE BridgeNext
  BY <1>2, PollInv, CommandInv, TwilightInv DEF BridgeNext
<1>3. QED
  BY <1>1, <1>2

LEMMA NodeInvariance == BridgeSpec => []NodeInv
BY BridgeInitInv, NodeStep, PTL DEF BridgeSpec

\* Every variable of a bridge node keeps its type, whichever commands it is
\* sent and whichever schema its device has: each path it learns is one of the
\* device, and its loop over the fields ends one behind the last.
THEOREM BridgeTypeCorrect == BridgeSpec => []BridgeTypeOK
<1>1. NodeInv => BridgeTypeOK
  BY DEF NodeInv
<1>2. QED
  BY <1>1, NodeInvariance, PTL

-----------------------------------------------------------------------------
(***************************************************************************)
(* What is about to be written, if the device takes it: the value of the   *)
(* command to the field it means, and to no other field but, from a source *)
(* terminal, what that field held when the terminal read it.               *)
(***************************************************************************)
UpdatesMeant ==
  commandPc = "patch" /\ DOMAIN updates \subseteq Fields =>
    /\ Meant \in DOMAIN updates /\ updates[Meant] = command.value
    /\ \A p \in DOMAIN updates \ {Meant} :
         kind = "source" /\ (updates[p] = config[p] \/ p \in raced)
WriteInv == UpdatesMeant /\ LastWriteStands

LEMMA WriteInit == BridgeInit => WriteInv
BY DEF BridgeInit, WriteInv, UpdatesMeant, LastWriteStands

\* handle_command computes what the command means, though the paths may be
\* half learned: a path that is known is right, and so is the one that a line
\* amplifier falls back to.
LEMMA HandleMeant ==
  ASSUME NodeInv, NoZeroGain, commandPc = "handle", Computed # NoUpdate,
         DOMAIN Computed \subseteq Fields
  PROVE  /\ Meant \in DOMAIN Computed /\ Computed[Meant] = command.value
         /\ \A p \in DOMAIN Computed \ {Meant} :
              kind = "source" /\ Computed[p] = config[p]
<1>1. /\ kind \in Kinds /\ command \in Commands /\ config \in [Fields -> Values]
      /\ paths \in [Settings -> Kept]
  BY DEF NodeInv, CommandAt, BridgeTypeOK, Kept
<1>2. CASE kind = "amp"
  <2> DEFINE path == AmpPath(paths, "target_gain")
  <2>1. /\ SettingOf(command) = "target_gain" /\ ChannelOf(command) = Null
        /\ DOMAIN Computed = {path} /\ Computed[path] = command.value
    BY <1>1, <1>2, ComputedForm DEF NoZeroGain
  <2>2. \E f \in FieldsOf(kind) : f.path = path /\ f.setting = "target_gain"
    <3>1. CASE paths["target_gain"] # NoPath
      <4>1. "target_gain" \in Settings
        BY <1>2 DEF Settings, AmpSettings
      <4>2. path = paths["target_gain"]
        BY <3>1 DEF AmpPath
      <4>3. QED
        BY <3>1, <4>1, <4>2 DEF NodeInv, PathsRight, Voas
    <3>2. CASE paths["target_gain"] = NoPath
      <4>1. path = <<"components", "amp", "target_gain">>
        BY <3>2 DEF AmpPath
      <4>2. PICK f \in FieldsOf(kind) : f.path = path
        BY <2>1, FieldPaths
      <4>3. f.setting = "target_gain"
        BY <1>1, <1>2, <4>1, <4>2, SchemaFacts DEF NameTells, AmpSettings
      <4>4. QED
        BY <4>2, <4>3
    <3>3. QED
      BY <3>1, <3>2
  <2> HIDE DEF path
  <2>3. Meant = path
    BY <1>1, <2>1, <2>2, MeantPath, NoChannel DEF Means, Voas
  <2>4. QED
    BY <2>1, <2>3
<1>3. CASE kind = "roadm"
  <2>1. PICK s \in RoadmSettings :
          \E target :
            /\ s = SettingOf(command) /\ paths[s] # NoPath
            /\ IF s \in Voas
               THEN /\ ChannelOf(command) = command.channel
                    /\ target = Append(paths[s], command.channel)
               ELSE ChannelOf(command) = Null /\ target = paths[s]
            /\ DOMAIN Computed = {target} /\ Computed[target] = command.value
    BY <1>3, ComputedForm
  <2>2. PICK target :
            /\ s = SettingOf(command) /\ paths[s] # NoPath
            /\ IF s \in Voas
               THEN /\ ChannelOf(command) = command.channel
                    /\ target = Append(paths[s], command.channel)
               ELSE ChannelOf(command) = Null /\ target = paths[s]
            /\ DOMAIN Computed = {target} /\ Computed[target] = command.value
    BY <2>1
  <2>3. PICK f \in FieldsOf(kind) :
          f.setting = s /\ paths[s] = IF s \in Voas THEN BaseOf(f.path) ELSE f.path
    BY <1>3, <2>2 DEF NodeInv, PathsRight, Settings
  <2>4. PICK g \in FieldsOf(kind) : g.path = target
    BY <2>2, FieldPaths
  <2>5. \E h \in FieldsOf(kind) : h.path = target /\ Means(command, h)
    <3>1. CASE s \in Voas
      <4>1. ChannelTells(f, g)
        BY <1>1, SchemaFacts
      <4>2. g.setting = s /\ g.channel = command.channel
        BY <1>1, <2>2, <2>3, <2>4, <3>1, <4>1 DEF ChannelTells
      <4>3. QED
        BY <2>2, <2>4, <3>1, <4>2 DEF Means
    <3>2. CASE s \notin Voas
      <4>1. f.channel = Null
        BY <1>1, <2>3, <3>2, NoChannel DEF RoadmSettings
      <4>2. QED
        BY <2>2, <2>3, <3>2, <4>1 DEF Means
    <3>3. QED
      BY <3>1, <3>2
  <2>6. Meant = target
    BY <1>1, <2>5, MeantPath
  <2>7. QED
    BY <2>2, <2>6
<1>4. CASE kind \notin {"amp", "roadm"}
  <2> DEFINE path == SignalPath(ChannelOf(command))
  <2>1. /\ kind = "source" /\ SettingOf(command) = "tx_power" /\ path \in Fields
        /\ Computed = [config EXCEPT ![path] = command.value]
    BY <1>4, ComputedForm
  <2>2. PICK f \in FieldsOf(kind) : f.path = path
    BY <2>1, FieldPaths
  <2>3. f.setting = "tx_power" /\ f.path = SignalPath(f.channel)
    BY <1>1, <2>1, SchemaFacts DEF NameTells
  <2>4. f.channel = ChannelOf(command)
    BY <2>2, <2>3 DEF SignalPath
  <2>5. Meant = path
    BY <1>1, <2>1, <2>2, <2>3, <2>4, MeantPath DEF Means
  <2> HIDE DEF path
  <2>6. QED
    BY <1>1, <2>1, <2>5
<1>5. QED
  BY <1>2, <1>3, <1>4

\* Meant depends on the command and the kind of node alone.
LEMMA SameMeant ==
  ASSUME UNCHANGED <<kind, command>>
  PROVE  Meant' = Meant
BY DEF Meant, Means, SettingOf, ChannelOf

LEMMA WriteStep ==
  ASSUME NodeInv, NodeInv', NoZeroGain, WriteInv, [BridgeNext]_bridgeVars
  PROVE  WriteInv'
<1> USE DEF WriteInv
<1>1. CASE UNCHANGED bridgeVars \/ Poll \/ Outage \/ BrokerRoom
  <2>1. UNCHANGED <<kind, commandPc, command, updates, config, written, raced>>
    BY <1>1 DEF Poll, Outage, BrokerRoom, bridgeVars, pollVars, commandVars, twilightVars, historyVars
  <2>2. QED
    BY <2>1, SameMeant, SameDevice DEF UpdatesMeant, LastWriteStands
<1>2. CASE \E c \in Commands : ReceiveCommand(c)
  <2>1. commandPc' = "handle" /\ UNCHANGED <<kind, config, written, raced>>
    BY <1>2 DEF ReceiveCommand, twilightVars, historyVars
  <2>2. QED
    BY <2>1, SameDevice DEF UpdatesMeant, LastWriteStands
<1>3. CASE Handle
  <2>1. UNCHANGED <<kind, config, written, raced>>
    BY <1>3 DEF Handle, twilightVars, historyVars
  <2>2. CASE commandPc' = "patch"
    <3>1. /\ commandPc = "handle" /\ Computed # NoUpdate
          /\ updates' = Computed /\ command' = command
      BY <1>3, <2>2 DEF Handle, Answer
    <3>2. QED
      BY <2>1, <3>1, HandleMeant, SameMeant, SameDevice DEF UpdatesMeant, LastWriteStands
  <2>3. CASE commandPc' # "patch"
    BY <2>1, <2>3, SameDevice DEF UpdatesMeant, LastWriteStands
  <2>4. QED
    BY <2>2, <2>3
<1>4. CASE Patch
  <2>1. commandPc = "patch" /\ commandPc' = "receive" /\ kind' = kind
    BY <1>4 DEF Patch, Answer
  <2>2. CASE UNCHANGED <<config, written, raced>>
    BY <2>1, <2>2, SameDevice DEF UpdatesMeant, LastWriteStands
  <2>3. CASE ~UNCHANGED <<config, written, raced>>
    <3>1. /\ DOMAIN updates \subseteq Fields
          /\ config' = [p \in Fields |-> IF p \in DOMAIN updates THEN updates[p] ELSE config[p]]
          /\ written' = [p \in Fields |-> IF p = Meant THEN command.value ELSE written[p]]
          /\ raced' = raced \ {Meant}
      BY <1>4, <2>3 DEF Patch
    <3>2. ASSUME NEW p \in Fields
          PROVE  config'[p] = written'[p] \/ p \in raced'
      <4>1. CASE p = Meant
        BY <2>1, <3>1, <4>1 DEF UpdatesMeant
      <4>2. CASE p # Meant
        BY <2>1, <3>1, <4>2 DEF UpdatesMeant, LastWriteStands
      <4>3. QED
        BY <4>1, <4>2
    <3>3. QED
      BY <2>1, <3>2, SameDevice DEF UpdatesMeant, LastWriteStands
  <2>4. QED
    BY <2>2, <2>3
<1>5. CASE NewSession
  <2>1. /\ UNCHANGED <<kind, commandPc, command, updates>>
        /\ config' = Fresh /\ written' = Fresh
        /\ raced' = IF Racing THEN Fields ELSE {}
    BY <1>5 DEF NewSession, pollVars, commandVars
  <2>2. LastWriteStands'
    BY <2>1, SameDevice DEF LastWriteStands
  <2>3. UpdatesMeant'
    BY <2>1, SameDevice, SameMeant DEF UpdatesMeant, Racing
  <2>4. QED
    BY <2>2, <2>3
<1>6. ASSUME NEW p \in Fields, SetByOther(p)
      PROVE  WriteInv'
  <2>1. /\ UNCHANGED <<kind, commandPc, command, updates>>
        /\ config' = [config EXCEPT ![p] = OtherValue]
        /\ written' = [written EXCEPT ![p] = OtherValue]
        /\ raced' = IF Racing THEN raced \cup {p} ELSE raced \ {p}
    BY <1>6 DEF SetByOther, pollVars, commandVars
  <2>2. DOMAIN config = Fields /\ DOMAIN written = Fields
    BY DEF NodeInv, BridgeTypeOK
  <2>3. LastWriteStands'
    BY <2>1, <2>2, SameDevice DEF LastWriteStands
  <2>4. UpdatesMeant'
    BY <2>1, <2>2, SameDevice, SameMeant DEF UpdatesMeant, Racing
  <2>5. QED
    BY <2>3, <2>4
<1>7. QED
  BY <1>1, <1>2, <1>3, <1>4, <1>5, <1>6 DEF BridgeNext, CommandThread

\* Every field of a device holds what was last set, by a command that means it
\* or by somebody else, while the paths are learned, PATCHes are lost and
\* Twilight is started anew; only a source terminal undoes what another set
\* between its read and its write.
THEOREM NoStrayWrites ==
  ASSUME NoZeroGain
  PROVE  BridgeSpec => []LastWriteStands
<1>1. BridgeInit => WriteInv
  BY WriteInit
<1>2. NodeInv /\ NodeInv' /\ WriteInv /\ [BridgeNext]_bridgeVars => WriteInv'
  BY WriteStep
<1>3. WriteInv => LastWriteStands
  BY DEF WriteInv
<1>4. QED
  BY <1>1, <1>2, <1>3, NodeInvariance, PTL DEF BridgeSpec

\* But for a gain of zero, a PATCH that changes the device gives the field that
\* the command means the command's value, as the command's documentation says.
THEOREM CommandsAsMeant ==
  ASSUME NoZeroGain
  PROVE  BridgeSpec => PatchAsCommanded
<1>1. BridgeInit => WriteInv
  BY WriteInit
<1>2. NodeInv /\ NodeInv' /\ WriteInv /\ [BridgeNext]_bridgeVars => WriteInv'
  BY WriteStep
<1> DEFINE AsMeant == commandPc = "patch" /\ commandPc' = "receive" /\ config' # config
                        => config'[Meant] = command.value
<1>3. NodeInv /\ NodeInv' /\ WriteInv /\ [BridgeNext]_bridgeVars => [AsMeant]_bridgeVars
  <2> SUFFICES ASSUME NodeInv, WriteInv, BridgeNext,
                      commandPc = "patch", commandPc' = "receive", config' # config
               PROVE  config'[Meant] = command.value
    BY DEF bridgeVars, commandVars, twilightVars
  <2>1. Patch
    BY DEF BridgeNext, Poll, ReceiveCommand, CommandThread, Handle, Outage, NewSession,
           BrokerRoom, SetByOther, commandVars
  <2>2. /\ DOMAIN updates \subseteq Fields
        /\ config' = [p \in Fields |-> IF p \in DOMAIN updates THEN updates[p] ELSE config[p]]
    BY <2>1 DEF Patch
  <2>3. QED
    BY <2>2 DEF WriteInv, UpdatesMeant
<1>4. QED
  BY <1>1, <1>2, <1>3, NodeInvariance, PTL DEF BridgeSpec, PatchAsCommanded

-----------------------------------------------------------------------------
(***************************************************************************)
(* The register.  What its two threads know of where they are.  The server *)
(* publishes for a request to publish and sets a counter for one to        *)
(* register.  The checker has a node in hand between two of its commands   *)
(* on it, whose counter is there until the checker itself deletes it, and  *)
(* it writes back no counter that has run out.                             *)
(***************************************************************************)
ServerAt ==
  /\ serverPc \in {"sadd", "set"} => serving[2] = "register"
  /\ serverPc = "publish" => serving[2] \in {"pms", "ctrls"}
CheckerAt ==
  /\ checkerPc \in {"get", "set", "delete", "srem"} => todo # <<>>
  /\ checkerPc = "get" => Monitored(Head(todo))
  /\ checkerPc = "set" => aged \in 0..Grace
RegisterInv == RegisterTypeOK /\ ServerAt /\ CheckerAt /\ MembersMonitored

USE RegisterAssumption DEF Requests, Nobody, Monitored

-----------------------------------------------------------------------------
\* The order in which the checker takes the nodes is a sequence of nodes.
LEMMA OrderType ==
  ASSUME NEW S \in SUBSET Nodes, NEW order \in SetToSeqs(S)
  PROVE  order \in Seq(Nodes)
<1>1. IsFiniteSet(S)
  BY FS_Subset
<1>2. Cardinality(S) \in Nat
  BY <1>1, FS_CardinalityType
<1>3. order \in [1..Cardinality(S) -> Nodes]
  BY DEF SetToSeqs
<1>4. QED
  BY <1>2, <1>3

\* What an answer does to the process that asked.
LEMMA ReplyType ==
  ASSUME RegisterTypeOK, NEW n \in Nodes, NEW op \in Requests, NEW ok \in BOOLEAN,
         Reply(n, op, ok)
  PROVE  /\ serverPc' = "recv" /\ serving' = Nobody
         /\ nodePc' \in [Nodes -> Requests \cup {"off", "up"}]
         /\ inbox' \in [Nodes -> Requests \cup {"none"}]
<1>1. AfterReply(n, op, ok) \in Requests \cup {"off", "up"}
  BY DEF AfterReply, NextRequest
<1>2. QED
  BY <1>1 DEF Reply, RegisterTypeOK

-----------------------------------------------------------------------------
LEMMA RegisterInitInv == Init => RegisterInv
BY DEF Init, RegisterInv, RegisterTypeOK, ServerAt, CheckerAt, MembersMonitored

\* Steps of the nodes, and of time, touch neither thread but for the end of the
\* checker's sleep.
LEMMA NodeStepInv ==
  ASSUME RegisterInv, (\E n \in Nodes : Start(n) \/ Crash(n)) \/ Tick
  PROVE  RegisterInv'
<1> USE DEF RegisterInv, RegisterTypeOK, ServerAt, CheckerAt, MembersMonitored,
            redis, server, checker, bounds, node
<1>1. CASE \E n \in Nodes : Start(n)
  BY <1>1 DEF Start
<1>2. CASE \E n \in Nodes : Crash(n)
  BY <1>2 DEF Crash
<1>3. CASE Tick
  BY <1>3 DEF Tick
<1>4. QED
  BY <1>1, <1>2, <1>3

\* The server, which alone registers nodes and never deletes a counter.
LEMMA ServerStepInv ==
  ASSUME RegisterInv, ServerStep
  PROVE  RegisterInv'
<1> USE DEF RegisterInv, ServerAt, CheckerAt, MembersMonitored,
            redis, node, server, checker, bounds
<1>1. ASSUME NEW n \in Nodes, ServeRequest(n)
      PROVE  RegisterInv'
  <2>1. inbox[n] \in Requests
    BY <1>1 DEF RegisterTypeOK, ServeRequest
  <2>2. CASE Accepted(n, inbox[n]) /\ serverPc' = FirstCommand(inbox[n])
    <3>1. /\ serving' = <<n, inbox[n]>>
          /\ inbox' \in [Nodes -> Requests \cup {"none"}]
          /\ nodePc' = nodePc
      BY <1>1, <2>1, <2>2 DEF ServeRequest, RegisterTypeOK, Reply, FirstCommand
    <3>2. QED
      BY <1>1, <2>1, <2>2, <3>1 DEF ServeRequest, RegisterTypeOK, FirstCommand
  <2>3. CASE Reply(n, inbox[n], FALSE)
    BY <1>1, <2>1, <2>3, ReplyType DEF ServeRequest, RegisterTypeOK
  <2>4. QED
    BY <1>1, <2>2, <2>3 DEF ServeRequest
<1>2. CASE AddMember
  BY <1>2 DEF AddMember, RegisterTypeOK
<1>3. CASE SetCounter
  <2>1. serving[1] \in Nodes
    BY <1>3 DEF SetCounter, RegisterTypeOK
  <2>2. /\ serverPc' = "recv" /\ serving' = Nobody
        /\ nodePc' \in [Nodes -> Requests \cup {"off", "up"}]
        /\ inbox' \in [Nodes -> Requests \cup {"none"}]
    BY <1>3, <2>1, ReplyType DEF SetCounter
  <2>3. /\ DOMAIN counter' = DOMAIN counter \cup {serving[1]}
        /\ \A j \in DOMAIN counter' :
             counter'[j] = IF j = serving[1] THEN Grace ELSE counter[j]
    BY <1>3 DEF SetCounter, Put
  <2>4. QED
    BY <1>3, <2>1, <2>2, <2>3 DEF SetCounter, RegisterTypeOK
<1>4. CASE Publish
  <2>1. serving[1] \in Nodes /\ serving[2] \in Requests
        /\ serving \in Nodes \X {"pms", "ctrls"}
    BY <1>4 DEF Publish, RegisterTypeOK
  <2>2. QED
    BY <1>4, <2>1, ReplyType DEF Publish, RegisterTypeOK
<1>5. CASE ReadCounter
  <2>1. serving[1] \in Nodes
    BY <1>5 DEF ReadCounter, RegisterTypeOK
  <2>2. CASE Monitored(serving[1])
    BY <1>5, <2>2 DEF ReadCounter, RegisterTypeOK
  <2>3. CASE ~Monitored(serving[1])
    BY <1>5, <2>1, <2>3, ReplyType DEF ReadCounter, RegisterTypeOK
  <2>4. QED
    BY <2>2, <2>3
<1>6. CASE PutCounter
  <2>1. serving[1] \in Nodes
    BY <1>6 DEF PutCounter, RegisterTypeOK
  <2>2. /\ serverPc' = "recv" /\ serving' = Nobody
        /\ nodePc' \in [Nodes -> Requests \cup {"off", "up"}]
        /\ inbox' \in [Nodes -> Requests \cup {"none"}]
    BY <1>6, <2>1, ReplyType DEF PutCounter
  <2>3. /\ DOMAIN counter' = DOMAIN counter \cup {serving[1]}
        /\ \A j \in DOMAIN counter' :
             counter'[j] = IF j = serving[1] THEN Beat ELSE counter[j]
    BY <1>6 DEF PutCounter, Put
  <2>4. QED
    BY <1>6, <2>1, <2>2, <2>3 DEF PutCounter, RegisterTypeOK
<1>7. QED
  BY <1>1, <1>2, <1>3, <1>4, <1>5, <1>6 DEF ServerStep

\* The checker, which alone unregisters nodes and deletes counters.
LEMMA CheckerStepInv ==
  ASSUME RegisterInv, CheckerStep
  PROVE  RegisterInv'
<1> USE DEF RegisterInv, RegisterTypeOK, ServerAt, CheckerAt, MembersMonitored,
            redis, node, server, checker, bounds
<1>1. CASE ListNodes
  BY <1>1, OrderType DEF ListNodes
<1>2. CASE CheckExists
  <2>1. CASE todo = <<>>
    BY <1>2, <2>1 DEF CheckExists
  <2>2. CASE todo # <<>> /\ Monitored(Head(todo))
    BY <1>2, <2>2 DEF CheckExists
  <2>3. CASE todo # <<>> /\ ~Monitored(Head(todo))
    BY <1>2, <2>3 DEF CheckExists
  <2>4. QED
    BY <2>1, <2>2, <2>3
<1>3. CASE ReadAge
  BY <1>3 DEF ReadAge
<1>4. CASE WriteAge
  <2>1. Head(todo) \in Nodes /\ Tail(todo) \in Seq(Nodes)
    BY <1>4 DEF WriteAge
  <2>2. /\ DOMAIN counter' = DOMAIN counter \cup {Head(todo)}
        /\ \A j \in DOMAIN counter' :
             counter'[j] = IF j = Head(todo) THEN aged ELSE counter[j]
    BY <1>4 DEF WriteAge, Put
  <2>3. QED
    BY <1>4, <2>1, <2>2 DEF WriteAge
<1>5. CASE DeleteCounter
  BY <1>5 DEF DeleteCounter, Erase
<1>6. CASE RemoveMember
  <2>1. RegisterTypeOK'
    <3>1. /\ members' \subseteq Nodes
          /\ todo' = <<>> /\ aged' = 0 /\ checkerPc' = "list"
      BY <1>6 DEF RemoveMember
    <3>2. /\ UNCHANGED <<counter, published, nodePc, inbox>>
          /\ UNCHANGED <<serverPc, serving, crashes, restarts>>
      BY <1>6 DEF RemoveMember
    <3>3. QED
      BY <3>1, <3>2
  <2>2. ASSUME restarts' = 0, NEW n \in members'
        PROVE  Monitored(n)' \/ (serverPc = "set" /\ serving[1] = n)'
    <3>1. n \in members /\ n # Head(todo) /\ restarts = 0
      BY <1>6, <2>2 DEF RemoveMember
    <3>2. Monitored(n) \/ (serverPc = "set" /\ serving[1] = n)
      BY <3>1
    <3>3. QED
      BY <1>6, <3>2 DEF RemoveMember
  <2>3. QED
    BY <1>6, <2>1, <2>2 DEF RemoveMember
<1>7. QED
  BY <1>1, <1>2, <1>3, <1>4, <1>5, <1>6 DEF CheckerStep

LEMMA RestartInv ==
  ASSUME RegisterInv, Restart
  PROVE  RegisterInv'
BY DEF Restart, RegisterInv, RegisterTypeOK, ServerAt, CheckerAt, MembersMonitored, redis

LEMMA RegisterStepInv == RegisterInv /\ [Next]_registerVars => RegisterInv'
<1> SUFFICES ASSUME RegisterInv, [Next]_registerVars
             PROVE  RegisterInv'
  OBVIOUS
<1>1. CASE UNCHANGED registerVars
  BY <1>1 DEF registerVars, redis, node, server, checker, bounds, RegisterInv,
              RegisterTypeOK, ServerAt, CheckerAt, MembersMonitored
<1>2. CASE Next
  BY <1>2, NodeStepInv, ServerStepInv, CheckerStepInv, RestartInv DEF Next
<1>3. QED
  BY <1>1, <1>2

LEMMA RegisterInvariance == RegisterSpec => []RegisterInv
BY RegisterInitInv, RegisterStepInv, PTL DEF RegisterSpec

-----------------------------------------------------------------------------
\* Every variable keeps its type: no counter below zero or above that of a new
\* node is ever written, whatever the two threads do between each other's
\* commands.
THEOREM RegisterTypeCorrect == RegisterSpec => []RegisterTypeOK
<1>1. RegisterInv => RegisterTypeOK
  BY DEF RegisterInv
<1>2. QED
  BY <1>1, RegisterInvariance, PTL

\* A node is never left registered without a counter, between the writes of
\* the thread that answers nodes and of the one that unregisters them, for as
\* long as the register is not restarted.
THEOREM RegisteredIsMonitored == RegisterSpec => []MembersMonitored
<1>1. RegisterInv => MembersMonitored
  BY DEF RegisterInv
<1>2. QED
  BY <1>1, RegisterInvariance, PTL
=============================================================================
