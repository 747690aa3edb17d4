--------------------------- MODULE DeviceCommands ---------------------------
(***************************************************************************)
(* What a command becomes on its way to a device: the handlers of          *)
(* control_application_v2_example/commands.py turn its parameters into the *)
(* payload a node gets, and the Twilight nodes turn the payload into fields*)
(* of the device's configuration, whose names they look up in the device's *)
(* schema.  A payload and an update are functions from keys to values; a   *)
(* field's path is the sequence of the names that dots join in the code.   *)
(***************************************************************************)
EXTENDS Naturals, Sequences, SequencesExt

CONSTANTS
  Null,      \* None
  NoPath     \* no field of the schema was found

-----------------------------------------------------------------------------
(* commands.py.  c.part is the amp_type or the direction, c.value the value.*)

SetGain(c) ==
  CASE c.part = "preamp" -> [preamp_gain |-> c.value]
    [] c.part = "booster" -> [booster_gain |-> c.value]
    [] OTHER -> [target_gain |-> c.value]

SetVoa(c) ==
  CASE c.part = "mux" -> [channel |-> c.channel, voa_mux |-> c.value]
    [] c.part = "demux" -> [channel |-> c.channel, voa_demux |-> c.value]
    [] OTHER -> [channel |-> c.channel, voa_attenuation |-> c.value]

SetTilt(c) == [tilt_value |-> c.value]
LaunchPower(c) == [launch_power_adjustment |-> c.value]
ChannelAllocation(c) == [channel_allocation |-> c.value]
AmplifierGain(c) == [amplifier_gain |-> c.value]

\* What the source terminal asks for; the key "tx_power_ch_N" of its compact
\* form is "tx_power_ch_" with the channel N beside the value.
TxPower(c) ==
  CASE c.part = "compact" -> [tx_power_ch_ |-> [channel |-> c.channel, power |-> c.value]]
    [] OTHER -> [tx_power |-> c.value, channel |-> c.channel]

\* execute_command: the registered handler of the command.  SET_TX_POWER has
\* none here.
Payload(c) ==
  CASE c.name = "SET_GAIN" -> SetGain(c)
    [] c.name = "SET_VOA" -> SetVoa(c)
    [] c.name = "SET_TILT" -> SetTilt(c)
    [] c.name = "LAUNCH_POWER" -> LaunchPower(c)
    [] c.name = "CHANNEL_ALLOCATION" -> ChannelAllocation(c)
    [] c.name = "AMPLIFIER_GAIN" -> AmplifierGain(c)
    [] c.name = "SET_TX_POWER" -> TxPower(c)

-----------------------------------------------------------------------------
(* Paths in a schema.  A field is a path and the words its name contains.  *)

\* path.rsplit(".", 1)[0], or the path if there is no dot in it.
BaseOf(path) == IF Len(path) > 1 THEN Front(path) ELSE path

\* twilight_client.find_schema_path: the first field that matches.
FindSchemaPath(fields, contains, excludes) ==
  LET fits == {i \in DOMAIN fields :
                 contains \subseteq fields[i].words /\ excludes \cap fields[i].words = {}}
  IN IF fits = {} THEN NoPath
     ELSE fields[CHOOSE i \in fits : \A j \in fits : i <= j].path

NotLine == {"pre_amp", "preamp", "booster", "bst"}
GetAmpGainPath(fields) == FindSchemaPath(fields, {"target_gain"}, NotLine)
GetAmpTiltPath(fields) == FindSchemaPath(fields, {"gain_tilt"}, NotLine)

AmpSettings == {"target_gain", "gain_tilt"}
RoadmSettings == {"preamp_gain", "preamp_tilt", "booster_gain", "booster_tilt",
                  "voa_demux", "voa_mux"}

\* Mutant: "mux" is looked for and "demux", which contains it, not excluded.
RoadmFieldSettingsLoose(words) ==
  {s \in RoadmSettings :
     CASE s = "preamp_gain" -> {"pre", "target_gain"} \subseteq words
       [] s = "preamp_tilt" -> {"pre", "gain_tilt"} \subseteq words
       [] s = "booster_gain" -> {"booster", "target_gain"} \subseteq words
       [] s = "booster_tilt" -> {"booster", "gain_tilt"} \subseteq words
       [] s = "voa_demux" -> {"demux", "channel_attenuations"} \subseteq words
       [] s = "voa_mux" -> {"mux", "channel_attenuations"} \subseteq words}

\* _cache_schema_paths of a ROADM: the settings a field is the path of.
RoadmFieldSettings(words) ==
  {s \in RoadmSettings :
     CASE s = "preamp_gain" -> {"pre", "target_gain"} \subseteq words
       [] s = "preamp_tilt" -> {"pre", "gain_tilt"} \subseteq words /\ "target_gain" \notin words
       [] s = "booster_gain" -> {"booster", "target_gain"} \subseteq words
       [] s = "booster_tilt" -> {"booster", "gain_tilt"} \subseteq words /\ "target_gain" \notin words
       [] s = "voa_demux" -> {"demux", "channel_attenuations"} \subseteq words
       [] s = "voa_mux" -> {"mux", "channel_attenuations"} \subseteq words /\ "demux" \notin words}

\* The loop over the fields overwrites: the last field that matches stays.  Of
\* a VOA, which has a field for each channel, the base of the path is kept.
Voas == {"voa_demux", "voa_mux"}
LearnField(paths, field) ==
  LET found == [s \in RoadmSettings |-> IF s \in Voas THEN BaseOf(field.path) ELSE field.path]
  IN [s \in DOMAIN paths |->
        IF s \in RoadmFieldSettings(field.words) THEN found[s] ELSE paths[s]]

-----------------------------------------------------------------------------
(* handle_command: the fields a payload changes.                           *)

NoUpdate == [p \in {} |-> Null]
Get(payload, key) == IF key \in DOMAIN payload THEN payload[key] ELSE Null
Truthy(v) == v \notin {Null, 0}
OrElse(a, b) == IF Truthy(a) THEN a ELSE b

\* The amplifier falls back to the usual path if it knows none.
AmpPath(paths, s) ==
  IF paths[s] # NoPath THEN paths[s]
  ELSE <<"components", "amp", s>>

AmpUpdates(payload, paths) ==
  LET gain == {"target_gain" : k \in {"target_gain", "amplifier_gain"} \cap DOMAIN payload}
      set == gain \cup ({"gain_tilt"} \cap DOMAIN payload)
      value(s) == IF s = "gain_tilt" THEN payload[s]
                  ELSE OrElse(Get(payload, "target_gain"), Get(payload, "amplifier_gain"))
  IN [p \in {AmpPath(paths, s) : s \in set} |->
        value(CHOOSE s \in set : AmpPath(paths, s) = p)]

\* A VOA needs the channel too; "attenuation" goes before the direction's key.
RoadmValue(payload, s) ==
  IF s \in Voas /\ "attenuation" \in DOMAIN payload
  THEN payload["attenuation"] ELSE payload[s]

\* The path that is written: of a VOA, the base, a dot and the channel.
RoadmTarget(payload, paths, s) ==
  IF s \in Voas THEN Append(paths[s], payload["channel"]) ELSE paths[s]

RoadmUpdates(payload, paths) ==
  LET set == {s \in RoadmSettings \cap DOMAIN payload :
                /\ paths[s] # NoPath
                /\ s \in Voas => /\ Get(payload, "channel") # Null
                                 /\ RoadmValue(payload, s) # Null}
      target(s) == RoadmTarget(payload, paths, s)
  IN [p \in {target(s) : s \in set} |->
        RoadmValue(payload, CHOOSE s \in set : target(s) = p)]

\* The source terminal needs a channel and a power, in one of two formats, and
\* a signal on that channel; it writes back all signals.
SourceSignal(payload) ==
  IF {"tx_power", "channel"} \subseteq DOMAIN payload
  THEN [channel |-> payload["channel"], power |-> payload["tx_power"]]
  ELSE IF "tx_power_ch_" \in DOMAIN payload THEN payload["tx_power_ch_"]
  ELSE [channel |-> Null, power |-> Null]

SignalPath(channel) == <<"tx_signals", channel>>

SourceUpdates(payload, config) ==
  LET signal == SourceSignal(payload)
      path == SignalPath(signal.channel)
  IN IF path \notin DOMAIN config \/ signal.power = Null THEN NoUpdate
     ELSE [config EXCEPT ![path] = signal.power]
=============================================================================
