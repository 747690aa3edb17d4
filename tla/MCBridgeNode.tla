---------------------------- MODULE MCBridgeNode ----------------------------
(* TLC instance of BridgeNode: one node of each kind, and for each at least *)
(* one command it knows and some meant for the others.                      *)
EXTENDS BridgeNode

F(p, s, ch, w) == [path |-> p, setting |-> s, channel |-> ch, words |-> w]
MuxWords == {"mux", "channel_attenuations"}
MCSchema ==
  [amp |-> <<F(<<"preamp", "target_gain">>, "preamp_gain", Null, {"pre", "preamp", "target_gain"}),
             F(<<"components", "amp", "target_gain">>, "target_gain", Null, {"target_gain"}),
             F(<<"components", "amp", "gain_tilt">>, "gain_tilt", Null, {"gain_tilt"})>>,
   roadm |-> <<F(<<"pre", "target_gain">>, "preamp_gain", Null, {"pre", "target_gain"}),
               F(<<"mux", "channel_attenuations", "1">>, "voa_mux", "1", MuxWords),
               F(<<"mux", "channel_attenuations", "2">>, "voa_mux", "2", MuxWords),
               F(<<"demux", "channel_attenuations", "1">>, "voa_demux", "1",
                 MuxWords \cup {"demux"})>>,
   source |-> <<F(SignalPath("1"), "tx_power", "1", {}), F(SignalPath("2"), "tx_power", "2", {})>>,
   end |-> <<>>]

C(n, p, ch) == [name |-> n, part |-> p, channel |-> ch, value |-> 1]
Zero(c) == [c EXCEPT !.value = 0]
AmpGain == C("SET_GAIN", "line", Null)
OldAmpGain == C("AMPLIFIER_GAIN", "none", Null)
PreampGain == C("SET_GAIN", "preamp", Null)
BoosterGain == C("SET_GAIN", "booster", Null)
Mux == C("SET_VOA", "mux", "1")
MuxOther == C("SET_VOA", "mux", "2")
MuxNoChannel == C("SET_VOA", "mux", Null)
Demux == C("SET_VOA", "demux", "1")
DemuxUnknown == C("SET_VOA", "demux", "2")
Tilt == C("SET_TILT", "none", Null)
TxPower1 == C("SET_TX_POWER", "none", "1")
TxPower2 == C("SET_TX_POWER", "compact", "2")
MCCommands == {AmpGain, Zero(OldAmpGain), PreampGain, BoosterGain, Zero(Mux), MuxOther,
               MuxNoChannel, Demux, DemuxUnknown, Tilt, TxPower1, TxPower2}

\* The lowest gain the example's validator lets through.
ZeroGain == {Zero(AmpGain), Zero(OldAmpGain)}
=============================================================================
