----------------------------- MODULE MCFrontEnd ------------------------------
(* Small instances of the receive path: the tuning of a session on the real   *)
(* channel counts, one lane of the channelizer, the two bitstream decoders    *)
(* with their channel processors, and the codecs behind them.  A behaviour    *)
(* runs one of them.                                                          *)
EXTENDS Tuning, LaneStamps, BleFraming, BredrFraming, MCCodecs

VARIABLE stage

MCMaxRate == ("hackrf" :> 20 @@ "file" :> 80)
MCAdvAa == <<0, 0, 1>>
MCWhitening == <<1, 0>>
MCLapOf == (<<1, 1, 0>> :> "lap1" @@ <<0, 1, 0>> :> "lap2"
              @@ <<1, 1, 1>> :> "giac")

StagesInit ==
  /\ stage \in {"tuning", "lane", "ble", "bredr", "codec"}
  /\ TuningInit /\ LaneInit /\ FramingInit /\ AirInit
  /\ stage # "bredr" => proc.filter = {}
  /\ stage # "tuning" => device = "file" /\ mode = "hybrid"
  /\ IF stage = "codec" THEN CodecsInit ELSE CodecsIdle

StagesNext ==
  \/ stage = "tuning" /\ TuningNext
       /\ UNCHANGED <<stage, laneVars, framingVars, airVars, codecVars>>
  \/ stage = "lane" /\ LaneNext
       /\ UNCHANGED <<stage, tuningVars, framingVars, airVars, codecVars>>
  \/ stage = "ble" /\ FramingNext
       /\ UNCHANGED <<stage, tuningVars, laneVars, airVars, codecVars>>
  \/ stage = "bredr" /\ AirNext
       /\ UNCHANGED <<stage, tuningVars, laneVars, framingVars, codecVars>>
  \/ stage = "codec" /\ CodecsNext
       /\ UNCHANGED <<stage, tuningVars, laneVars, framingVars, airVars>>

StagesSpec ==
  StagesInit /\ [][StagesNext]_<<stage, tuningVars, laneVars, framingVars, airVars, codecVars>>
=============================================================================
