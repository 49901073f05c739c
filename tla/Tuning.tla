------------------------------- MODULE Tuning -------------------------------
(***************************************************************************)
(* From a requested channel window to the readers that serve it: the       *)
(* layout rules of session_tune, the lane planner and the descriptor       *)
(* tables of the channelizer service, and the clamps the graphical         *)
(* backend applies before it asks.  Rates are in MHz and frequencies in    *)
(* half MHz, the finest step the layout arithmetic produces.               *)
(***************************************************************************)
EXTENDS Integers, FiniteSets, FiniteSetsExt

CONSTANTS
  MaxRate,     \* device -> the highest rate it sustains, in MHz
  AskedCounts  \* the counts a front end may ask for

ASSUME TuningAssumption ==
  /\ \A d \in DOMAIN MaxRate : MaxRate[d] \in 2 .. 80
  /\ AskedCounts \subseteq 0 .. 80

VARIABLES
  device, mode,  \* the session's configuration: device type, enabled protocols
  request,       \* the window last asked for, after the front end's clamps
  offered,       \* history: did the graphical front end offer this window
  tuned,         \* lo_frequency_hz and sample_rate_hz of the session
  status         \* "idle", "tuned", "rejected", "open" or "failed"

tuningVars == <<device, mode, request, offered, tuned, status>>

BlockCapacity == 262144
MaxLanes == 4
LaneRate == 20
BleChannels == 40
BredrChannels == 79

(***************************************************************************)
(* The lane planner                                                        *)
(***************************************************************************)
LanesFor(rate) == (rate + LaneRate - 1) \div LaneRate
BinsFor(rate, grid) == (rate \div LanesFor(rate)) \div grid

Planned(rate, grid) ==
  /\ rate > 0
  /\ LanesFor(rate) <= MaxLanes
  /\ rate % LanesFor(rate) = 0
  /\ (rate \div LanesFor(rate)) % grid = 0
  /\ BinsFor(rate, grid) >= 2
  /\ BinsFor(rate, grid) % 2 = 0

ValidSampleRate(rate, grid) == Planned(rate, grid) \/ Planned(rate, 1)

ValidBredrCount(c) ==
  \/ c = BredrChannels /\ Planned(80, 1)
  \/ c \in 2 .. BredrChannels - 1 /\ c % 2 = 0 /\ Planned(c, 1)

SnapBredrCount(c) == Max({0} \cup {x \in 0 .. BredrChannels : x <= c /\ ValidBredrCount(x)})

(***************************************************************************)
(* The layout of a window                                                  *)
(***************************************************************************)
Hybrid(m) == m = "hybrid"
RefOf(m) == IF m = "ble" THEN "ble" ELSE "bredr"
Refused == [ok |-> FALSE, lo |-> 0, rate |-> 0]
Laid(lo, rate) == [ok |-> TRUE, lo |-> lo, rate |-> rate]

\* Mutant: the whole band is laid out like any other odd window.
BredrLayout_NoAll(bottom, count) ==
  IF bottom + count > BredrChannels THEN Refused
  ELSE Laid(2 * (2402 + bottom) + count - 1, count)

\* The whole band is captured at 80 MHz, centred on the raster.
BredrLayout(bottom, count) ==
  IF bottom + count > BredrChannels THEN Refused
  ELSE IF count = BredrChannels THEN Laid(2 * 2441, 80)
  ELSE Laid(2 * (2402 + bottom) + count - 1, count)

BleLayout(bottom, count) ==
  IF bottom + count > BleChannels THEN Refused
  ELSE Laid(2 * (2401 + 2 * bottom + count), 2 * count)

LayoutRate(m, ref, bottom, count) ==
  IF count = 0 \/ (Hybrid(m) /\ ref # "bredr") THEN Refused
  ELSE IF ref = "ble" THEN BleLayout(bottom, count) ELSE BredrLayout(bottom, count)

Floored(layout) == [layout EXCEPT !.rate = IF @ < 4 THEN 4 ELSE @]
DesiredGrid(ref) == IF ref = "ble" THEN 2 ELSE 1
LayoutCheck(d, ref, rate) ==
  ValidSampleRate(rate, DesiredGrid(ref)) /\ rate <= MaxRate[d]

ValidateLayout(d, m, ref, bottom, count) ==
  LET layout == LayoutRate(m, ref, bottom, count) IN
  layout.ok /\ LayoutCheck(d, ref, Floored(layout).rate)

DefaultBredrCount(d) == SnapBredrCount(MaxRate[d])
DefaultBleCount(d) ==
  LET top == Min({Max({MaxRate[d] \div 2, 1}), BleChannels}) IN
  Max({1} \cup {c \in 1 .. top : ValidateLayout(d, "ble", "ble", 0, c)})

(***************************************************************************)
(* What the graphical front end offers, and the backend's clamps           *)
(***************************************************************************)
AtLeastTwo(c) == IF c < 2 THEN 2 ELSE c

SupportedCounts(d, m) ==
  IF m = "ble"
  THEN {c \in 1 .. BleChannels : ValidateLayout(d, "ble", "ble", 0, c)}
  ELSE {c \in 2 .. BredrChannels : /\ c % 2 = 0 \/ c = BredrChannels
                                   /\ ValidateLayout(d, "hybrid", "bredr", 0, c)}
MaxCount(d, m) ==
  IF m = "ble" THEN DefaultBleCount(d)
  ELSE AtLeastTwo(SnapBredrCount(Min({MaxRate[d], BredrChannels})))
DefaultCount(d, m) == IF m = "ble" THEN DefaultBleCount(d) ELSE DefaultBredrCount(d)

Offered(d, m, bottom, count) ==
  /\ count \in SupportedCounts(d, m) \cup {MaxCount(d, m), DefaultCount(d, m)}
  /\ bottom <= (IF m = "ble" THEN BleChannels ELSE BredrChannels) - count

ClampedBle(bottom, count) ==
  LET c == Min({Max({count, 1}), BleChannels})
      b == Min({bottom, BleChannels - 1})
  IN [bottom |-> b, count |-> Min({c, BleChannels - b})]

ClampedBredr(bottom, count) ==
  LET even == IF count = BredrChannels THEN count ELSE 2 * (count \div 2)
      c == AtLeastTwo(SnapBredrCount(Min({AtLeastTwo(even), BredrChannels})))
  IN [bottom |-> Min({bottom, BredrChannels - c}), count |-> c]

Clamped(m, bottom, count) ==
  IF m = "ble" THEN ClampedBle(bottom, count) ELSE ClampedBredr(bottom, count)

(***************************************************************************)
(* The service built for a tuned window                                    *)
(***************************************************************************)
ServiceGrid == LET want == IF mode = "ble" THEN 2 ELSE 1 IN
               IF Planned(tuned.rate, want) THEN want ELSE 1
Lanes == LanesFor(tuned.rate)
Bins == BinsFor(tuned.rate, ServiceGrid)
HalfBins == Bins \div 2
SubRate == tuned.rate \div Lanes

GridAlign(lo, grid) == ((lo + grid) \div (2 * grid)) * (2 * grid)

\* Mutant: the span is anchored at the radio's LO, off the grid.
SpanLo_Unaligned == tuned.lo - tuned.rate

SpanLo == GridAlign(tuned.lo, ServiceGrid) - tuned.rate
SubCenter(lane) == SpanLo + SubRate + 2 * lane * SubRate
LaneFor(center) == (center - SpanLo) \div (2 * SubRate)

BinForCenter(loEff, center) ==
  LET delta == center - loEff
      k == delta \div (2 * ServiceGrid)
  IN IF delta % (2 * ServiceGrid) # 0 \/ k \notin -(Bins \div 2) .. (Bins \div 2) - 1
     THEN -1 ELSE k % Bins
CenterForBin(loEff, bin) ==
  loEff + 2 * ServiceGrid * (IF bin >= Bins \div 2 THEN bin - Bins ELSE bin)

Stride(proto) == IF proto = "ble" THEN ServiceGrid ELSE 1

Decimation(proto) == Lanes * HalfBins * Stride(proto)

ChannelCenters(proto) ==
  IF proto = "ble" THEN {2 * (2402 + 2 * rf) : rf \in 0 .. BleChannels - 1}
                   ELSE {2 * (2402 + c) : c \in 0 .. BredrChannels - 1}

Abs(x) == IF x < 0 THEN -x ELSE x

\* svc_build_descriptors: the channels inside the span that a lane's bank
\* carries.  The lane index is unsigned: a centre below the span has none.
Descriptors(proto) ==
  {[center |-> c, lane |-> LaneFor(c), bin |-> BinForCenter(SubCenter(LaneFor(c)), c)] :
     c \in {c \in ChannelCenters(proto) :
              /\ Abs(c - tuned.lo) < tuned.rate
              /\ c >= SpanLo
              /\ LaneFor(c) < Lanes
              /\ BinForCenter(SubCenter(LaneFor(c)), c) >= 0}}

\* svc_max_in: the samples fed to a bank at once; view_cap: what a reader holds.
MaxFrames == LET room == BlockCapacity \div Bins
                 kept == 4 * ((IF room > 2 THEN room - 2 ELSE 1) \div 4)
             IN Max({kept, 4})
MaxIn == MaxFrames * HalfBins
ViewCap(proto) == (BlockCapacity \div Bins) \div Stride(proto) + 16

Enabled(proto) == mode \in {proto, "hybrid"}
Protocols == {"ble", "bredr"}

(***************************************************************************)
(* Actions                                                                 *)
(***************************************************************************)
TuningInit ==
  /\ device \in DOMAIN MaxRate
  /\ mode \in {"ble", "bredr", "hybrid"}
  /\ request = [ref |-> RefOf(mode), bottom |-> 0, count |-> 0]
  /\ offered = FALSE
  /\ tuned = [lo |-> 0, rate |-> 0]
  /\ status = "idle"

\* session_tune: the layout is stored before it is checked, so a rejected
\* rate stays in the session; an impossible range leaves the session alone.
Tune(ref, bottom, count) ==
  LET layout == LayoutRate(mode, ref, bottom, count)
      floored == Floored(layout)
  IN /\ request' = [ref |-> ref, bottom |-> bottom, count |-> count]
     /\ tuned' = IF layout.ok THEN [lo |-> floored.lo, rate |-> floored.rate] ELSE tuned
     /\ status' = IF layout.ok /\ LayoutCheck(device, ref, floored.rate)
                  THEN "tuned" ELSE "rejected"
     /\ UNCHANGED <<device, mode>>

\* The command line asks for a window as it was typed.
CliTune ==
  /\ status = "idle"
  /\ \E ref \in Protocols, bottom \in 0 .. BredrChannels - 1, count \in AskedCounts :
       /\ mode = "hybrid" \/ ref = mode
       /\ Tune(ref, bottom, count)
  /\ offered' = FALSE

\* backend_session_run_*: the window chosen in the spectrum view is clamped,
\* then tuned.
GuiTune ==
  /\ status = "idle"
  /\ \E bottom \in 0 .. BredrChannels - 1, count \in AskedCounts :
       LET window == Clamped(mode, bottom, count) IN
       /\ Tune(RefOf(mode), window.bottom, window.count)
       /\ offered' = Offered(device, mode, bottom, count)

\* session_create_channels: the service is planned again from the stored
\* tuning, and each enabled protocol needs at least one channel.
OpenChannels ==
  /\ status = "tuned"
  /\ status' = IF /\ Planned(tuned.rate, ServiceGrid)
                  /\ \A p \in Protocols : Enabled(p) => Descriptors(p) # {}
               THEN "open" ELSE "failed"
  /\ UNCHANGED <<device, mode, request, offered, tuned>>

TuningNext == CliTune \/ GuiTune \/ OpenChannels

TuningSpec == TuningInit /\ [][TuningNext]_tuningVars

(***************************************************************************)
(* Properties                                                              *)
(***************************************************************************)
Wanted == LET first == request.bottom
              last == request.bottom + request.count - 1
          IN IF request.ref = "ble" THEN {2 * (2402 + 2 * c) : c \in first .. last}
                                    ELSE {2 * (2402 + c) : c \in first .. last}

\* A window session_tune accepts is a window the service delivers: every
\* channel asked for has a descriptor, the bin it names is centred on that
\* channel in that lane's bank, and no two channels share a bin.
WindowIsServed ==
  /\ status # "failed"
  /\ status = "open" =>
       /\ Wanted \subseteq {d.center : d \in Descriptors(request.ref)}
       /\ \A p \in {q \in Protocols : Enabled(q)} :
            /\ \A d \in Descriptors(p) : CenterForBin(SubCenter(d.lane), d.bin) = d.center
            /\ Cardinality({<<d.lane, d.bin>> : d \in Descriptors(p)})
                 = Cardinality(Descriptors(p))

\* Every demodulator gets two samples per microsecond whatever the grid and
\* the lanes, a bank's output always fits its block and a reader's view is
\* never too small for it.
ReadersGetEverything ==
  status = "open" =>
    \A p \in {q \in Protocols : Enabled(q)} :
      /\ tuned.rate = 2 * Decimation(p)
      /\ MaxIn > 0 /\ MaxFrames * Bins <= BlockCapacity
      /\ (MaxFrames + Stride(p) - 1) \div Stride(p) <= ViewCap(p)

\* A tuning session_tune accepts is delivered to every reader, in full.
TuningDelivers == WindowIsServed /\ ReadersGetEverything

\* A window the spectrum view lets the user choose is never refused: the
\* counts it offers, the defaults and the maxima all tune at every bottom.
OfferedIsAccepted == offered => status # "rejected"
=============================================================================
