---------------------------- MODULE BredrFraming -----------------------------
(* The framing of a BR/EDR channel: the decoder that looks for access codes   *)
(* and collects what follows them (bredr_bitstream_decoder.c), and the        *)
(* channel processor that stamps each packet with its position and its signal *)
(* strength (bredr_channel_processor.c, rssi_measurements.c).                 *)
(*                                                                            *)
(* The stream comes in blocks; the reader may skip some (a hole) while a      *)
(* packet is being collected.  Positions are those of the channel's samples,  *)
(* two per bit, at a decimation of 1.  What a packet carries is left out, and *)
(* LapOf stands for the barker test, the regenerated sync word and the error  *)
(* tolerance: the LAP a full window is taken for.                             *)
EXTENDS Integers, Sequences, SequencesExt

CONSTANTS
  SyncBits,    \* bits of a sync word: 64
  TrailerBits, \* 4
  HeaderBits,  \* 54
  BodyBits,    \* BR_MAX_AIR_PAYLOAD_BITS
  LapOf,       \* windows taken for an access code -> LAP
  InquiryLaps, \* BREDR_LAP_GIAC, BREDR_LAP_LIAC
  LapFilters,  \* {lap_filter}, or {} when the filter is off
  BlockBits,   \* bits of a block
  HoleSamples, \* length of a hole
  MaxHoles,    \* bound of the model: holes
  MaxAirBits   \* bound of the model: bits of a stream

ASSUME BredrFramingAssumption ==
  /\ {SyncBits, TrailerBits, HeaderBits, BodyBits, BlockBits, HoleSamples}
       \subseteq Nat \ {0}
  /\ DOMAIN LapOf \subseteq [1..SyncBits -> {0, 1}]
  /\ {MaxHoles, MaxAirBits} \subseteq Nat

VARIABLES
  air,     \* bredr_bitstream_decoder_t
  proc,    \* bredr_channel_processor_t, and the session's lap_filter
  block,   \* the block being processed: base, bits done, and its predecessor's end
  holes,   \* holes so far
  track,   \* history: where the last access code was found, and how
  event    \* the last packet handed to the collector, with that history

airVars == <<air, proc, block, holes, track, event>>

NoStamp == -1
NoEvent == [lap |-> "none", header |-> FALSE, startBit |-> 0, stamp |-> 0,
            rssi |-> <<>>, at |-> 0, track |-> <<>>]

\* reset_collection: the window and total_bits_seen stay.
Reset(d) == [d EXCEPT !.state = "searching", !.n = 0, !.run = 0]

AirInit ==
  /\ air = [state |-> "searching", window |-> <<>>, n |-> 0, lap |-> "none",
            startBit |-> 0, trailer |-> TRUE, total |-> 0, run |-> 0]
  /\ proc \in [prev : {"searching"}, stamp : {NoStamp}, rssi : {<<>>},
              filter : LapFilters]
  /\ block = [base |-> 0, done |-> 0, prevEnd |-> NoStamp]
  /\ holes = 0
  /\ track = [end |-> 0, fresh |-> FALSE, searched |-> FALSE, joined |-> FALSE]
  /\ event = NoEvent

-----------------------------------------------------------------------------
(* The decoder: push_bit, one operator per state.  r.frame says whether a     *)
(* packet is ready and whether it has a header.  n counts the bits collected; *)
(* run (history) those shifted into the window since the last packet.         *)

Result(d, status, frame) == [dec |-> d, status |-> status, frame |-> frame]

\* The window moves only while the decoder searches.
Shifted(w, b) == LET s == Append(w, b)
                 IN  IF Len(s) > SyncBits THEN Tail(s) ELSE s

Search(d0, b) ==
  LET d == [d0 EXCEPT !.window = Shifted(@, b), !.run = @ + 1]
      found == [d EXCEPT !.lap = LapOf[d.window],
                         !.startBit = d.total - (SyncBits + TrailerBits)]
  IN  IF d.window \notin DOMAIN LapOf THEN Result(d, "searching", "none")
      ELSE IF found.lap \in InquiryLaps THEN Result(found, "valid", "id")
      ELSE Result([found EXCEPT !.state = "trailer", !.n = 0, !.trailer = TRUE],
                  "collecting", "none")

\* The trailer alternates, beginning with the complement of the last sync bit.
DrainTrailer(d0, b) ==
  LET last == d0.window[SyncBits]
      d == [d0 EXCEPT !.n = @ + 1,
                      !.trailer = @ /\ b = (last + d0.n + 1) % 2]
  IN  IF d.n < TrailerBits THEN Result(d, "collecting", "none")
      ELSE IF ~d.trailer THEN Result(Reset(d), "valid", "id")
      ELSE Result([d EXCEPT !.state = "collecting", !.n = 0],
                  "collecting", "none")

\* The header is whitened, so the longest body is always collected.
Collect(d0) ==
  LET d == [d0 EXCEPT !.n = @ + 1]
  IN  IF d.n < HeaderBits + BodyBits THEN Result(d, "collecting", "none")
      ELSE Result(Reset(d), "valid", "packet")

PushAirBit(d0, b) ==
  LET d == [d0 EXCEPT !.total = @ + 1]
  IN  CASE d.state = "searching"  -> Search(d, b)
        [] d.state = "trailer"    -> DrainTrailer(d, b)
        [] d.state = "collecting" -> Collect(d)

-----------------------------------------------------------------------------
(* The channel processor.  Sample positions within the block are relative. *)

\* receiver_rssi_access_code_window: [start, end), clamped to the block.
AcSpan == 2 * (SyncBits + TrailerBits)
AcWindow(acEnd) == <<IF acEnd >= AcSpan THEN acEnd - AcSpan ELSE 0, acEnd>>

\* The stamp latched when an access code ends at acEnd: the position of the
\* header.  sync_start is taken as 64 SAMPLES before acEnd, half a sync word.
LatchedStamp_AnyBlock(acEnd) ==
  block.base + acEnd - SyncBits + (SyncBits + TrailerBits)

LatchedStamp(acEnd) ==
  LET start == acEnd - SyncBits
  IN  IF start >= 0 \/ block.prevEnd = block.base
      THEN block.base + start + (SyncBits + TrailerBits)
      ELSE NoStamp

Latched(p, status, acEnd) ==
  IF p.prev = "searching" /\ status # "searching"
  THEN [p EXCEPT !.stamp = LatchedStamp(acEnd),
                 !.rssi = [j \in 1..2 |-> block.base + AcWindow(acEnd)[j]]]
  ELSE p

\* emit_frame consumes what was latched, before the LAP filter.
Consumed(p) == [p EXCEPT !.stamp = NoStamp, !.rssi = <<>>]

EventOf(d, frame, p, acEnd, tr) ==
  [lap |-> d.lap, header |-> frame = "packet", startBit |-> d.startBit,
   stamp |-> IF p.stamp # NoStamp THEN p.stamp ELSE block.base + acEnd,
   rssi |-> p.rssi, at |-> block.base + acEnd, track |-> tr]

\* History: an access code found on this bit, while the processor was
\* searching, in samples that run on without a hole.
Tracked(r, acEnd) ==
  IF air.state = "searching" /\ r.status # "searching"
  THEN [end |-> block.base + acEnd, fresh |-> r.dec.run >= SyncBits \/ r.dec.run = r.dec.total,
        searched |-> proc.prev = "searching",
        joined |-> acEnd >= SyncBits \/ block.prevEnd = block.base]
  ELSE track

\* One bit of bredr_channel_processor_process_stream.
AirBit(b) ==
  LET acEnd == 2 * (block.done + 1)
      r == PushAirBit(air, b)
      p == [Latched(proc, r.status, acEnd) EXCEPT !.prev = r.status]
  IN  /\ block.done < BlockBits
      /\ air.total < MaxAirBits
      /\ air' = r.dec
      /\ block' = [block EXCEPT !.done = @ + 1]
      /\ track' = Tracked(r, acEnd)
      /\ IF r.status = "valid"
         THEN /\ proc' = Consumed(p)
              /\ event' = IF proc.filter # {} /\ r.dec.lap \notin proc.filter
                          THEN event
                          ELSE EventOf(r.dec, r.frame, p, acEnd, track')
         ELSE proc' = p /\ UNCHANGED event
      /\ UNCHANGED holes

\* The block's trailing edge is remembered; the next one may begin after a hole.
NextBlock(hole) ==
  LET end == block.base + 2 * block.done
  IN  /\ block.done = BlockBits
      /\ holes + hole <= MaxHoles
      /\ holes' = holes + hole
      /\ block' = [base |-> end + hole * HoleSamples, done |-> 0, prevEnd |-> end]
      /\ UNCHANGED <<air, proc, track, event>>

AirNext == (\E b \in {0, 1} : AirBit(b)) \/ (\E h \in {0, 1} : NextBlock(h))

AirSpec == AirInit /\ [][AirNext]_airVars

-----------------------------------------------------------------------------
(* Properties. *)

\* "Drops only ever remove packets": a packet's position is latched where its
\* own access code was found, a fixed distance from its header, whatever holes
\* its collection spanned; a packet without a latch (found across a hole, or
\* right after another packet) gets the position where its collection ended,
\* never another packet's.  So does its signal strength.
StampIsItsOwn ==
  event # NoEvent =>
    LET t == event.track
    IN  /\ event.stamp = IF t.searched /\ t.joined THEN t.end + TrailerBits
                                                  ELSE event.at
        /\ IF t.searched THEN event.rssi[2] = t.end ELSE event.rssi = <<>>

\* "sw_window and bits_seen run continuously across packet boundaries": when
\* an access code is found, the window holds the last bits received.  It does
\* not for as many bits after a packet as a sync word has.
WindowIsContiguous == track.end > 0 => track.fresh
=============================================================================
