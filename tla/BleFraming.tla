----------------------------- MODULE BleFraming ------------------------------
(* The framing of a BLE channel: the bitstream decoder that cuts candidates   *)
(* out of a stream of bits (ble_bitstream_decoder.c), and the channel         *)
(* processor that takes its frames and stamps them (ble_channel_processor.c). *)
(*                                                                            *)
(* The fields of a candidate keep their order and their tests and lose their  *)
(* width: a preamble is the alternation of PreambleBits bits that ends        *)
(* opposite the access address, one header bit stands for the reserved fields *)
(* and one for the payload length.  A stream is any sequence of bits.         *)
EXTENDS Integers, Sequences, SequencesExt

CONSTANTS
  PreambleBits, \* BLE_PREAMBLE_BITS
  AaBits,       \* BLE_AA_BITS
  AdvAa,        \* BLE_ADVERTISING_AA
  MaxRun,       \* longest run of equal bits in a data access address
  Whitening,    \* the channel's whitening of the header
  PayloadBits,  \* bits of the longer of the two payloads
  CrcBits,      \* BLE_CRC_BYTES
  QueueCap,     \* BLE_DEC_FRAME_QUEUE
  MaxBits       \* bound of the model: bits of a stream

ASSUME BleFramingAssumption ==
  /\ {PreambleBits, AaBits, MaxRun, QueueCap} \subseteq Nat \ {0}
  /\ {PayloadBits, CrcBits, MaxBits} \subseteq Nat
  /\ AdvAa \in [1..AaBits -> {0, 1}] /\ Whitening \in [1..2 -> {0, 1}]

VARIABLES
  bits,     \* history: the bits pushed so far
  dec,      \* ble_bitstream_decoder_t
  prev,     \* prev_state
  pktStart, \* pkt_start_decim_sample, as the number of a bit; -1 at first
  taken     \* the frames handed to the collector, with their start and end

framingVars == <<bits, dec, prev, pktStart, taken>>

LlHeaderBits == 2
AaEnd == PreambleBits + AaBits
CandidateMax == AaEnd + LlHeaderBits + PayloadBits + CrcBits + 1

FramingInit ==
  /\ bits = <<>>
  /\ dec = [state |-> "search", cand |-> <<>>, aa |-> <<>>, target |-> 0,
            pending |-> <<>>, lost |-> 0]
  /\ prev = "searching"
  /\ pktStart = -1
  /\ taken = <<>>

-----------------------------------------------------------------------------
(* What the decoder tests of a candidate c, bit 1 the oldest. *)

Alternates(s) == \A j \in 1..(Len(s) - 1) : s[j] # s[j + 1]

\* 0x55 or 0xAA at offset i (from 0).
PreambleAt(c, i) == Alternates(SubSeq(c, i + 1, i + PreambleBits))

AaOf(c) == SubSeq(c, PreambleBits + 1, AaEnd)

\* ble_preamble_matches_aa: an edge into the access address.
MatchesAa(c) == c[PreambleBits] # c[PreambleBits + 1]

\* ble_data_aa_plausible: all zeros and all ones are runs of AaBits.
PlausibleAa(aa) ==
  /\ \E j \in 1..AaBits : aa[j] # aa[1]
  /\ ~ \E j \in 1..(AaBits - MaxRun) :
          \A k \in j..(j + MaxRun) : aa[k] = aa[j]

Survives(c) == MatchesAa(c) /\ (AaOf(c) = AdvAa \/ PlausibleAa(AaOf(c)))

Dewhitened(c) ==
  [j \in 1..LlHeaderBits |-> (c[AaEnd + j] + Whitening[j]) % 2]

\* ble_data_header_plausible: LLID 00 and the RFU bits are refused.
PlausibleHeader(c) == AaOf(c) = AdvAa \/ Dewhitened(c)[1] = 1

TargetBits(c) == LlHeaderBits + PayloadBits * Dewhitened(c)[2] + CrcBits

-----------------------------------------------------------------------------
(* The decoder d. *)

\* ble_find_next_preamble: the offset, or -1.
NextPreamble(c, from) ==
  LET Found == {i \in from..(Len(c) - PreambleBits) : PreambleAt(c, i)}
  IN  IF Found = {} THEN -1 ELSE CHOOSE i \in Found : \A j \in Found : i <= j

Newest(c, n) == IF Len(c) > n THEN SubSeq(c, Len(c) - n + 1, Len(c)) ELSE c

\* ble_restart_search: keep what may be the start of a preamble.
Restarted(d) ==
  [d EXCEPT !.state = "search", !.target = 0,
            !.cand = Newest(d.cand, PreambleBits - 1)]

\* The tail ble_reject_and_rescan and ble_finish_candidate share: resume at
\* the first preamble at or after an offset of the bits buffered.
ResumedAt(d, from) ==
  LET k == NextPreamble(d.cand, from)
  IN  IF k < 0 THEN Restarted(d)
      ELSE [d EXCEPT !.state = "aa", !.target = 0,
                     !.cand = SubSeq(d.cand, k + 1, Len(d.cand))]

RejectAndRescan_Restart(d) == Restarted(d)

RejectAndRescan(d) == ResumedAt(d, 1)

FinishCandidate(d) ==
  ResumedAt([d EXCEPT !.cand = SubSeq(d.cand, AaEnd + d.target + 1,
                                      Len(d.cand))], 0)

\* ble_dec_emit.  "at" (history) is the number of the frame's first bit when n
\* bits were pushed: a candidate always ends at the newest bit.
Emitted(d, n) ==
  LET frame == [kind |-> IF d.aa = AdvAa THEN "adv" ELSE "data",
                at |-> n - Len(d.cand) + 1,
                pdu |-> SubSeq(d.cand, AaEnd + 1, AaEnd + d.target)]
  IN  IF Len(d.pending) < QueueCap
      THEN [d EXCEPT !.pending = Append(@, frame)]
      ELSE [d EXCEPT !.lost = @ + 1]

\* ble_complete_adv_frame and ble_complete_data_frame: an advertisement is
\* consumed, a data candidate is rescanned from its second bit.
Completed(d, n) ==
  IF d.aa = AdvAa THEN FinishCandidate(Emitted(d, n))
                  ELSE RejectAndRescan(Emitted(d, n))

\* Where ble_drain returns: it needs more bits.
Waits(d) ==
  Len(d.cand) < CASE d.state = "search" -> PreambleBits
                  [] d.state = "aa" -> AaEnd
                  [] OTHER -> AaEnd + (IF d.target = 0 THEN LlHeaderBits ELSE d.target)

\* One turn of its loop.  A search drops a bit only while PreambleBits are
\* buffered, and waits then: the code returns.
Turn(d, n) ==
  LET c == d.cand
  IN  CASE d.state = "search" ->
             IF PreambleAt(c, Len(c) - PreambleBits)
             THEN [d EXCEPT !.state = "aa", !.cand = Newest(c, PreambleBits)]
             ELSE [d EXCEPT !.cand = Tail(c)]
        [] d.state = "aa" ->
             IF Survives(c) THEN [d EXCEPT !.state = "pdu", !.aa = AaOf(c)]
             ELSE RejectAndRescan([d EXCEPT !.aa = AaOf(c)])
        [] d.state = "pdu" /\ d.target = 0 ->
             IF PlausibleHeader(c) THEN [d EXCEPT !.target = TargetBits(c)]
             ELSE RejectAndRescan(d)
        [] OTHER -> Completed(d, n)

\* ble_drain: advance over the bits buffered until more are needed.  A candidate
\* takes at most four turns until it is given up or emitted.
MaxTurns(d) == 4 * Len(d.cand) + 4

Advanced(d, n) == IF Waits(d) THEN d ELSE Turn(d, n)

Drained(d, n) ==
  LET turned[k \in 0..MaxTurns(d)] ==
        IF k = 0 THEN d ELSE Advanced(turned[k - 1], n)
  IN  turned[MaxTurns(d)]

\* ble_bitstream_decoder_push_bit: the decoder and the status it returns.
Pushed(d, b, n) ==
  IF Len(d.cand) >= CandidateMax
  THEN [dec |-> Restarted(d), status |-> "error"]
  ELSE LET e == Drained([d EXCEPT !.cand = Append(@, b)], n)
       IN  [dec |-> e,
            status |-> IF e.pending # <<>> THEN "valid"
                       ELSE IF e.state = "search" THEN "searching"
                       ELSE "collecting"]

-----------------------------------------------------------------------------
(* The channel processor. *)

\* The packet starts where the search ended.
StartAfter(status, n) ==
  IF prev = "searching" /\ status # "searching" THEN n ELSE pktStart

\* One bit of ble_channel_processor_process_stream with its emit_frame: ONE
\* frame is taken from the decoder, stamped with the bit just pushed; the
\* signal strength is measured from pktStart to it.
PushBit(b) ==
  LET n == Len(bits) + 1
      r == Pushed(dec, b, n)
  IN  /\ n <= MaxBits
      /\ bits' = Append(bits, b)
      /\ prev' = r.status
      /\ pktStart' = StartAfter(r.status, n)
      /\ IF r.status = "valid"
         THEN /\ taken' = Append(taken, [frame |-> Head(r.dec.pending),
                                         start |-> pktStart', end |-> n])
              /\ dec' = [r.dec EXCEPT !.pending = Tail(@)]
         ELSE dec' = r.dec /\ UNCHANGED taken

FramingNext == \E b \in {0, 1} : PushBit(b)

FramingSpec == FramingInit /\ [][FramingNext]_framingVars

-----------------------------------------------------------------------------
(* Properties. *)

Rest(s, p) == SubSeq(s, p + 1, Len(s))

\* The bits at the start of c are no candidate; they are a whole one.
Rejected(c) ==
  \/ Len(c) >= PreambleBits /\ ~PreambleAt(c, 0)
  \/ Len(c) >= AaEnd /\ ~Survives(c)
  \/ Len(c) >= AaEnd + LlHeaderBits /\ ~PlausibleHeader(c)

Complete(c) ==
  /\ Len(c) >= AaEnd + LlHeaderBits /\ ~Rejected(c)
  /\ Len(c) >= AaEnd + TargetBits(c)

Candidate(c, at) ==
  [kind |-> IF AaOf(c) = AdvAa THEN "adv" ELSE "data", at |-> at,
   pdu |-> SubSeq(c, AaEnd + 1, AaEnd + TargetBits(c))]

\* Where the candidate after it may start: behind an advertisement, anywhere
\* within a data candidate.
LookPast(c) == IF AaOf(c) = AdvAa THEN AaEnd + TargetBits(c) ELSE 1

\* Every candidate of the stream s, looked for at one offset after another of the
\* stream as a whole: no buffer, no states, nothing dropped.
Looked(s, w) ==
  LET c == Rest(s, w.at)
  IN  IF Rejected(c) THEN [w EXCEPT !.at = @ + 1]
      ELSE IF Complete(c)
           THEN [at |-> w.at + LookPast(c),
                 found |-> Append(w.found, Candidate(c, w.at + 1))]
           ELSE w

Scan(s) ==
  LET scan[k \in 0..Len(s)] ==
        IF k = 0 THEN [at |-> 0, found |-> <<>>] ELSE Looked(s, scan[k - 1])
  IN  scan

Parse(s) == Scan(s)[Len(s)].found

\* "Rejects rescan from the next preamble inside the buffered candidate, never
\* dropping bits": the frames the decoder cut, those still queued included, are
\* exactly the candidates of the whole stream, in order; a packet inside a
\* false candidate is one of them.
FramesAreParse ==
  dec.lost = 0 =>
    [j \in DOMAIN taken |-> taken[j].frame] \o dec.pending = Parse(bits)

\* "A real packet embedded in noise (or a false candidate) is never lost".  It
\* is when more than QueueCap candidates end within one false candidate.
NothingLost == dec.lost = 0

\* The window over which a packet's signal strength is averaged begins no later
\* than the packet's preamble ends, though pktStart is only set when a search
\* ends and a frame may wait in the queue for a later bit.
WindowCoversPacket ==
  \A j \in DOMAIN taken :
    /\ 0 < taken[j].start
    /\ taken[j].start <= taken[j].frame.at + PreambleBits - 1
    /\ taken[j].frame.at + AaEnd + Len(taken[j].frame.pdu) - 1 <= taken[j].end

\* Nothing a false candidate hides is lost, and the window a frame's signal
\* strength is averaged over covers the frame.
BleReceives == FramesAreParse /\ WindowCoversPacket
=============================================================================
