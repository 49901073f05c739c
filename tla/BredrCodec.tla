----------------------------- MODULE BredrCodec ------------------------------
(* The BR/EDR codec (bredr_codec.c): error correction, whitening, checksums,  *)
(* and bredr_decode_frame, which says how much of a packet can be shown.      *)
(* Words are sets of bit positions; a payload is its length in bits and what  *)
(* the checks on it find.                                                     *)
EXTENDS BitVectors, Sequences

CONSTANT BredrSamples \* inputs: of kind "block", a block of data with some bits
                      \* turned; "clock", six clock bits; "packet", what
                      \* bredr_decode_frame is given and what its checks find

VARIABLE bredrSample

\* What bredr_decode_frame is given: the air bits captured after the header, of
\* any number; what the length field and the checks turn out to say is open.
FramePackets ==
  [kind : {"packet"}, header : BOOLEAN, hecOk : BOOLEAN, type : 0..15, air : Nat,
   length : Nat, crcOk : BOOLEAN, fecOk : BOOLEAN]

ASSUME BredrSamplesAssumption ==
  \A s \in BredrSamples : s.kind = "packet" => s \in FramePackets

-----------------------------------------------------------------------------
(* Coding. *)

\* bredr_fec_2_3_remainder: division by x^5 + x^3 + x + 1.
Remainder23(codeword) ==
  LET rem[bit \in 5..15] ==
        IF bit = 15 THEN codeword
        ELSE LET r == rem[bit + 1]
             IN  IF bit \in r THEN SymDiff(r, ShiftUp({0, 1, 3, 5}, bit - 5))
                              ELSE r
  IN  rem[5]

Failed == {-1}

\* One block of bredr_fec_decode_2_3: at most one bit is corrected.
Corrected23_Silent(c) == Field(c, 0, 10)

Corrected23(c) ==
  LET fixes == {i \in 0..14 : Remainder23(SymDiff(c, {i})) = {}}
  IN  IF Remainder23(c) = {} THEN Field(c, 0, 10)
      ELSE IF fixes = {} THEN Failed
      ELSE Field(SymDiff(c, {Min(fixes)}), 0, 10)

\* bredr_fec_decode_2_3 takes whole blocks only: the number of bits decoded.
Decoded23(bits) == IF bits % 15 = 0 THEN (bits \div 15) * 10 ELSE -1

\* bredr_fec_decode_1_3 of n bits: a majority of each three.
Corrected13(c, n) ==
  {i \in 0..(n - 1) : Cardinality(c \cap (3 * i)..(3 * i + 2)) >= 2}

Errors13(c, n) ==
  MapThenSumSet(LAMBDA i : LET ones == Cardinality(c \cap (3 * i)..(3 * i + 2))
                           IN  IF ones >= 2 THEN 3 - ones ELSE ones,
                0..(n - 1))

WhiteningIndices ==
  <<99, 85, 17, 50, 102, 58, 108, 45, 92, 62, 32, 118, 88, 11, 80, 2,
    37, 69, 55, 8, 20, 40, 74, 114, 15, 106, 30, 78, 53, 72, 28, 26,
    68, 7, 39, 113, 105, 77, 71, 25, 84, 49, 57, 44, 61, 117, 10, 1,
    123, 124, 22, 125, 111, 23, 42, 126, 6, 112, 76, 24, 48, 43, 116, 0>>

\* s_whitening_data: the positions of its ones.
WhiteningData ==
  {0, 1, 2, 6, 7, 8, 10, 11, 15, 17, 20, 22, 23, 24, 25, 26, 28, 30, 32, 37,
   39, 40, 42, 43, 44, 45, 48, 49, 50, 53, 55, 57, 58, 61, 62, 68, 69, 71, 72,
   74, 76, 77, 78, 80, 84, 85, 88, 92, 99, 102, 105, 106, 108, 111, 112, 113,
   114, 116, 117, 118, 123, 124, 125, 126}

\* The bits bredr_xor_whitening_payload adds to n bits that lie offset bits into
\* the packet.
WhiteningOf(clk6, offset, n) ==
  {k \in 0..(n - 1) :
     (WhiteningIndices[clk6 + 1] + offset + k) % 127 \in WhiteningData}

\* bredr_decode_header_bits: too many errors leave a header of zeros, which is
\* not dewhitened.
HeaderOf(raw, clk6) ==
  IF Errors13(raw, 18) >= 4 THEN {}
  ELSE SymDiff(Corrected13(raw, 18), WhiteningOf(clk6, 0, 18))

\* bredr_decode_uap_from_hec: ten steps of the HEC register, run backwards.
UapFromHec(data, hec) ==
  LET reg[k \in 0..10] ==
        IF k = 0 THEN hec
        ELSE LET old == reg[k - 1]
                 r == IF 7 \in old THEN SymDiff(old, {0, 2, 5, 6}) ELSE old
             IN  {j \in ShiftUp(r, 1) : j < 8}
                   \cup {j \in {0} : (7 \in r) # (10 - k \in data)}
  IN  Reversed(reg[10], 8)

\* bredr_hec_ok_for_clk6_clean: only a header without a single error counts.
HecOk(raw, uap, clk6) ==
  LET h == HeaderOf(raw, clk6)
  IN  UapFromHec(Field(h, 0, 10), Field(h, 10, 8)) = uap

HecOkClean(raw, uap, clk6) == Errors13(raw, 18) = 0 /\ HecOk(raw, uap, clk6)

-----------------------------------------------------------------------------
(* Packet types: 3 DM1, 4 DH1, 5 HV1, 6 HV2, 7 HV3, 9 AUX1, 10 DM3, 11 DH3,   *)
(* 12 EV4, 13 EV5, 14 DM5, 15 DH5.                                            *)

Acl == {3, 4, 9, 10, 11, 14, 15}

Family(type) == CASE type \in {0, 1}    -> "control"
                  [] type = 2           -> "fhs"
                  [] type \in Acl       -> "acl"
                  [] type \in {5, 6, 7} -> "sco"
                  [] type = 8           -> "hybrid"
                  [] type \in {12, 13}  -> "esco"

OnAirBits == <<0, 0, 240, 240, 240, 240, 240, 240,
               560, 240, 1500, 1496, 1440, 1440, 2745, 2744>>

SyncAirBits(type) ==
  CASE type \in {5, 6} -> 240 [] type = 7 -> 256
    [] type = 12 -> 1470      [] type = 13 -> 1456

MaxUserBytes(type) ==
  CASE type = 3 -> 17 [] type = 4 -> 27 [] type = 9 -> 29 [] type = 10 -> 121
    [] type = 11 -> 183 [] type = 14 -> 224 [] type = 15 -> 339

HeaderBytes(type) == IF type \in {3, 4, 8, 9} THEN 1 ELSE 2

\* Bytes that bredr_decode_acl_payload_from_air and _sync_payload_from_air make
\* of a capture: cut at the type's size on the air and at whole blocks, decoded;
\* a last byte may be incomplete.
AirBits(type) == IF type \in Acl THEN OnAirBits[type + 1] ELSE SyncAirBits(type)

DecodedBytes(type, air) ==
  LET n == IF air < AirBits(type) THEN air ELSE AirBits(type)
  IN  CASE type \in {3, 6, 10, 12, 14} -> (Decoded23(15 * (n \div 15)) + 7) \div 8
        [] type = 5                    -> (n \div 3 + 7) \div 8
        [] type \in {4, 7, 9, 11, 13, 15} -> (n + 7) \div 8

\* What is reported: how far the decoding went, its limit, the bytes shown and
\* whether a checksum was found (and held).
Report(status, limit, bytes, crc) ==
  [status |-> status, limit |-> limit, bytes |-> bytes, crc |-> crc]

\* bredr_parse_acl_payload of n bytes whose header says length.
ParseAcl_Unchecked(p, n) ==
  LET data == HeaderBytes(p.type) + p.length
  IN  IF n < HeaderBytes(p.type) THEN Report("partial", "truncated", 0, "none")
      ELSE IF p.length > MaxUserBytes(p.type)
           THEN Report("partial", "impossible_length", 0, "none")
      ELSE Report("full", "none", data,
                  IF n < data + 2 THEN "none" ELSE IF p.crcOk THEN "ok" ELSE "bad")

ParseAcl(p, n) ==
  LET data == HeaderBytes(p.type) + p.length
  IN  IF n < HeaderBytes(p.type) THEN Report("partial", "truncated", 0, "none")
      ELSE IF p.length > MaxUserBytes(p.type)
           THEN Report("partial", "impossible_length", 0, "none")
      ELSE IF n < data THEN Report("partial", "truncated", 0, "none")
      ELSE Report("full", "none", data,
                  IF n < data + 2 THEN "none" ELSE IF p.crcOk THEN "ok" ELSE "bad")

\* bredr_parse_sync_payload: HV1 and HV2 have one size; of the others the length
\* is that of the shortest prefix (two bytes at its end) whose checksum holds;
\* HV3 is also a packet without one.
SyncBytes(type) == CASE type = 5 -> 10 [] type = 6 -> 20 [] type = 7 -> 30
                     [] type = 12 -> 122 [] type = 13 -> 182

CrcSearchLimit(type) == IF type = 7 THEN 32 ELSE SyncBytes(type)

ParseSync(p, n) ==
  LET shown == IF n < SyncBytes(p.type) THEN n ELSE SyncBytes(p.type)
      hits == {t \in 3..CrcSearchLimit(p.type) : t <= n /\ p.crcOk /\ t = p.length}
  IN  IF p.type \in {5, 6}
      THEN IF n < SyncBytes(p.type) THEN Report("partial", "truncated", 0, "none")
           ELSE Report("full", "none", shown, "none")
      ELSE IF n < 3 THEN Report("partial", "truncated", 0, "none")
      ELSE IF hits # {} THEN Report("full", "none", Min(hits), "ok")
      ELSE IF p.type = 7 THEN Report("full", "none", shown, "none")
      ELSE Report("partial", "crc_unresolved", 0, "none")

\* bredr_decode_frame.
DecodeFrame(p) ==
  LET n == IF p.fecOk THEN DecodedBytes(p.type, p.air) ELSE 0
      family == Family(p.type)
  IN  IF ~p.header THEN Report("raw", "no_header", 0, "none")
      ELSE IF ~p.hecOk THEN Report("raw", "hec_failed", 0, "none")
      ELSE IF family = "control" THEN Report("full", "none", 0, "none")
      ELSE IF family = "acl" THEN ParseAcl(p, n)
      ELSE IF family \in {"sco", "esco"} THEN ParseSync(p, n)
      ELSE Report("family", IF family = "fhs" THEN "coding" ELSE "type", 0, "none")

-----------------------------------------------------------------------------

(* Properties. *)

\* The (15,10) code, as its generator matrix gives it.
Generator ==
  <<{0, 10, 11, 13}, {1, 11, 12, 14}, {2, 10, 11, 12}, {3, 11, 12, 13},
    {4, 12, 13, 14}, {5, 10, 11, 14}, {6, 10, 12, 13}, {7, 11, 13, 14},
    {8, 10, 11, 12, 13, 14}, {9, 10, 12, 14}>>

\* A block with one bit turned decodes to what was sent, one with two bits
\* turned is refused and never taken for other data.
CodeCorrects ==
  bredrSample.kind = "block" =>
    LET b == bredrSample
        sent == Total({Generator[i + 1] : i \in b.data})
    IN  Corrected23(SymDiff(sent, b.turned)) =
          IF Cardinality(b.turned) <= 1 THEN b.data ELSE Failed

\* The two whitening tables of BR/EDR are the register that whitens LE: started
\* from the clock, after the header's 18 bits it whitens the payload on.
WhiteningIsRegister ==
  bredrSample.kind = "clock" =>
    LET c == bredrSample.clk6
        out == WhiteningBits(Reversed(WordOf(c, 6) \cup {6}, 7), 40)
    IN  /\ WhiteningOf(c, 0, 18) = Field(out, 0, 18)
        /\ WhiteningOf(c, 18, 22) = Field(out, 18, 22)

\* What is shown of a payload was on the air: the capture holds every bit of it
\* (a checksum that is shown included), but for the last byte's end; and of a
\* packet captured whole nothing is reported truncated, nor does an ACL packet
\* that carries a checksum lose it, however long it is.
ShownWasOnAir ==
  bredrSample.kind = "packet" =>
    LET p == bredrSample
        r == DecodeFrame(p)
        rate == CASE p.type \in {3, 6, 10, 12, 14} -> <<15, 10>>
                  [] p.type = 5 -> <<3, 1>>
                  [] OTHER -> <<1, 1>>
        shown == r.bytes + (IF r.crc # "none" /\ p.type \in Acl THEN 2 ELSE 0)
    IN  /\ r.status = "full" /\ r.bytes > 0 =>
             (8 * shown - 7) * rate[1] <= p.air * rate[2]
        /\ p.air >= 2745 /\ p.fecOk =>
             /\ r.limit # "truncated"
             /\ r.status = "full" /\ p.type \in Acl \ {9} => r.crc # "none"
=============================================================================
