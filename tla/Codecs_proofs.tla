---------------------------- MODULE Codecs_proofs ----------------------------
(***************************************************************************)
(* Proofs about what is read out of a packet: the parts of a payload shown *)
(* (BredrCodec), for every length and number of bits, and the verdicts on  *)
(* payload checksums (BredrVerdicts), for every packet that can be asked   *)
(* about and every size of the buffers, and what the advertisements of a   *)
(* BLE device add up to (BleCodec), for any data; and about the packets    *)
(* themselves, cut out of the bits of a BLE channel (BleFraming), for any  *)
(* stream of bits.                                                         *)
(***************************************************************************)
EXTENDS BredrVerdicts, BleCodec, BleFraming, SequenceTheorems, FiniteSetTheorems,
        WellFoundedInduction, TLAPS

-----------------------------------------------------------------------------
(* What is shown of a payload *)

ByRate23 == {3, 6, 10, 12, 14}
Uncoded == {4, 7, 9, 11, 13, 15}

\* The bytes decoded of a capture are no more than the captured bits carry.
LEMMA DecodedWasOnAir ==
  ASSUME NEW type \in ByRate23 \cup {5} \cup Uncoded, NEW air \in Nat
  PROVE  /\ DecodedBytes(type, air) \in Nat
         /\ type \in ByRate23 => (8 * DecodedBytes(type, air) - 7) * 15 <= air * 10
         /\ type = 5 => (8 * DecodedBytes(type, air) - 7) * 3 <= air
         /\ type \in Uncoded => 8 * DecodedBytes(type, air) - 7 <= air
<1> DEFINE n == IF air < AirBits(type) THEN air ELSE AirBits(type)
<1>1. AirBits(type) \in Nat
  BY DEF AirBits, SyncAirBits, OnAirBits, Acl, ByRate23, Uncoded
<1>2. n \in Nat /\ n <= air
  BY <1>1
<1>3. DecodedBytes(type, air) =
        IF type \in ByRate23 THEN (Decoded23(15 * (n \div 15)) + 7) \div 8
        ELSE IF type = 5 THEN (n \div 3 + 7) \div 8
        ELSE (n + 7) \div 8
  BY DEF DecodedBytes, ByRate23, Uncoded
<1> HIDE DEF n
<1>4. CASE type \in ByRate23
  <2> DEFINE q == n \div 15
  <2>1. q \in Nat /\ 15 * q <= n
    BY <1>2
  <2>2. Decoded23(15 * q) = 10 * q
    BY <2>1 DEF Decoded23
  <2>3. DecodedBytes(type, air) = (10 * q + 7) \div 8
    BY <1>3, <1>4, <2>2
  <2> HIDE DEF q
  <2>4. QED
    BY <1>2, <1>4, <2>1, <2>3 DEF ByRate23, Uncoded
<1>5. CASE type = 5
  <2>1. DecodedBytes(type, air) = (n \div 3 + 7) \div 8
    BY <1>3, <1>5 DEF ByRate23
  <2>2. QED
    BY <1>2, <1>5, <2>1 DEF ByRate23, Uncoded
<1>6. CASE type \in Uncoded
  <2>1. DecodedBytes(type, air) = (n + 7) \div 8
    BY <1>3, <1>6 DEF ByRate23, Uncoded
  <2>2. QED
    BY <1>2, <1>6, <2>1 DEF ByRate23, Uncoded
<1>7. QED
  BY <1>4, <1>5, <1>6

\* A packet captured whole, header and checksum included, is decoded whole.
LEMMA WholeCapture ==
  ASSUME NEW type \in (Acl \cup {5, 6, 7, 12, 13}), NEW air \in Nat, air >= 2745
  PROVE  /\ type \in Acl =>
              /\ DecodedBytes(type, air) >= HeaderBytes(type) + MaxUserBytes(type)
              /\ type # 9 => DecodedBytes(type, air) >=
                               HeaderBytes(type) + MaxUserBytes(type) + 2
         /\ type \notin Acl => DecodedBytes(type, air) >= SyncBytes(type)
<1>1. AirBits(type) \in Nat /\ AirBits(type) <= 2745
  BY DEF AirBits, SyncAirBits, OnAirBits, Acl
<1>2. DecodedBytes(type, air) =
        CASE type \in {3, 6, 10, 12, 14} ->
               (Decoded23(15 * (AirBits(type) \div 15)) + 7) \div 8
          [] type = 5 -> (AirBits(type) \div 3 + 7) \div 8
          [] type \in {4, 7, 9, 11, 13, 15} -> (AirBits(type) + 7) \div 8
  <2> DEFINE n == IF air < AirBits(type) THEN air ELSE AirBits(type)
  <2>1. DecodedBytes(type, air) =
          CASE type \in {3, 6, 10, 12, 14} -> (Decoded23(15 * (n \div 15)) + 7) \div 8
            [] type = 5 -> (n \div 3 + 7) \div 8
            [] type \in {4, 7, 9, 11, 13, 15} -> (n + 7) \div 8
    BY DEF DecodedBytes, Acl
  <2>2. n = AirBits(type)
    BY <1>1
  <2> HIDE DEF n
  <2>3. QED
    BY <2>1, <2>2
<1>3. AirBits(type) =
        CASE type \in {3, 4, 5, 6, 9} -> 240 [] type = 7 -> 256 [] type = 10 -> 1500
          [] type = 11 -> 1496 [] type = 12 -> 1470 [] type = 13 -> 1456
          [] type = 14 -> 2745 [] type = 15 -> 2744
  BY DEF AirBits, SyncAirBits, OnAirBits, Acl
<1>4. DecodedBytes(type, air) =
        CASE type \in {3, 6} -> 20 [] type = 5 -> 10 [] type \in {4, 9} -> 30
          [] type = 7 -> 32 [] type = 10 -> 125 [] type = 11 -> 187
          [] type = 12 -> 123 [] type = 13 -> 182 [] type = 14 -> 229
          [] type = 15 -> 343
  BY <1>2, <1>3 DEF Decoded23, Acl
<1>5. QED
  BY <1>4 DEF Acl, HeaderBytes, MaxUserBytes, SyncBytes

LEMMA ReportFields ==
  ASSUME NEW how, NEW limit, NEW bytes, NEW crc
  PROVE  LET r == Report(how, limit, bytes, crc)
         IN  r.status = how /\ r.limit = limit /\ r.bytes = bytes /\ r.crc = crc
BY DEF Report

\* What is reported of an ACL payload of n bytes.
LEMMA AclReported ==
  ASSUME NEW p \in FramePackets, p.type \in Acl, NEW n \in Nat,
         NEW r, r = ParseAcl(p, n)
  PROVE  /\ r.status = "full" =>
              /\ r.bytes \in Nat /\ r.bytes <= n
              /\ r.crc # "none" => r.bytes + 2 <= n
              /\ r.crc = "none" =>
                   n < HeaderBytes(p.type) + MaxUserBytes(p.type) + 2
         /\ r.limit = "truncated" => n < HeaderBytes(p.type) + MaxUserBytes(p.type)
<1> DEFINE h == HeaderBytes(p.type)
           m == MaxUserBytes(p.type)
           len == p.length
<1>1. h \in Nat /\ m \in Nat /\ len \in Nat /\ p.crcOk \in BOOLEAN
  BY DEF FramePackets, HeaderBytes, MaxUserBytes, Acl
<1>2. r = IF n < h THEN Report("partial", "truncated", 0, "none")
          ELSE IF len > m THEN Report("partial", "impossible_length", 0, "none")
          ELSE IF n < h + len THEN Report("partial", "truncated", 0, "none")
          ELSE Report("full", "none", h + len,
                      IF n < h + len + 2 THEN "none"
                      ELSE IF p.crcOk THEN "ok" ELSE "bad")
  BY Zenon DEF ParseAcl
<1> HIDE DEF h, m, len
<1>3. CASE n < h
  <2>1. r = Report("partial", "truncated", 0, "none")
    BY <1>2, <1>3
  <2>2. r.status = "partial" /\ n < h + m
    BY <1>1, <1>3, <2>1, ReportFields
  <2>3. QED
    BY <2>2 DEF h, m
<1>4. CASE ~ (n < h) /\ len > m
  <2>1. r = Report("partial", "impossible_length", 0, "none")
    BY <1>2, <1>4
  <2>2. r.status = "partial" /\ r.limit = "impossible_length"
    BY <2>1, ReportFields
  <2>3. QED
    BY <2>2
<1>5. CASE ~ (n < h) /\ ~ (len > m) /\ n < h + len
  <2>1. r = Report("partial", "truncated", 0, "none")
    BY <1>2, <1>5
  <2>2. r.status = "partial" /\ n < h + m
    BY <1>1, <1>5, <2>1, ReportFields
  <2>3. QED
    BY <2>2 DEF h, m
<1>6. CASE ~ (n < h) /\ ~ (len > m) /\ ~ (n < h + len)
  <2> DEFINE crc == IF n < h + len + 2 THEN "none"
                    ELSE IF p.crcOk THEN "ok" ELSE "bad"
  <2>1. r = Report("full", "none", h + len, crc)
    BY <1>2, <1>6
  <2>2. crc = "none" <=> n < h + len + 2
    BY <1>1
  <2> HIDE DEF crc
  <2>3. r.limit = "none" /\ r.bytes = h + len /\ r.crc = crc
    BY <2>1, ReportFields
  <2>4. h + len \in Nat /\ h + len <= n /\ (n < h + len + 2 => n < h + m + 2)
        /\ (~ (n < h + len + 2) => h + len + 2 <= n)
    BY <1>1, <1>6
  <2>5. QED
    BY <2>2, <2>3, <2>4 DEF h, m
<1>7. QED
  BY <1>3, <1>4, <1>5, <1>6

\* What is reported of a SCO or eSCO payload of n bytes.
LEMMA SyncReported ==
  ASSUME NEW p \in FramePackets, p.type \in {5, 6, 7, 12, 13}, NEW n \in Nat,
         NEW r, r = ParseSync(p, n)
  PROVE  /\ r.status = "full" => r.bytes \in Nat /\ r.bytes <= n
         /\ r.limit = "truncated" => n < SyncBytes(p.type)
<1> DEFINE size == SyncBytes(p.type)
           shown == IF n < size THEN n ELSE size
           hits == {t \in 3..CrcSearchLimit(p.type) :
                      t <= n /\ p.crcOk /\ t = p.length}
<1>1. size \in Nat /\ size >= 3 /\ p.length \in Nat
  BY DEF FramePackets, SyncBytes
<1>2. \/ r = Report("partial", "truncated", 0, "none") /\ (n < size \/ n < 3)
      \/ r = Report("full", "none", shown, "none")
      \/ r = Report("full", "none", Min(hits), "ok") /\ hits # {}
      \/ r = Report("partial", "crc_unresolved", 0, "none")
  BY Zenon DEF ParseSync
<1>3. hits # {} => Min(hits) \in Nat /\ Min(hits) <= n
  <2>1. ASSUME hits # {} PROVE hits = {p.length} /\ p.length <= n
    BY <2>1
  <2> HIDE DEF hits
  <2>2. QED
    BY <1>1, <2>1 DEF Min
<1>4. shown \in Nat /\ shown <= n
  BY <1>1
<1> HIDE DEF shown, hits
<1>5. CASE r = Report("partial", "truncated", 0, "none") /\ (n < size \/ n < 3)
  <2>1. r.status = "partial" /\ n < size
    BY <1>1, <1>5, ReportFields
  <2>2. QED
    BY <2>1
<1>6. CASE r = Report("full", "none", shown, "none")
  <2>1. r.limit = "none" /\ r.bytes = shown
    BY <1>6, ReportFields
  <2>2. QED
    BY <1>4, <2>1
<1>7. CASE r = Report("full", "none", Min(hits), "ok") /\ hits # {}
  <2>1. r.limit = "none" /\ r.bytes = Min(hits)
    BY <1>7, ReportFields
  <2>2. QED
    BY <1>3, <1>7, <2>1
<1>8. CASE r = Report("partial", "crc_unresolved", 0, "none")
  <2>1. r.status = "partial" /\ r.limit = "crc_unresolved"
    BY <1>8, ReportFields
  <2>2. QED
    BY <2>1
<1>9. QED
  BY <1>2, <1>5, <1>6, <1>7, <1>8

\* At the rate of a type's coding, bytes that were decoded were on the air.
LEMMA PartWasOnAir ==
  ASSUME NEW type \in ByRate23 \cup {5} \cup Uncoded, NEW air \in Nat,
         NEW shown \in Nat, shown <= DecodedBytes(type, air)
  PROVE  LET rate == CASE type \in {3, 6, 10, 12, 14} -> <<15, 10>>
                       [] type = 5 -> <<3, 1>>
                       [] OTHER -> <<1, 1>>
         IN  (8 * shown - 7) * rate[1] <= air * rate[2]
<1> DEFINE rate == CASE type \in {3, 6, 10, 12, 14} -> <<15, 10>>
                     [] type = 5 -> <<3, 1>>
                     [] OTHER -> <<1, 1>>
           d == DecodedBytes(type, air)
<1>1. d \in Nat /\ shown <= d
  BY DecodedWasOnAir
<1>2. CASE type \in ByRate23
  <2>1. rate[1] = 15 /\ rate[2] = 10
    BY <1>2 DEF ByRate23
  <2>2. (8 * d - 7) * 15 <= air * 10
    BY <1>2, DecodedWasOnAir
  <2> HIDE DEF d, rate
  <2>3. (8 * shown - 7) * rate[1] <= air * rate[2]
    BY <1>1, <2>1, <2>2
  <2>4. QED
    BY <2>3 DEF rate
<1>3. CASE type = 5
  <2>1. rate[1] = 3 /\ rate[2] = 1
    BY <1>3
  <2>2. (8 * d - 7) * 3 <= air
    BY <1>3, DecodedWasOnAir
  <2> HIDE DEF d, rate
  <2>3. (8 * shown - 7) * rate[1] <= air * rate[2]
    BY <1>1, <2>1, <2>2
  <2>4. QED
    BY <2>3 DEF rate
<1>4. CASE type \in Uncoded
  <2>1. rate[1] = 1 /\ rate[2] = 1
    BY <1>4 DEF Uncoded
  <2>2. 8 * d - 7 <= air
    BY <1>4, DecodedWasOnAir
  <2> HIDE DEF d, rate
  <2>3. (8 * shown - 7) * rate[1] <= air * rate[2]
    BY <1>1, <2>1, <2>2
  <2>4. QED
    BY <2>3 DEF rate
<1>5. QED
  BY <1>2, <1>3, <1>4

\* ShownWasOnAir: what the checks of a payload let through is a part of what was
\* decoded, which was on the air; of all that was sent nothing is then missing.
THEOREM ShownIsOnAir ==
  ASSUME bredrSample \in BredrSamples
  PROVE  ShownWasOnAir
<1> DEFINE p == bredrSample
           d == IF p.fecOk THEN DecodedBytes(p.type, p.air) ELSE 0
           r == DecodeFrame(p)
           shown == r.bytes + (IF r.crc # "none" /\ p.type \in Acl THEN 2 ELSE 0)
           rate == CASE p.type \in {3, 6, 10, 12, 14} -> <<15, 10>>
                     [] p.type = 5 -> <<3, 1>>
                     [] OTHER -> <<1, 1>>
           Cut == r.status = "full" /\ r.bytes > 0 =>
                    (8 * shown - 7) * rate[1] <= p.air * rate[2]
           Whole == p.air >= 2745 /\ p.fecOk =>
                      /\ r.limit # "truncated"
                      /\ r.status = "full" /\ p.type \in Acl \ {9} => r.crc # "none"
<1> SUFFICES ASSUME p.kind = "packet" PROVE Cut /\ Whole
  BY Zenon DEF ShownWasOnAir
<1>1. p \in FramePackets
  BY BredrSamplesAssumption
<1>2. /\ p.header \in BOOLEAN /\ p.hecOk \in BOOLEAN /\ p.type \in 0..15
      /\ p.air \in Nat /\ p.length \in Nat /\ p.fecOk \in BOOLEAN
  BY <1>1 DEF FramePackets
<1>3. \/ r = Report("raw", "no_header", 0, "none")
      \/ r = Report("raw", "hec_failed", 0, "none")
      \/ r = Report("full", "none", 0, "none") /\ p.type \in {0, 1}
      \/ r = ParseAcl(p, d) /\ p.type \in Acl
      \/ r = ParseSync(p, d) /\ p.type \in {5, 6, 7, 12, 13}
      \/ \E limit \in {"coding", "type"} : r = Report("family", limit, 0, "none")
  <2>1. p.type \in {0, 1} => Family(p.type) = "control"
    BY DEF Family, Acl
  <2>2. p.type = 2 => Family(p.type) = "fhs"
    BY DEF Family, Acl
  <2>3. p.type \in Acl => Family(p.type) = "acl"
    BY DEF Family, Acl
  <2>4. p.type \in {5, 6, 7} => Family(p.type) = "sco"
    BY DEF Family, Acl
  <2>5. p.type = 8 => Family(p.type) = "hybrid"
    BY DEF Family, Acl
  <2>6. p.type \in {12, 13} => Family(p.type) = "esco"
    BY DEF Family, Acl
  <2>7. p.type \in {0, 1} \cup {2} \cup Acl \cup {5, 6, 7} \cup {8} \cup {12, 13}
    BY <1>2 DEF Acl
  <2>8. QED
    BY <2>1, <2>2, <2>3, <2>4, <2>5, <2>6, <2>7 DEF DecodeFrame
<1> HIDE DEF r
<1>4. p.type \in ByRate23 \cup {5} \cup Uncoded /\ d > 0 => d = DecodedBytes(p.type, p.air)
  OBVIOUS
<1>5. p.type \in ByRate23 \cup {5} \cup Uncoded => d \in Nat
  BY <1>2, DecodedWasOnAir
<1> HIDE DEF d
<1>6. CASE r = ParseAcl(p, d) /\ p.type \in Acl
  <2>1. p.type \in ByRate23 \cup {5} \cup Uncoded
    BY <1>6 DEF Acl, ByRate23, Uncoded
  <2>2. d \in Nat
    BY <1>5, <2>1
  <2>3. r.status = "full" /\ r.bytes > 0 => shown \in Nat /\ shown <= d /\ d > 0
    BY <1>1, <1>6, <2>2, AclReported
  <2> HIDE DEF shown
  <2>4. Cut
    BY <1>2, <1>4, <2>1, <2>3, PartWasOnAir
  <2>5. p.air >= 2745 /\ p.fecOk =>
          /\ d >= HeaderBytes(p.type) + MaxUserBytes(p.type)
          /\ p.type # 9 => d >= HeaderBytes(p.type) + MaxUserBytes(p.type) + 2
    BY <1>2, <1>6, WholeCapture DEF d
  <2>6. HeaderBytes(p.type) \in Nat /\ MaxUserBytes(p.type) \in Nat
    BY <1>6 DEF HeaderBytes, MaxUserBytes, Acl
  <2>7. Whole
    BY <1>1, <1>6, <2>2, <2>5, <2>6, AclReported
  <2>8. QED
    BY <2>4, <2>7
<1>7. CASE r = ParseSync(p, d) /\ p.type \in {5, 6, 7, 12, 13}
  <2>1. p.type \in ByRate23 \cup {5} \cup Uncoded /\ p.type \notin Acl
    BY <1>7 DEF Acl, ByRate23, Uncoded
  <2>2. d \in Nat
    BY <1>5, <2>1
  <2>3. r.status = "full" /\ r.bytes > 0 => shown \in Nat /\ shown <= d /\ d > 0
    BY <1>1, <1>7, <2>1, <2>2, SyncReported
  <2> HIDE DEF shown
  <2>4. Cut
    BY <1>2, <1>4, <2>1, <2>3, PartWasOnAir
  <2>5. p.air >= 2745 /\ p.fecOk => d >= SyncBytes(p.type)
    BY <1>2, <1>7, <2>1, WholeCapture DEF d
  <2>6. SyncBytes(p.type) \in Nat
    BY <1>7 DEF SyncBytes
  <2>7. Whole
    BY <1>1, <1>7, <2>1, <2>2, <2>5, <2>6, SyncReported
  <2>8. QED
    BY <2>4, <2>7
<1>8. ASSUME NEW how, NEW limit, r = Report(how, limit, 0, "none"),
             limit # "truncated", how = "full" => p.type \in {0, 1}
      PROVE  Cut /\ Whole
  <2>1. r.status = how /\ r.limit = limit /\ r.bytes = 0
    BY <1>8, ReportFields
  <2>2. how = "full" => p.type \notin Acl
    BY <1>8 DEF Acl
  <2>3. QED
    BY <1>8, <2>1, <2>2
<1>9. QED
  BY <1>3, <1>6, <1>7, <1>8

-----------------------------------------------------------------------------
(* Verdicts *)

\* A payload verdict that confirms is about bits that were all captured.
LEMMA CodedIsWhole ==
  ASSUME NEW p \in VerdictPackets, p.type \in {3, 8, 10, 14},
         NEW v \in VerifyDm(p), v >= 10
  PROVE  p.size >= NeededBits(p)
<1> DEFINE size == IF p.type = 8 THEN p.size - 80 ELSE p.size
           header == IF p.type \in {3, 8} THEN 1 ELSE 2
           bytes == AclLength(p, size, TRUE, header)
           coded == (8 * bytes * 15) \div 10
           MaxBytes == MaxDm(p.type)
<1>1. p.size \in Nat /\ p.length \in Nat /\ size \in Int /\ header \in {1, 2}
  BY DEF VerdictPackets
<1>2. VerifyDm(p) = IF bytes = Nothing THEN {0}
                    ELSE IF bytes > MaxBytes \/ 8 * bytes > size \/ coded > size
                    THEN {1}
                    ELSE IF Decoded23(coded) < 0 \/ ~p.fecOk THEN {0}
                    ELSE {Judged(p.crcOk)}
  BY Zenon DEF VerifyDm
<1> HIDE DEF coded, size, header
<1>3. /\ bytes = p.length + header + 2 \/ bytes = -1
      /\ Nothing = -1
  BY DEF AclLength, Nothing
<1> HIDE DEF bytes, MaxBytes
<1>4. bytes # Nothing /\ ~ (coded > size) /\ ~ (Decoded23(coded) < 0)
  BY <1>2
<1>5. bytes = p.length + header + 2 /\ bytes \in Nat
  BY <1>1, <1>3, <1>4
<1>6. coded = 12 * bytes
  BY <1>5 DEF coded
<1>7. coded % 15 = 0
  BY <1>4, <1>5, <1>6 DEF Decoded23
<1>8. 15 * ((8 * bytes + 9) \div 10) = coded
  BY <1>5, <1>6, <1>7
<1>9. NeededBits(p) = IF p.type = 8 THEN 80 + 15 * ((8 * bytes + 9) \div 10)
                      ELSE 15 * ((8 * bytes + 9) \div 10)
  BY <1>1, <1>5 DEF NeededBits, header
<1>10. QED
  BY <1>1, <1>4, <1>6, <1>5, <1>8, <1>9 DEF size

LEMMA UncodedIsWhole ==
  ASSUME NEW p \in VerdictPackets, p.type \in {4, 11, 15},
         NEW v \in VerifyDh(p), v >= 10
  PROVE  p.size >= NeededBits(p)
<1> DEFINE header == IF p.type = 4 THEN 1 ELSE 2
           bytes == AclLength(p, p.size, FALSE, header)
           MaxBytes == MaxDh(p.type)
<1>1. p.size \in Nat /\ p.length \in Nat /\ header \in {1, 2}
  BY DEF VerdictPackets
<1>2. VerifyDh(p) = IF bytes = Nothing THEN {0}
                    ELSE IF bytes > MaxBytes \/ 8 * bytes > p.size THEN {1}
                    ELSE IF bytes > DhBufferBytes THEN {2, 10}
                    ELSE {Judged(p.crcOk)}
  BY Zenon DEF VerifyDh
<1> HIDE DEF header
<1>3. /\ bytes = p.length + header + 2 \/ bytes = -1
      /\ Nothing = -1
  BY DEF AclLength, Nothing
<1> HIDE DEF bytes, MaxBytes
<1>4. bytes # Nothing /\ ~ (8 * bytes > p.size)
  BY <1>2
<1>5. bytes = p.length + header + 2
  BY <1>3, <1>4
<1>6. NeededBits(p) = 8 * bytes
  BY <1>1, <1>5 DEF NeededBits, header
<1>7. QED
  BY <1>1, <1>4, <1>5, <1>6

\* What the payload of a packet says: the checks of each type.
LEMMA PayloadSays ==
  ASSUME NEW p \in VerdictPackets, NEW v \in PayloadVerdicts(p)
  PROVE  /\ v \in {0, 1, 2, 10, 1000}
         /\ v >= 10 => p.type \notin Esco /\ p.size >= NeededBits(p)
         /\ v = 0 => p.type = 3 \/ (p.type = 2 /\ ~ (p.fecOk /\ p.crcOk))
<1>1. p.type \in 0..15 /\ p.size \in Nat /\ p.length \in Nat
  BY DEF VerdictPackets
<1>2. CASE p.size = 0
  BY <1>2 DEF PayloadVerdicts
<1>3. CASE p.size # 0
  <2>1. PICK w \in Verified(p) : v = Weighed(p, w)
    BY <1>3 DEF PayloadVerdicts
  <2>2. CASE p.type = 2
    <3>1. w \in VerifyFhs(p)
      BY <2>1, <2>2 DEF Verified
    <3>2. NeededBits(p) = 240 /\ p.type \notin Esco
      BY <2>2 DEF NeededBits, Esco
    <3>3. QED
      BY <1>1, <2>1, <2>2, <3>1, <3>2 DEF VerifyFhs, Weighed
  <2>3. CASE p.type \in {3, 8, 10, 14}
    <3>1. w \in VerifyDm(p)
      BY <2>1, <2>3 DEF Verified
    <3>2. w \in {0, 1, 2, 10}
      BY <3>1 DEF VerifyDm, Judged
    <3>3. p.type \notin Esco
      BY <2>3 DEF Esco
    <3>4. w >= 10 => p.size >= NeededBits(p)
      BY <2>3, <3>1, CodedIsWhole
    <3>5. QED
      BY <1>1, <2>1, <2>3, <3>2, <3>3, <3>4 DEF Weighed
  <2>4. CASE p.type \in {4, 11, 15}
    <3>1. w \in VerifyDh(p)
      BY <2>1, <2>4 DEF Verified
    <3>2. w \in {0, 1, 2, 10}
      BY <3>1 DEF VerifyDh, Judged
    <3>3. p.type \notin Esco
      BY <2>4 DEF Esco
    <3>4. w >= 10 => p.size >= NeededBits(p)
      BY <2>4, <3>1, UncodedIsWhole
    <3>5. QED
      BY <1>1, <2>1, <2>4, <3>2, <3>3, <3>4 DEF Weighed
  <2>5. CASE p.type \in {7, 13}
    <3>1. w \in {1, 2, 10}
      BY <2>1, <2>5 DEF Verified, VerifyEv
    <3>2. QED
      BY <2>1, <2>5, <3>1 DEF Weighed
  <2>6. CASE p.type = 12
    <3>1. w \in {0, 1, 2}
      BY <2>1, <2>6 DEF Verified, VerifyEv4
    <3>2. QED
      BY <2>1, <2>6, <3>1 DEF Weighed
  <2>7. CASE p.type = 5
    <3>1. w \in {1, 2}
      BY <2>1, <2>7 DEF Verified, VerifyHv
    <3>2. QED
      BY <2>1, <2>7, <3>1 DEF Weighed
  <2>8. CASE p.type \in {0, 1, 6, 9}
    <3>1. w = 1
      BY <2>1, <2>8 DEF Verified
    <3>2. QED
      BY <2>1, <2>8, <3>1 DEF Weighed
  <2>9. QED
    BY <1>1, <2>2, <2>3, <2>4, <2>5, <2>6, <2>7, <2>8
<1>4. QED
  BY <1>2, <1>3

-----------------------------------------------------------------------------
\* No eSCO packet confirms, so that the mask of their LT_ADDRs stays empty: the
\* rule that one LT_ADDR is not used by both families never speaks.
VerdictInv ==
  /\ DOMAIN masks = {"esco", "acl"} /\ masks["esco"] = {}
  /\ VerdictsAreSound

LEMMA VerdictStep ==
  ASSUME VerdictInv, [VerdictNext]_verdictVars
  PROVE  VerdictInv'
<1>1. CASE UNCHANGED verdictVars
  BY <1>1 DEF verdictVars, VerdictInv, VerdictsAreSound, ConfirmedIsWhole,
              TruthSurvives, CheckedPackets
<1>2. ASSUME NEW p \in Packets, CheckPacket(p) PROVE VerdictInv'
  <2>1. PICK v \in PayloadVerdicts(p) :
          /\ masks' = NextMasks(p, v)
          /\ checked' = <<[packet |-> p, verdict |-> FinalVerdict(p, v)]>>
    BY <1>2 DEF CheckPacket
  <2>2. /\ p \in VerdictPackets
        /\ p.own => MaySend(p)
    BY BredrVerdictsAssumption
  <2>3. /\ v \in {0, 1, 2, 10, 1000}
        /\ v >= 10 => p.type \notin Esco /\ p.size >= NeededBits(p)
        /\ v = 0 => p.type = 3 \/ (p.type = 2 /\ ~ (p.fecOk /\ p.crcOk))
    BY <2>2, PayloadSays
  <2>4. Ruled(p, v) => LinkFamily(p) = "acl" /\ p.lt \notin masks[Opposite(LinkFamily(p))]
    BY <2>3 DEF Ruled, LinkFamily, Opposite, VerdictInv
  <2>5. FinalVerdict(p, v) = IF Sane(p) THEN v ELSE -1
    BY <2>4 DEF FinalVerdict
  <2>6. DOMAIN masks' = {"esco", "acl"} /\ masks'["esco"] = {}
    BY <2>1, <2>4 DEF NextMasks, VerdictInv
  <2>7. CheckedPackets' = {[packet |-> p, verdict |-> FinalVerdict(p, v)]}
    BY <2>1 DEF CheckedPackets
  <2>8. ConfirmedIsWhole'
    BY <2>3, <2>5, <2>7 DEF ConfirmedIsWhole
  <2>9. TruthSurvives'
    <3> SUFFICES ASSUME p.own, ~SpeaksAgainst(p) PROVE FinalVerdict(p, v) > 0
      BY <2>7 DEF TruthSurvives
    <3>1. Sane(p)
      BY <2>2 DEF SpeaksAgainst, MaySend, Sane
    <3>2. v # 0
      BY <2>3 DEF SpeaksAgainst
    <3>3. QED BY <2>3, <2>5, <3>1, <3>2
  <2>10. QED
    BY <2>6, <2>8, <2>9 DEF VerdictInv, VerdictsAreSound
<1>3. QED
  BY <1>1, <1>2 DEF VerdictNext

\* VerdictsAreSound: a candidate clock is confirmed only by a packet captured to
\* the last bit its checksum covers, and no packet of the connection but a DM1,
\* a spoiled FHS or an EV3 with flags removes the clock it was sent at, in
\* whatever order packets are checked (verify_payload_crc, sanity_check_header).
THEOREM VerdictsHold == VerdictSpec => []VerdictsAreSound
<1>1. VerdictInit => VerdictInv
  BY DEF VerdictInit, VerdictInv, VerdictsAreSound, ConfirmedIsWhole, TruthSurvives,
         CheckedPackets
<1>2. VerdictInv => VerdictsAreSound
  BY DEF VerdictInv
<1>3. VerdictInv /\ [VerdictNext]_verdictVars => VerdictInv'
  BY VerdictStep
<1>4. QED BY <1>1, <1>2, <1>3, PTL DEF VerdictSpec

-----------------------------------------------------------------------------
(* Numbers, and functions that go through them one by one *)

\* A set of naturals has a least element.
LEMMA LeastNat ==
  ASSUME NEW T \in SUBSET Nat, T # {}
  PROVE  \E x \in T : \A y \in T : x <= y
<1> DEFINE Below(n) == {y \in T : y <= n}
           Segments == {Below(n) : n \in T}
<1>1. \A n \in T : Below(n) \in FiniteSubsetsOf(Nat)
  BY FS_BoundedSetOfNaturals DEF FiniteSubsetsOf
<1>2. PICK S \in Segments : \A U \in Segments : ~ (<<U, S>> \in StrictSubsetOrdering(Nat))
  <2>1. Segments \subseteq FiniteSubsetsOf(Nat) /\ Segments # {}
    BY <1>1
  <2> HIDE DEF Segments
  <2>2. QED BY <2>1, WFMin, FS_StrictSubsetOrderingWellFounded
<1>3. PICK n \in T : S = Below(n)
  BY <1>2
<1>4. ASSUME NEW y \in T, ~ (n <= y) PROVE FALSE
  <2>1. Below(y) \subseteq S /\ n \notin Below(y) /\ n \in S
    <3>1. n \in Nat /\ y \in Nat /\ y < n
      BY <1>4
    <3>2. \A z \in T : z <= y => z <= n
      BY <3>1
    <3>3. Below(y) \subseteq Below(n) /\ n \notin Below(y) /\ n \in Below(n)
      <4>1. Below(y) \subseteq Below(n)
        BY <3>2
      <4>2. n \notin Below(y)
        BY <1>4
      <4>3. n \in Below(n)
        BY <3>1
      <4>4. QED BY <4>1, <4>2, <4>3
    <3> HIDE DEF Below
    <3>4. QED BY <1>3, <3>3
  <2>2. <<Below(y), S>> \in StrictSubsetOrdering(Nat)
    BY <2>1, <1>1, <1>3 DEF StrictSubsetOrdering, FiniteSubsetsOf
  <2>3. QED BY <1>2, <2>2
<1>5. QED BY <1>4

\* What holds of 0 and goes on, holds of every number.
LEMMA Induct ==
  ASSUME NEW P, 0 \in P, \A n \in Nat : n \in P => n + 1 \in P
  PROVE  Nat \subseteq P
<1> DEFINE T == {n \in Nat : n \notin P}
<1> SUFFICES ASSUME T # {} PROVE FALSE
  OBVIOUS
<1>1. PICK n \in T : \A m \in T : n <= m
  BY LeastNat
<1>2. n \in Nat /\ n # 0 /\ n \notin P
  OBVIOUS
<1>3. n - 1 \in Nat /\ ~ (n <= n - 1)
  BY <1>2
<1>4. n - 1 \in P
  BY <1>1, <1>3
<1>5. (n - 1) + 1 = n
  BY <1>2
<1>6. QED BY <1>2, <1>3, <1>4, <1>5

\* The values of a recursive function that goes through m steps: there are some.
Runs(S, a, F, m) ==
  {g \in [0..m -> S] : g[0] = a /\ \A k \in 1..m : g[k] = F[k][g[k - 1]]}

LEMMA Iterates ==
  ASSUME NEW S, NEW a \in S, NEW F \in [Nat -> [S -> S]], NEW m \in Nat
  PROVE  Runs(S, a, F, m) # {}
<1> DEFINE Good(n, g) == /\ g \in [0..n -> S] /\ g[0] = a
                         /\ \A k \in 1..n : g[k] = F[k][g[k - 1]]
           P == {n \in Nat : \E g : Good(n, g)}
<1>1. 0 \in P
  <2>1. Good(0, [k \in 0..0 |-> a])
    OBVIOUS
  <2>2. QED BY <2>1
<1>2. ASSUME NEW n \in Nat, n \in P PROVE n + 1 \in P
  <2>1. PICK g : Good(n, g)
    BY <1>2
  <2> DEFINE h == [k \in 0..(n + 1) |-> IF k = n + 1 THEN F[n + 1][g[n]] ELSE g[k]]
  <2>2. g[n] \in S /\ F[n + 1] \in [S -> S]
    BY <2>1
  <2>3. h \in [0..(n + 1) -> S]
    <3>1. F[n + 1][g[n]] \in S
      BY <2>2
    <3>2. \A k \in 0..(n + 1) : k # n + 1 => g[k] \in S
      BY <2>1
    <3>3. QED BY <3>1, <3>2
  <2>4. h[0] = a
    BY <2>1
  <2>5. \A k \in 1..(n + 1) : h[k] = F[k][h[k - 1]]
    <3> SUFFICES ASSUME NEW k \in 1..(n + 1) PROVE h[k] = F[k][h[k - 1]]
      OBVIOUS
    <3>1. CASE k = n + 1
      <4>1. h[k - 1] = g[n] /\ k - 1 = n /\ h[k] = F[n + 1][g[n]]
        BY <3>1
      <4>2. QED BY <4>1, <3>1
    <3>2. CASE k # n + 1
      <4>1. k \in 1..n /\ h[k - 1] = g[k - 1] /\ h[k] = g[k]
        BY <3>2
      <4>2. QED BY <4>1, <2>1
    <3>3. QED BY <3>1, <3>2
  <2>6. Good(n + 1, h)
    BY <2>3, <2>4, <2>5
  <2> HIDE DEF h, Good
  <2>7. \E g1 : Good(n + 1, g1)
    BY <2>6
  <2>8. QED BY <2>7
<1>3. Nat \subseteq P
  <2> HIDE DEF P
  <2>1. QED BY <1>1, <1>2, Induct
<1>4. PICK g : Good(m, g)
  <2> HIDE DEF Good
  <2>1. QED BY <1>3
<1>5. QED BY <1>4 DEF Runs

-----------------------------------------------------------------------------
(* Lists of services *)

InfoType ==
  [uuids : [Families -> Seq(Seq(Nat))], total : Nat, marks : SUBSET DOMAIN MarkTypes,
   flags : Seq(Nat)]

Distinct(s) == \A j \in 1..Len(s) : \A k \in 1..Len(s) : s[j] = s[k] => j = k

\* A list of one family holds names of that family, each once.
SoundList(s, f) ==
  /\ Distinct(s) /\ Len(s) <= Capacity[f]
  /\ \A k \in 1..Len(s) : ListOf(s[k]) = f /\ Named(s[k]) = s[k]

SoundInfos == {i \in InfoType : \A f \in Families : SoundList(i.uuids[f], f)}

\* List r is l with what of X it had room for.
Grows(l, r, X, cap) ==
  /\ Len(l) <= Len(r) /\ ToSet(l) \subseteq ToSet(r)
  /\ ToSet(r) \subseteq ToSet(l) \cup X
  /\ Len(r) < cap => X \subseteq ToSet(r)

\* The names, in one family, of the UUIDs in U.
NamesOf(U, f) == {Named(u) : u \in {v \in U : ListOf(v) = f}}

\* The lists of j are those of i with what of U they had room for.
Gathers(i, j, U) ==
  \A f \in Families : Grows(i.uuids[f], j.uuids[f], NamesOf(U, f), Capacity[f])

LEMMA FamilyFacts ==
  /\ Families = {"uuid16", "uuid32", "uuid128"}
  /\ \A f \in Families : Capacity[f] \in Nat
BY BleCodecAssumption DEF Families, Capacity

LEMMA ListTypes ==
  ASSUME NEW i \in SoundInfos
  PROVE  /\ i \in InfoType /\ i.uuids \in [Families -> Seq(Seq(Nat))] /\ i.total \in Nat
         /\ i.marks \in SUBSET DOMAIN MarkTypes /\ i.flags \in Seq(Nat)
         /\ \A f \in Families : SoundList(i.uuids[f], f) /\ i.uuids[f] \in Seq(Seq(Nat))
BY DEF SoundInfos, InfoType

LEMMA GrowsOn ==
  ASSUME NEW l \in Seq(Seq(Nat)), NEW m \in Seq(Seq(Nat)), NEW r \in Seq(Seq(Nat)),
         NEW X, NEW Y, NEW cap \in Nat, Grows(l, m, X, cap), Grows(m, r, Y, cap)
  PROVE  Grows(l, r, X \cup Y, cap)
<1>1. Len(l) \in Nat /\ Len(m) \in Nat /\ Len(r) \in Nat
  OBVIOUS
<1>2. Len(l) <= Len(r) /\ (Len(r) < cap => Len(m) < cap)
  BY <1>1 DEF Grows
<1>3. QED BY <1>2 DEF Grows

LEMMA GathersOn ==
  ASSUME NEW i \in SoundInfos, NEW j \in SoundInfos, NEW k \in SoundInfos,
         NEW U, NEW V, Gathers(i, j, U), Gathers(j, k, V)
  PROVE  Gathers(i, k, U \cup V)
<1> SUFFICES ASSUME NEW f \in Families
             PROVE  Grows(i.uuids[f], k.uuids[f], NamesOf(U \cup V, f), Capacity[f])
  BY DEF Gathers
<1>1. NamesOf(U \cup V, f) = NamesOf(U, f) \cup NamesOf(V, f)
  BY DEF NamesOf
<1>2. /\ i.uuids[f] \in Seq(Seq(Nat)) /\ j.uuids[f] \in Seq(Seq(Nat))
      /\ k.uuids[f] \in Seq(Seq(Nat)) /\ Capacity[f] \in Nat
  BY ListTypes, FamilyFacts
<1>3. /\ Grows(i.uuids[f], j.uuids[f], NamesOf(U, f), Capacity[f])
      /\ Grows(j.uuids[f], k.uuids[f], NamesOf(V, f), Capacity[f])
  BY DEF Gathers
<1>4. PICK x \in Nat : x = Capacity[f]
  BY <1>2
<1>5. Grows(i.uuids[f], k.uuids[f], NamesOf(U, f) \cup NamesOf(V, f), x)
  <2>1. /\ Grows(i.uuids[f], j.uuids[f], NamesOf(U, f), x)
        /\ Grows(j.uuids[f], k.uuids[f], NamesOf(V, f), x)
    BY <1>3, <1>4
  <2>2. QED BY <1>2, <2>1, GrowsOn, Zenon
<1>6. QED BY <1>1, <1>4, <1>5

LEMMA GathersNothing ==
  ASSUME NEW i \in SoundInfos
  PROVE  Gathers(i, i, {})
<1>1. \A f \in Families : NamesOf({}, f) = {} /\ Len(i.uuids[f]) \in Nat
  BY ListTypes DEF NamesOf
<1>2. QED BY <1>1 DEF Gathers, Grows

LEMMA SetOfList ==
  ASSUME NEW s \in Seq(Seq(Nat))
  PROVE  /\ ToSet(s) = {s[k] : k \in 1..Len(s)}
         /\ \A u : Contains(s, u) <=> u \in ToSet(s)
<1>1. DOMAIN s = 1..Len(s)
  OBVIOUS
<1>2. ToSet(s) = {s[k] : k \in 1..Len(s)}
  BY <1>1, Zenon DEF ToSet
<1>3. QED BY <1>2, Zenon DEF Contains

LEMMA KeptIs ==
  ASSUME NEW s \in Seq(Seq(Nat)), NEW u \in Seq(Nat), NEW cap \in Nat
  PROVE  /\ Kept(s, u, cap) \in Seq(Seq(Nat))
         /\ \A k \in 1..Len(Kept(s, u, cap)) :
              Kept(s, u, cap)[k] = u \/ (k \in 1..Len(s) /\ Kept(s, u, cap)[k] = s[k])
         /\ Distinct(s) => Distinct(Kept(s, u, cap))
         /\ Len(s) <= cap => Len(Kept(s, u, cap)) <= cap
         /\ Len(s) <= Len(Kept(s, u, cap))
         /\ ToSet(s) \subseteq ToSet(Kept(s, u, cap))
         /\ ToSet(Kept(s, u, cap)) \subseteq ToSet(s) \cup {u}
         /\ Len(Kept(s, u, cap)) < cap => u \in ToSet(Kept(s, u, cap))
<1>1. CASE Contains(s, u) \/ Len(s) >= cap
  <2>1. Kept(s, u, cap) = s
    BY <1>1 DEF Kept
  <2>2. QED BY <1>1, <2>1, SetOfList
<1>2. CASE ~ (Contains(s, u) \/ Len(s) >= cap)
  <2> DEFINE r == Append(s, u)
  <2>1. Kept(s, u, cap) = r
    BY <1>2 DEF Kept
  <2>2. /\ r \in Seq(Seq(Nat)) /\ Len(r) = Len(s) + 1 /\ Len(s) \in Nat
        /\ r[Len(s) + 1] = u
        /\ \A k \in 1..Len(s) : r[k] = s[k]
    OBVIOUS
  <2> HIDE DEF r
  <2>3. \A k \in 1..Len(s) : s[k] # u
    BY <1>2 DEF Contains
  <2>8. ASSUME NEW k \in 1..Len(r)
        PROVE  (r[k] = u /\ k = Len(s) + 1) \/ (k \in 1..Len(s) /\ r[k] = s[k])
    <3>1. k = Len(s) + 1 \/ k \in 1..Len(s)
      BY <2>2
    <3>2. QED BY <2>2, <3>1
  <2>4. ToSet(r) = {r[k] : k \in 1..Len(r)} /\ ToSet(s) = {s[k] : k \in 1..Len(s)}
    BY <2>2, SetOfList
  <2>5. ToSet(r) = ToSet(s) \cup {u}
    <3>1. \A k \in 1..Len(r) : r[k] = u \/ (k \in 1..Len(s) /\ r[k] = s[k])
      BY <2>8
    <3>2. ToSet(r) \subseteq ToSet(s) \cup {u}
      BY <2>4, <3>1
    <3>3. \A k \in 1..Len(s) : k \in 1..Len(r) /\ s[k] = r[k]
      BY <2>2
    <3>4. Len(r) \in 1..Len(r) /\ r[Len(r)] = u
      BY <2>2
    <3>5. QED BY <2>4, <3>2, <3>3, <3>4
  <2>6. Distinct(s) => Distinct(r)
    <3> SUFFICES ASSUME Distinct(s), NEW j \in 1..Len(r), NEW k \in 1..Len(r), r[j] = r[k]
                 PROVE  j = k
      BY DEF Distinct
    <3>1. CASE j \in 1..Len(s) /\ k \in 1..Len(s)
      BY <2>2, <3>1 DEF Distinct
    <3>2. CASE ~ (j \in 1..Len(s) /\ k \in 1..Len(s))
      BY <2>3, <2>8, <3>2
    <3>3. QED BY <3>1, <3>2
  <2>7. Len(r) <= cap
    BY <1>2, <2>2
  <2>9. QED BY <2>1, <2>2, <2>5, <2>6, <2>7, <2>8
<1>3. QED BY <1>1, <1>2

LEMMA NamedIs ==
  ASSUME NEW u \in Seq(Nat)
  PROVE  /\ Named(u) \in Seq(Nat) /\ Named(Named(u)) = Named(u)
         /\ ListOf(Named(u)) = ListOf(u) /\ ListOf(u) \in Families
<1>1. /\ Uuid128Bytes \in Nat /\ 2 < Uuid128Bytes
  BY BleCodecAssumption
<1>2. Named(u) \in Seq(Nat) /\ Named(Named(u)) = Named(u)
  <2>1. CASE IsBase(u)
    <3>1. Len(u) = Uuid128Bytes /\ Named(u) = SubSeq(u, 1, 2)
      BY <2>1 DEF IsBase, Named
    <3>2. Named(u) \in Seq(Nat) /\ Len(Named(u)) = 2
      BY <1>1, <3>1, SubSeqProperties
    <3>3. ~IsBase(Named(u))
      BY <1>1, <3>2 DEF IsBase
    <3> QED BY <3>2, <3>3 DEF Named
  <2>2. CASE ~IsBase(u)
    BY <2>2 DEF Named
  <2>3. QED BY <2>1, <2>2
<1>3. ListOf(Named(u)) = ListOf(u) /\ ListOf(u) \in Families
  BY <1>2, FamilyFacts DEF ListOf
<1>4. QED BY <1>2, <1>3

LEMMA AddOne ==
  ASSUME NEW i \in SoundInfos, NEW u \in Seq(Nat)
  PROVE  AddUuid(i, u) \in SoundInfos /\ Gathers(i, AddUuid(i, u), {u})
<1> DEFINE g == ListOf(u)
           l == i.uuids[g]
           r == Kept(l, Named(u), Capacity[g])
           t == IF g = "uuid128" THEN i.total + 1 ELSE i.total
           us == [i.uuids EXCEPT ![g] = r]
<1>1. /\ i.uuids \in [Families -> Seq(Seq(Nat))] /\ i.total \in Nat
      /\ i.marks \in SUBSET DOMAIN MarkTypes /\ i.flags \in Seq(Nat)
      /\ \A f \in Families : SoundList(i.uuids[f], f) /\ i.uuids[f] \in Seq(Seq(Nat))
      /\ i \in InfoType
  BY ListTypes
<1>2. g \in Families /\ Named(u) \in Seq(Nat) /\ Capacity[g] \in Nat
      /\ ListOf(Named(u)) = g /\ Named(Named(u)) = Named(u)
  BY NamedIs, FamilyFacts
<1>3. AddUuid(i, u) = [i EXCEPT !.uuids = us, !.total = t]
  BY <1>1 DEF AddUuid, InfoType
<1> HIDE DEF g
<1>4. l \in Seq(Seq(Nat)) /\ SoundList(l, g)
  BY <1>1, <1>2
<1> HIDE DEF l
<1>5. /\ r \in Seq(Seq(Nat))
      /\ \A k \in 1..Len(r) : r[k] = Named(u) \/ (k \in 1..Len(l) /\ r[k] = l[k])
      /\ Distinct(l) => Distinct(r)
      /\ Len(l) <= Capacity[g] => Len(r) <= Capacity[g]
      /\ Grows(l, r, {Named(u)}, Capacity[g])
  <2>1. PICK x \in Nat : x = Capacity[g]
    BY <1>2
  <2>2. PICK v \in Seq(Nat) : v = Named(u)
    BY <1>2
  <2>3. r = Kept(l, v, x)
    BY <2>1, <2>2
  <2> HIDE DEF r
  <2>4. /\ r \in Seq(Seq(Nat))
        /\ \A k \in 1..Len(r) : r[k] = v \/ (k \in 1..Len(l) /\ r[k] = l[k])
        /\ Distinct(l) => Distinct(r)
        /\ Len(l) <= x => Len(r) <= x
        /\ Len(l) <= Len(r) /\ ToSet(l) \subseteq ToSet(r)
        /\ ToSet(r) \subseteq ToSet(l) \cup {v}
        /\ Len(r) < x => v \in ToSet(r)
    <3> DEFINE K == Kept(l, v, x)
    <3>1. /\ K \in Seq(Seq(Nat))
          /\ \A k \in 1..Len(K) : K[k] = v \/ (k \in 1..Len(l) /\ K[k] = l[k])
          /\ Distinct(l) => Distinct(K)
          /\ Len(l) <= x => Len(K) <= x
          /\ Len(l) <= Len(K) /\ ToSet(l) \subseteq ToSet(K)
          /\ ToSet(K) \subseteq ToSet(l) \cup {v}
          /\ Len(K) < x => v \in ToSet(K)
      BY <1>4, KeptIs
    <3>2. r = K
      BY <2>3
    <3> HIDE DEF K
    <3>3. QED BY <3>1, <3>2
  <2>5. Grows(l, r, {v}, x)
    BY <2>4 DEF Grows
  <2>6. QED BY <2>1, <2>2, <2>4, <2>5
<1> HIDE DEF r
<1>6. SoundList(r, g)
  <2>1. Distinct(l) /\ Len(l) <= Capacity[g]
        /\ \A k \in 1..Len(l) : ListOf(l[k]) = g /\ Named(l[k]) = l[k]
    BY <1>4 DEF SoundList
  <2>2. Distinct(r) /\ Len(r) <= Capacity[g]
    BY <1>5, <2>1
  <2>3. \A k \in 1..Len(r) : ListOf(r[k]) = g /\ Named(r[k]) = r[k]
    <3> SUFFICES ASSUME NEW k \in 1..Len(r)
                 PROVE  ListOf(r[k]) = g /\ Named(r[k]) = r[k]
      OBVIOUS
    <3>1. r[k] = Named(u) \/ (k \in 1..Len(l) /\ r[k] = l[k])
      BY <1>5
    <3>2. CASE r[k] = Named(u)
      BY <1>2, <3>2
    <3>3. CASE k \in 1..Len(l) /\ r[k] = l[k]
      BY <2>1, <3>3
    <3>4. QED BY <3>1, <3>2, <3>3
  <2>4. QED BY <2>2, <2>3 DEF SoundList
<1>7. us \in [Families -> Seq(Seq(Nat))] /\ us[g] = r
      /\ \A f \in Families \ {g} : us[f] = i.uuids[f]
  BY <1>1, <1>2, <1>5
<1> HIDE DEF us
<1>8. t \in Nat
  BY <1>1
<1> HIDE DEF t
<1>9. AddUuid(i, u) \in InfoType /\ AddUuid(i, u).uuids = us
  BY <1>1, <1>3, <1>7, <1>8 DEF InfoType
<1>10. AddUuid(i, u) \in SoundInfos
  <2>1. \A f \in Families : SoundList(us[f], f)
    BY <1>1, <1>6, <1>7
  <2>2. QED BY <1>9, <2>1 DEF SoundInfos
<1>11. ASSUME NEW f \in Families
       PROVE  Grows(i.uuids[f], us[f], NamesOf({u}, f), Capacity[f])
  <2>1. CASE f = g
    <3>1. NamesOf({u}, f) = {Named(u)}
      BY <2>1 DEF NamesOf, g
    <3>2. i.uuids[f] = l /\ us[f] = r
      BY <1>7, <2>1 DEF l
    <3>3. QED BY <1>5, <2>1, <3>1, <3>2
  <2>2. CASE f # g
    <3>1. NamesOf({u}, f) = {}
      BY <2>2 DEF NamesOf, g
    <3>2. us[f] = i.uuids[f] /\ Len(i.uuids[f]) \in Nat
      BY <1>1, <1>7, <2>2
    <3>3. Len(us[f]) <= Len(us[f])
      BY <3>2
    <3>4. Grows(us[f], us[f], {}, Capacity[f])
      BY <3>3, Zenon DEF Grows
    <3>5. QED BY <3>1, <3>2, <3>4
  <2>3. QED BY <2>1, <2>2
<1>12. QED BY <1>9, <1>10, <1>11 DEF Gathers

\* AddUuids goes through the list.
LEMMA Adding ==
  ASSUME NEW i \in SoundInfos, NEW us \in Seq(Seq(Nat))
  PROVE  \E g \in [0..Len(us) -> SoundInfos] :
           /\ g[0] = i /\ AddUuids(i, us) = g[Len(us)]
           /\ \A k \in 1..Len(us) : g[k] = AddUuid(g[k - 1], us[k])
<1> DEFINE n == Len(us)
           uuid(k) == IF k \in 1..n THEN us[k] ELSE <<>>
           Adds == [k \in Nat |-> [s \in SoundInfos |-> AddUuid(s, uuid(k))]]
           Is(g) == g = [k \in 0..n |-> IF k = 0 THEN i ELSE AddUuid(g[k - 1], us[k])]
<1>1. n \in Nat /\ \A k \in Nat : uuid(k) \in Seq(Nat)
  OBVIOUS
<1>2. PICK F : /\ F \in [Nat -> [SoundInfos -> SoundInfos]]
               /\ \A k \in Nat, s \in SoundInfos : F[k][s] = AddUuid(s, uuid(k))
  <2> HIDE DEF uuid
  <2>1. \A k \in Nat, s \in SoundInfos : AddUuid(s, uuid(k)) \in SoundInfos
    BY <1>1, AddOne
  <2>2. /\ Adds \in [Nat -> [SoundInfos -> SoundInfos]]
        /\ \A k \in Nat, s \in SoundInfos : Adds[k][s] = AddUuid(s, uuid(k))
    BY <2>1
  <2>3. QED BY <2>2
<1>3. PICK g \in [0..n -> SoundInfos] :
         g[0] = i /\ \A k \in 1..n : g[k] = F[k][g[k - 1]]
  <2>1. n \in Nat /\ F \in [Nat -> [SoundInfos -> SoundInfos]]
    BY <1>1, <1>2
  <2> HIDE DEF n, uuid, Adds, Is
  <2>2. Runs(SoundInfos, i, F, n) # {}
    BY <2>1, Iterates
  <2>3. QED BY <2>2 DEF Runs
<1>4. \A k \in 1..n : F[k][g[k - 1]] = AddUuid(g[k - 1], us[k])
  <2> SUFFICES ASSUME NEW k \in 1..n PROVE F[k][g[k - 1]] = AddUuid(g[k - 1], us[k])
    OBVIOUS
  <2>0. k \in Nat /\ k - 1 \in 0..n
    BY <1>1
  <2>1. g[k - 1] \in SoundInfos /\ k \in Nat /\ uuid(k) = us[k]
    <3>1. g[k - 1] \in SoundInfos
      <4> HIDE DEF n
      <4>1. QED BY <1>3, <2>0
    <3>2. QED BY <2>0, <3>1
  <2> HIDE DEF uuid
  <2>2. QED BY <2>1, <1>2
<1>5. Is(g)
  <2> DEFINE e == [k \in 0..n |-> IF k = 0 THEN i ELSE AddUuid(g[k - 1], us[k])]
  <2>1. ASSUME NEW k \in 0..n PROVE g[k] = e[k]
    <3>1. k = 0 \/ k \in 1..n
      BY <1>1
    <3> HIDE DEF n
    <3>2. QED BY <3>1, <1>3, <1>4
  <2>2. g = [k \in 0..n |-> g[k]] /\ e = [k \in 0..n |-> e[k]]
    BY <1>3
  <2> HIDE DEF n, e
  <2>3. g = e
    BY <2>1, <2>2
  <2>4. QED BY <2>3 DEF e
<1>6. Is(CHOOSE h : Is(h))
  BY <1>5, Zenon
<1>7. AddUuids(i, us) = (CHOOSE h : Is(h))[n]
  BY DEF AddUuids
<1>8. ASSUME NEW h, Is(h) PROVE h = g
  <2> DEFINE P == {k \in Nat : k <= n => h[k] = g[k]}
  <2>1. 0 \in P
    BY <1>5, <1>8, <1>1
  <2>2. ASSUME NEW k \in Nat, k \in P PROVE k + 1 \in P
    <3> SUFFICES ASSUME k + 1 <= n PROVE h[k + 1] = g[k + 1]
      OBVIOUS
    <3>1. k + 1 \in 0..n /\ k + 1 # 0 /\ (k + 1) - 1 = k /\ h[k] = g[k]
      BY <1>1, <2>2
    <3>2. QED BY <1>5, <1>8, <3>1
  <2>3. Nat \subseteq P
    <3> HIDE DEF P
    <3>1. QED BY <2>1, <2>2, Induct
  <2>4. \A k \in 0..n : h[k] = g[k]
    BY <2>3
  <2>5. DOMAIN h = 0..n /\ DOMAIN g = 0..n
    BY <1>8
  <2>6. h = [k \in 0..n |-> h[k]] /\ g = [k \in 0..n |-> g[k]]
    BY <1>8, <2>5
  <2>7. QED BY <2>4, <2>6
<1>9. AddUuids(i, us) = g[n]
  <2> HIDE DEF Is
  <2>1. QED BY <1>6, <1>7, <1>8
<1>10. g[0] = i /\ \A k \in 1..n : g[k] = AddUuid(g[k - 1], us[k])
  <2>1. 0 \in 0..n /\ \A k \in 1..n : k \in 0..n /\ k # 0
    BY <1>1
  <2>2. QED BY <1>5, <2>1
<1>11. QED BY <1>9, <1>10

\* The first k UUIDs.
FirstOf(us, k) == {us[j] : j \in 1..k}

LEMMA AddAll ==
  ASSUME NEW i \in SoundInfos, NEW us \in Seq(Seq(Nat))
  PROVE  AddUuids(i, us) \in SoundInfos /\ Gathers(i, AddUuids(i, us), ToSet(us))
<1> DEFINE n == Len(us)
<1>0. n \in Nat
  OBVIOUS
<1>1. PICK g \in [0..n -> SoundInfos] :
        /\ g[0] = i /\ AddUuids(i, us) = g[n]
        /\ \A k \in 1..n : g[k] = AddUuid(g[k - 1], us[k])
  BY Adding
<1> DEFINE P == {k \in Nat : k <= n => Gathers(i, g[k], FirstOf(us, k))}
<1>3. 0 \in P
  <2>1. FirstOf(us, 0) = {}
    BY DEF FirstOf
  <2>2. Gathers(i, g[0], {})
    BY <1>1, GathersNothing
  <2>3. QED BY <2>1, <2>2
<1>4. ASSUME NEW k \in Nat, k \in P PROVE k + 1 \in P
  <2> SUFFICES ASSUME k + 1 <= n
               PROVE  Gathers(i, g[k + 1], FirstOf(us, k + 1))
    OBVIOUS
  <2>1. k \in 0..n /\ k + 1 \in 1..n /\ k + 1 \in 0..n /\ (k + 1) - 1 = k
    BY <1>0
  <2>2. g[k + 1] = AddUuid(g[k], us[k + 1]) /\ g[k] \in SoundInfos /\ g[k + 1] \in SoundInfos
    BY <1>1, <2>1
  <2>3. us[k + 1] \in Seq(Nat)
    BY <2>1
  <2>4. Gathers(g[k], g[k + 1], {us[k + 1]})
    BY <2>2, <2>3, AddOne
  <2>5. Gathers(i, g[k], FirstOf(us, k))
    BY <1>0, <1>4, <2>1
  <2>6. FirstOf(us, k + 1) = FirstOf(us, k) \cup {us[k + 1]}
    <3>1. \A h : h \in 1..(k + 1) <=> h \in 1..k \/ h = k + 1
      BY <2>1
    <3>2. QED BY <3>1, Zenon DEF FirstOf
  <2>7. Gathers(i, g[k + 1], FirstOf(us, k) \cup {us[k + 1]})
    BY <2>2, <2>4, <2>5, GathersOn
  <2>8. QED BY <2>6, <2>7
<1>5. n \in P
  <2> HIDE DEF P
  <2>1. Nat \subseteq P
    BY <1>3, <1>4, Induct
  <2>2. QED BY <1>0, <2>1
<1>6. Gathers(i, g[n], FirstOf(us, n))
  BY <1>0, <1>5
<1>7. FirstOf(us, n) = ToSet(us) /\ g[n] \in SoundInfos
  BY <1>0, <1>1, SetOfList DEF FirstOf
<1>8. QED BY <1>1, <1>6, <1>7

\* The UUIDs of a structure are read from its own bytes.
LEMMA UuidsRead ==
  ASSUME NEW t \in Nat, NEW bytes \in Seq(Nat)
  PROVE  Uuids(t, bytes) \in Seq(Seq(Nat))
<1> DEFINE w == UuidList(t).width
           n == IF w = 0 THEN 0 ELSE Len(bytes) \div w
           m == IF UuidList(t).one THEN Capped(n, 1) ELSE n
<1>1. w \in Nat /\ Len(bytes) \in Nat
  BY BleCodecAssumption DEF UuidList
<1> HIDE DEF w
<1>2. n \in Nat /\ n * w <= Len(bytes)
  <2>1. CASE w = 0
    BY <1>1, <2>1
  <2>2. CASE w # 0
    <3>1. w > 0
      BY <1>1, <2>2
    <3>2. PICK q : q = Len(bytes) \div w
      OBVIOUS
    <3>3. q \in Nat /\ q * w <= Len(bytes)
      BY <1>1, <3>1, <3>2, Z3
    <3>4. QED BY <2>2, <3>2, <3>3
  <2>3. QED BY <2>1, <2>2
<1> HIDE DEF n
<1>3. m \in Nat /\ m <= n
  BY <1>2 DEF Capped
<1> HIDE DEF m
<1>4. ASSUME NEW k \in 1..m
      PROVE  SubSeq(bytes, (k - 1) * w + 1, k * w) \in Seq(Nat)
  <2>1. k \in Nat /\ k >= 1 /\ k <= n
    BY <1>2, <1>3
  <2>2. PICK a \in Nat : a = (k - 1) * w
    <3>1. k - 1 \in Nat
      BY <2>1
    <3>2. \A x \in Nat : x * w \in Nat
      BY <1>1
    <3>3. QED BY <3>1, <3>2
  <2>3. PICK b \in Nat : b = k * w
    BY <1>1, <2>1
  <2>4. b <= Len(bytes)
    <3>1. \A x \in Nat, y \in Nat : x <= y => x * w <= y * w
      BY <1>1, Z3
    <3>2. k * w <= n * w
      BY <2>1, <1>2, <3>1
    <3>3. n * w \in Nat
      BY <1>1, <1>2
    <3>4. QED BY <1>1, <1>2, <2>3, <3>2, <3>3
  <2>5. SubSeq(bytes, a + 1, b) \in Seq(Nat)
    <3>1. \A x \in (a + 1)..b : x \in 1..Len(bytes)
      BY <2>4, <1>1
    <3>2. \A x \in (a + 1)..b : bytes[x] \in Nat
      BY <3>1
    <3>3. QED BY <3>2, SubSeqProperties, <2>4
  <2>6. QED BY <2>2, <2>3, <2>5
<1>5. Uuids(t, bytes) = [k \in 1..m |-> SubSeq(bytes, (k - 1) * w + 1, k * w)]
  BY DEF Uuids, w, n, m
<1> DEFINE e == [k \in 1..m |-> SubSeq(bytes, (k - 1) * w + 1, k * w)]
<1>6. e \in [1..m -> Seq(Nat)]
  BY <1>4
<1>7. e \in Seq(Seq(Nat))
  <2> HIDE DEF e
  <2>1. QED BY <1>3, <1>2, <1>6
<1>8. QED BY <1>5, <1>7

LEMMA TakenSound ==
  ASSUME NEW i \in SoundInfos, NEW t \in Nat, NEW bytes \in Seq(Nat)
  PROVE  /\ Taken(i, t, bytes) \in SoundInfos
         /\ Gathers(i, Taken(i, t, bytes), ToSet(Uuids(t, bytes)))
<1> DEFINE j == AddUuids(i, Uuids(t, bytes))
           m == j.marks \cup Marks(t, bytes)
           f == IF t = 1 /\ bytes # <<>> THEN <<bytes[1]>> ELSE j.flags
<1>1. j \in SoundInfos /\ Gathers(i, j, ToSet(Uuids(t, bytes)))
  BY UuidsRead, AddAll
<1>2. Taken(i, t, bytes) = [j EXCEPT !.marks = m, !.flags = f]
  BY DEF Taken
<1> HIDE DEF j
<1>3. m \in SUBSET DOMAIN MarkTypes
  BY <1>1, ListTypes DEF Marks
<1>4. f \in Seq(Nat)
  <2>1. CASE t = 1 /\ bytes # <<>>
    <3>1. bytes[1] \in Nat
      BY <2>1
    <3>2. QED BY <2>1, <3>1
  <2>2. CASE ~ (t = 1 /\ bytes # <<>>)
    BY <1>1, <2>2, ListTypes
  <2>3. QED BY <2>1, <2>2
<1> HIDE DEF m, f
<1>5. Taken(i, t, bytes) \in SoundInfos /\ Taken(i, t, bytes).uuids = j.uuids
  BY <1>1, <1>2, <1>3, <1>4 DEF SoundInfos, InfoType
<1>6. QED BY <1>1, <1>5 DEF Gathers

-----------------------------------------------------------------------------
(* The walk over advertising data *)

Places == [at : Nat, info : SoundInfos]

LEMMA SpanBounds ==
  ASSUME NEW a \in Nat, NEW l \in Nat, NEW n \in Nat, a + 1 + l <= n
  PROVE  /\ a..(a + l) \subseteq 0..(n - 1)
         /\ \A x \in (a + 3)..(a + 1 + l) : x \in 1..n
         /\ a + 2 <= n => a + 2 \in 1..n
         /\ a + 3 \in Int /\ a + 1 + l \in Nat
OBVIOUS

LEMMA SpansApart ==
  ASSUME NEW a \in Nat, NEW l \in Nat, NEW b \in Nat, NEW m \in Nat, a + 1 + l <= b
  PROVE  (a..(a + l)) \cap (b..(b + m)) = {}
OBVIOUS

LEMMA FitsInside ==
  ASSUME NEW data \in Seq(Nat), NEW o \in Nat, Fits(data, o)
  PROVE  /\ o + 2 <= Len(data) /\ data[o + 1] \in Nat /\ data[o + 1] >= 1
         /\ o + 1 + data[o + 1] <= Len(data)
<1>1. o + 1 \in 1..Len(data) /\ o + 2 <= Len(data)
  BY DEF Fits
<1>2. data[o + 1] \in Nat
  BY <1>1
<1>3. QED BY <1>1, <1>2 DEF Fits

\* The UUIDs of the structure at offset o.
ListedAt(data, o) == ToSet(Uuids(TypeAt(data, o), BytesAt(data, o)))

LEMMA StepIs ==
  ASSUME NEW data \in Seq(Nat), NEW w \in Places
  PROVE  /\ Step(data, w) \in Places
         /\ Fits(data, w.at) =>
              /\ Step(data, w).at = w.at + 1 + data[w.at + 1]
              /\ Gathers(w.info, Step(data, w).info, ListedAt(data, w.at))
         /\ ~ Fits(data, w.at) => Step(data, w) = w
<1>1. w.at \in Nat /\ w.info \in SoundInfos
  BY DEF Places
<1>2. CASE Fits(data, w.at)
  <2> DEFINE len == data[w.at + 1]
             t == TypeAt(data, w.at)
             b == BytesAt(data, w.at)
  <2>0. w.at + 2 <= Len(data) /\ len \in Nat /\ len >= 1 /\ w.at + 1 + len <= Len(data)
    BY <1>1, <1>2, FitsInside
  <2> HIDE DEF len
  <2>1. PICK a \in Nat : /\ a = w.at /\ Len(data) \in Nat /\ len \in Nat
                         /\ a + 2 <= Len(data) /\ a + 1 + len <= Len(data)
    BY <1>1, <2>0
  <2>9. len \in Nat /\ Len(data) \in Nat /\ a + 2 <= Len(data) /\ a + 1 + len <= Len(data)
    BY <2>1
  <2>2. t \in Nat
    <3>1. a + 2 \in 1..Len(data)
      BY <2>9, SpanBounds
    <3>2. data[a + 2] \in Nat
      BY <3>1
    <3>3. QED BY <2>1, <3>2 DEF TypeAt
  <2>3. b \in Seq(Nat)
    <3>1. \A x \in (a + 3)..(a + 1 + len) : x \in 1..Len(data)
      BY <2>9, SpanBounds
    <3>2. \A x \in (a + 3)..(a + 1 + len) : data[x] \in Nat
      BY <3>1
    <3>3. a + 3 \in Int /\ a + 1 + len \in Int
      BY <2>9, SpanBounds
    <3>4. b = SubSeq(data, a + 3, a + 1 + len)
      BY <2>1 DEF BytesAt, len
    <3> HIDE DEF b
    <3>5. QED BY <3>2, <3>3, <3>4, SubSeqProperties
  <2>4. Step(data, w) = [at |-> w.at + 1 + len, info |-> Taken(w.info, t, b)]
    BY <1>2 DEF Step, len
  <2> HIDE DEF t, b
  <2>5. /\ Taken(w.info, t, b) \in SoundInfos
        /\ Gathers(w.info, Taken(w.info, t, b), ToSet(Uuids(t, b)))
    BY <1>1, <2>2, <2>3, TakenSound
  <2>6. w.at + 1 + len \in Nat
    BY <2>1, SpanBounds
  <2>7. Step(data, w) \in Places /\ Step(data, w).at = w.at + 1 + len
        /\ Step(data, w).info = Taken(w.info, t, b)
    BY <2>4, <2>5, <2>6 DEF Places
  <2>8. Gathers(w.info, Step(data, w).info, ListedAt(data, w.at))
    BY <2>5, <2>7 DEF ListedAt, t, b
  <2>10. QED BY <1>2, <2>7, <2>8 DEF len
<1>3. CASE ~ Fits(data, w.at)
  BY <1>3 DEF Step
<1>4. QED BY <1>2, <1>3

LEMMA NothingIsSound == NoInfo \in SoundInfos
<1>1. NoInfo \in InfoType /\ \A f \in Families : NoInfo.uuids[f] = <<>>
  BY DEF NoInfo, InfoType
<1>2. \A f \in Families : SoundList(<<>>, f)
  BY FamilyFacts DEF SoundList, Distinct
<1>3. QED BY <1>1, <1>2 DEF SoundInfos

LEMMA Walking ==
  ASSUME NEW data \in Seq(Nat)
  PROVE  /\ Walk(data) \in [0..Len(data) -> Places]
         /\ Walk(data)[0] = [at |-> 0, info |-> NoInfo]
         /\ \A k \in 1..Len(data) : Walk(data)[k] = Step(data, Walk(data)[k - 1])
<1> DEFINE n == Len(data)
           start == [at |-> 0, info |-> NoInfo]
           Steps == [k \in Nat |-> [w \in Places |-> Step(data, w)]]
           Is(g) == g = [k \in 0..n |-> IF k = 0 THEN [at |-> 0, info |-> NoInfo]
                                        ELSE Step(data, g[k - 1])]
<1>1. n \in Nat /\ start \in Places
  BY NothingIsSound DEF Places
<1>2. PICK F : /\ F \in [Nat -> [Places -> Places]]
               /\ \A k \in Nat, w \in Places : F[k][w] = Step(data, w)
  <2>1. \A w \in Places : Step(data, w) \in Places
    BY StepIs
  <2>2. /\ Steps \in [Nat -> [Places -> Places]]
        /\ \A k \in Nat, w \in Places : Steps[k][w] = Step(data, w)
    BY <2>1
  <2>3. QED BY <2>2
<1>3. PICK g \in [0..n -> Places] :
         g[0] = start /\ \A k \in 1..n : g[k] = F[k][g[k - 1]]
  <2>1. n \in Nat /\ start \in Places /\ F \in [Nat -> [Places -> Places]]
    BY <1>1, <1>2
  <2> HIDE DEF n, start, Steps, Is
  <2>2. Runs(Places, start, F, n) # {}
    BY <2>1, Iterates
  <2>3. QED BY <2>2 DEF Runs
<1>4. \A k \in 1..n : g[k] = Step(data, g[k - 1])
  <2> SUFFICES ASSUME NEW k \in 1..n PROVE g[k] = Step(data, g[k - 1])
    OBVIOUS
  <2>1. g[k - 1] \in Places /\ k \in Nat
    BY <1>1
  <2>2. QED BY <2>1, <1>2, <1>3
<1>5. Is(g)
  <2> DEFINE e == [k \in 0..n |-> IF k = 0 THEN [at |-> 0, info |-> NoInfo]
                                  ELSE Step(data, g[k - 1])]
  <2>1. ASSUME NEW k \in 0..n PROVE g[k] = e[k]
    <3>1. k = 0 \/ k \in 1..n
      BY <1>1
    <3> HIDE DEF n
    <3>2. QED BY <3>1, <1>3, <1>4
  <2>2. g = [k \in 0..n |-> g[k]] /\ e = [k \in 0..n |-> e[k]]
    BY <1>3
  <2> HIDE DEF n, e
  <2>3. g = e
    BY <2>1, <2>2
  <2>4. QED BY <2>3 DEF e
<1>6. Is(CHOOSE h : Is(h))
  BY <1>5, Zenon
<1>7. Walk(data) = (CHOOSE h : Is(h))
  BY DEF Walk
<1>8. Is(Walk(data))
  <2> HIDE DEF Is
  <2>1. QED BY <1>6, <1>7
<1>9. Walk(data) = g
  <2> DEFINE h == Walk(data)
             P == {k \in Nat : k <= n => h[k] = g[k]}
  <2>0. Is(h)
    BY <1>8
  <2> HIDE DEF h
  <2>1. 0 \in P
    BY <1>5, <2>0, <1>1
  <2>2. ASSUME NEW k \in Nat, k \in P PROVE k + 1 \in P
    <3> SUFFICES ASSUME k + 1 <= n PROVE h[k + 1] = g[k + 1]
      OBVIOUS
    <3>1. k + 1 \in 0..n /\ k + 1 # 0 /\ (k + 1) - 1 = k /\ h[k] = g[k]
      BY <1>1, <2>2
    <3>2. QED BY <1>5, <2>0, <3>1
  <2>3. Nat \subseteq P
    <3> HIDE DEF P
    <3>1. QED BY <2>1, <2>2, Induct
  <2>4. \A k \in 0..n : h[k] = g[k]
    BY <2>3
  <2>5. h = [k \in 0..n |-> h[k]] /\ g = [k \in 0..n |-> g[k]]
    BY <1>3, <2>0
  <2>6. h = g
    BY <2>4, <2>5
  <2>7. QED BY <2>6 DEF h
<1>10. g[0] = [at |-> 0, info |-> NoInfo]
  BY <1>3
<1>11. QED
  <2> HIDE DEF Is
  <2>1. QED BY <1>3, <1>4, <1>9, <1>10

LEMMA TwiceNext ==
  ASSUME NEW k \in Nat, NEW a \in Nat, NEW d \in Nat, d >= 1, 2 * k <= a
  PROVE  2 * (k + 1) <= a + 1 + d
OBVIOUS

\* The walk goes forward, past the structures it takes.
LEMMA WalkForward ==
  ASSUME NEW data \in Seq(Nat), NEW j \in 0..Len(data), NEW k \in 0..Len(data), j <= k
  PROVE  Walk(data)[j].at <= Walk(data)[k].at
<1> DEFINE n == Len(data)
           at(x) == Walk(data)[x].at
           P == {m \in Nat : j + m <= n => at(j) <= at(j + m)}
<1>1. n \in Nat /\ \A x \in 0..n : at(x) \in Nat /\ Walk(data)[x] \in Places
  <2>1. \A x \in 0..n : Walk(data)[x] \in Places
    BY Walking
  <2>2. QED BY <2>1 DEF Places
<1>2. 0 \in P
  <2>1. at(j) <= at(j)
    BY <1>1
  <2>2. j + 0 = j
    OBVIOUS
  <2> HIDE DEF at
  <2>3. QED BY <2>1, <2>2
<1>3. ASSUME NEW m \in Nat, m \in P PROVE m + 1 \in P
  <2> SUFFICES ASSUME j + (m + 1) <= n PROVE at(j) <= at(j + (m + 1))
    OBVIOUS
  <2>1. PICK x \in Nat : x = j + m /\ x \in 0..n /\ x + 1 \in 1..n /\ x + 1 = j + (m + 1)
    BY <1>1
  <2>2. at(j) <= at(x)
    <3>1. j + m <= n
      BY <1>1, <2>1
    <3>2. at(j) <= at(j + m)
      BY <1>3, <3>1
    <3> HIDE DEF at
    <3>3. QED BY <2>1, <3>2
  <2>3. Walk(data)[x + 1] = Step(data, Walk(data)[x])
    <3>1. (x + 1) - 1 = x
      OBVIOUS
    <3>2. QED BY Walking, <2>1, <3>1
  <2>4. at(x) <= at(x + 1)
    <3>1. Walk(data)[x] \in Places /\ at(x) \in Nat
      BY <1>1, <2>1
    <3>2. CASE Fits(data, at(x))
      <4>1. data[at(x) + 1] \in Nat
        BY <3>1, <3>2, FitsInside
      <4>2. at(x + 1) = at(x) + 1 + data[at(x) + 1]
        <5>1. Fits(data, Walk(data)[x].at)
          BY <3>2
        <5>2. Step(data, Walk(data)[x]).at = Walk(data)[x].at + 1 + data[Walk(data)[x].at + 1]
          BY <3>1, <5>1, StepIs
        <5>3. QED BY <2>3, <5>2
      <4>3. PICK p \in Nat : p = at(x)
        BY <3>1
      <4>4. PICK l \in Nat : l = data[at(x) + 1]
        BY <4>1
      <4>5. at(x + 1) = p + 1 + l
        BY <4>2, <4>3, <4>4
      <4> HIDE DEF at
      <4>6. QED BY <4>3, <4>5
    <3>3. CASE ~ Fits(data, at(x))
      <4>1. at(x + 1) = at(x)
        BY <2>3, <3>1, <3>3, StepIs
      <4>2. QED BY <3>1, <4>1
    <3>4. QED BY <3>2, <3>3
  <2>5. at(j) \in Nat /\ at(x) \in Nat /\ at(x + 1) \in Nat
    <3>1. j \in 0..n /\ x \in 0..n /\ x + 1 \in 0..n
      BY <2>1
    <3>2. \A y \in 0..n : at(y) \in Nat
      BY <1>1
    <3> HIDE DEF at
    <3>3. QED BY <3>1, <3>2
  <2> HIDE DEF at
  <2>6. QED BY <2>1, <2>2, <2>4, <2>5
<1>4. Nat \subseteq P
  <2> HIDE DEF P
  <2>1. QED BY <1>2, <1>3, Induct
<1>5. PICK m \in Nat : k = j + m
  <2>1. k - j \in Nat /\ k = j + (k - j)
    OBVIOUS
  <2>2. QED BY <2>1
<1>6. m \in P
  BY <1>4
<1>7. QED
  <2> HIDE DEF at
  <2>1. at(j) <= at(k)
    BY <1>5, <1>6
  <2>2. QED BY <2>1 DEF at

LEMMA StructuresApart ==
  ASSUME NEW data \in Seq(Nat), NEW j \in 0..Len(data), NEW k \in 0..Len(data), j < k,
         Fits(data, Walk(data)[j].at)
  PROVE  Walk(data)[j].at + 1 + data[Walk(data)[j].at + 1] <= Walk(data)[k].at
<1>1. j + 1 \in 1..Len(data) /\ j + 1 \in 0..Len(data) /\ (j + 1) - 1 = j /\ j + 1 <= k
  OBVIOUS
<1>2. Walk(data)[j] \in Places /\ Walk(data)[j + 1] = Step(data, Walk(data)[j])
  BY <1>1, Walking
<1>3. Walk(data)[j + 1].at = Walk(data)[j].at + 1 + data[Walk(data)[j].at + 1]
  BY <1>2, StepIs
<1>4. Walk(data)[j + 1].at <= Walk(data)[k].at
  BY <1>1, WalkForward
<1>5. QED BY <1>3, <1>4

LEMMA WalkInside ==
  ASSUME NEW data \in Seq(Nat), NEW i \in Structures(data)
  PROVE  /\ i..(i + data[i + 1]) \subseteq 0..(Len(data) - 1)
         /\ \A j \in Structures(data) \ {i} :
              (i..(i + data[i + 1])) \cap (j..(j + data[j + 1])) = {}
<1> DEFINE at(x) == Walk(data)[x].at
<1>1. \A x \in 0..Len(data) : at(x) \in Nat
  BY Walking DEF Places
<1>2. ASSUME NEW o \in Structures(data)
      PROVE  \E x \in 0..Len(data) : o = at(x) /\ Fits(data, at(x)) /\ o \in Nat
  BY <1>1 DEF Structures
<1>3. PICK x \in 0..Len(data) : i = at(x) /\ Fits(data, at(x)) /\ i \in Nat
  BY <1>2
<1>4. i..(i + data[i + 1]) \subseteq 0..(Len(data) - 1)
  <2>1. data[i + 1] \in Nat /\ i + 1 + data[i + 1] <= Len(data)
    BY <1>3, FitsInside
  <2>2. PICK m \in Nat : m = data[i + 1]
    BY <2>1
  <2>3. Len(data) \in Nat
    OBVIOUS
  <2>4. i..(i + m) \subseteq 0..(Len(data) - 1)
    <3>1. i \in Nat /\ i + 1 + m <= Len(data)
      BY <1>3, <2>1, <2>2
    <3> HIDE DEF at
    <3>2. QED BY <2>3, <3>1, SpanBounds
  <2>5. QED BY <2>2, <2>4
<1>5. ASSUME NEW j \in Structures(data) \ {i}
      PROVE  (i..(i + data[i + 1])) \cap (j..(j + data[j + 1])) = {}
  <2>1. PICK y \in 0..Len(data) : j = at(y) /\ Fits(data, at(y)) /\ j \in Nat
    BY <1>2
  <2>2. PICK m \in Nat : m = data[i + 1]
    BY <1>3, FitsInside
  <2>3. PICK l \in Nat : l = data[j + 1]
    BY <2>1, FitsInside
  <2>4. x < y \/ y < x
    BY <1>3, <2>1
  <2>5. CASE x < y
    <3>1. i + 1 + m <= j
      BY <1>3, <2>1, <2>2, <2>5, StructuresApart
    <3> HIDE DEF at
    <3>2. (i..(i + m)) \cap (j..(j + l)) = {}
      BY <1>3, <2>1, <3>1, SpansApart
    <3>3. QED BY <2>2, <2>3, <3>2
  <2>6. CASE y < x
    <3>1. j + 1 + l <= i
      BY <1>3, <2>1, <2>3, <2>6, StructuresApart
    <3> HIDE DEF at
    <3>2. (i..(i + m)) \cap (j..(j + l)) = {}
      BY <1>3, <2>1, <3>1, SpansApart
    <3>3. QED BY <2>2, <2>3, <3>2
  <2>7. QED BY <2>4, <2>5, <2>6
<1>6. QED BY <1>4, <1>5

\* A structure takes two bytes at least, so that the walk is over in time.
LEMMA WalkEnds ==
  ASSUME NEW data \in Seq(Nat)
  PROVE  ~Fits(data, Walk(data)[Len(data)].at)
<1> DEFINE n == Len(data)
           at(x) == Walk(data)[x].at
           P == {k \in Nat : k <= n => (Fits(data, at(k)) => 2 * k <= at(k))}
<1>1. n \in Nat /\ \A x \in 0..n : at(x) \in Nat /\ Walk(data)[x] \in Places
  <2>1. \A x \in 0..n : Walk(data)[x] \in Places
    BY Walking
  <2>2. QED BY <2>1 DEF Places
<1>2. 0 \in P
  <2>1. 0 \in 0..n
    BY <1>1
  <2>2. at(0) \in Nat
    BY <1>1, <2>1
  <2> HIDE DEF at
  <2>3. QED BY <2>2
<1>3. ASSUME NEW k \in Nat, k \in P PROVE k + 1 \in P
  <2> SUFFICES ASSUME k + 1 <= n, Fits(data, at(k + 1)) PROVE 2 * (k + 1) <= at(k + 1)
    OBVIOUS
  <2>1. k \in 0..n /\ k + 1 \in 1..n /\ k + 1 \in 0..n /\ (k + 1) - 1 = k /\ k <= n
    BY <1>1
  <2>2. Walk(data)[k] \in Places /\ Walk(data)[k + 1] = Step(data, Walk(data)[k])
    BY <1>1, <2>1, Walking
  <2>3. Fits(data, at(k))
    <3>1. ASSUME ~Fits(data, at(k)) PROVE FALSE
      <4>1. Walk(data)[k + 1] = Walk(data)[k]
        BY <2>2, <3>1, StepIs
      <4>2. QED BY <3>1, <4>1
    <3>2. QED BY <3>1
  <2>4. at(k + 1) = at(k) + 1 + data[at(k) + 1]
    BY <2>2, <2>3, StepIs
  <2>5. at(k) \in Nat /\ data[at(k) + 1] \in Nat /\ data[at(k) + 1] >= 1
    BY <1>1, <2>1, <2>3, FitsInside
  <2>6. 2 * k <= at(k)
    BY <1>3, <2>1, <2>3
  <2>7. PICK d \in Nat : d = data[at(k) + 1] /\ d >= 1
    BY <2>5
  <2>8. PICK a \in Nat : a = at(k)
    BY <2>5
  <2>9. PICK b : b = at(k + 1)
    OBVIOUS
  <2>10. b = a + 1 + d /\ 2 * k <= a
    BY <2>4, <2>6, <2>7, <2>8, <2>9
  <2>11. 2 * (k + 1) <= b
    BY <2>7, <2>10, TwiceNext
  <2> HIDE DEF at
  <2>12. QED BY <2>9, <2>11
<1>4. n \in P
  <2> HIDE DEF P
  <2>1. Nat \subseteq P
    BY <1>2, <1>3, Induct
  <2>2. QED BY <1>1, <2>1
<1>5. ASSUME Fits(data, at(n)) PROVE FALSE
  <2>1. 2 * n <= at(n)
    BY <1>1, <1>4, <1>5
  <2>2. at(n) + 1 < n /\ at(n) \in Nat
    BY <1>1, <1>5 DEF Fits
  <2> HIDE DEF at
  <2>3. QED BY <1>1, <2>1, <2>2
<1>6. QED BY <1>5

\* What the first k steps of the walk listed.
ListedTo(data, k) ==
  UNION {ListedAt(data, Walk(data)[h].at) : h \in {j \in 0..(k - 1) : Fits(data, Walk(data)[j].at)}}

LEMMA ParsedSound ==
  ASSUME NEW data \in Seq(Nat)
  PROVE  ParseInfo(data) \in SoundInfos /\ Gathers(NoInfo, ParseInfo(data), Listed(data))
<1> DEFINE n == Len(data)
           at(x) == Walk(data)[x].at
           info1(x) == Walk(data)[x].info
           P == {k \in Nat : k <= n => Gathers(NoInfo, info1(k), ListedTo(data, k))}
<1>1. n \in Nat /\ \A x \in 0..n : /\ info1(x) \in SoundInfos /\ Walk(data)[x] \in Places
                                  /\ at(x) \in Nat
  <2>1. \A x \in 0..n : Walk(data)[x] \in Places
    BY Walking
  <2>2. QED BY <2>1 DEF Places
<1>2. 0 \in P
  <2>1. ListedTo(data, 0) = {}
    <3>1. 0..(0 - 1) = {}
      OBVIOUS
    <3>2. QED BY <3>1, Zenon DEF ListedTo
  <2>2. info1(0) = NoInfo
    BY Walking
  <2>3. QED BY <2>1, <2>2, NothingIsSound, GathersNothing
<1>3. ASSUME NEW k \in Nat, k \in P PROVE k + 1 \in P
  <2> SUFFICES ASSUME k + 1 <= n
               PROVE  Gathers(NoInfo, info1(k + 1), ListedTo(data, k + 1))
    OBVIOUS
  <2>1. k \in 0..n /\ k + 1 \in 1..n /\ k + 1 \in 0..n /\ (k + 1) - 1 = k /\ k <= n
    BY <1>1
  <2>2. Walk(data)[k + 1] = Step(data, Walk(data)[k]) /\ Walk(data)[k] \in Places
    BY <1>1, <2>1, Walking
  <2>3. Gathers(NoInfo, info1(k), ListedTo(data, k))
    BY <1>3, <2>1
  <2> DEFINE X == IF Fits(data, at(k)) THEN ListedAt(data, at(k)) ELSE {}
  <2>4. ListedTo(data, k + 1) = ListedTo(data, k) \cup X
    <3>1. \A h : h \in 0..((k + 1) - 1) <=> h \in 0..(k - 1) \/ h = k
      BY <2>1
    <3>2. QED BY <3>1, Zenon DEF ListedTo
  <2>5. Gathers(info1(k), info1(k + 1), X)
    <3>1. CASE Fits(data, at(k))
      BY <2>2, <3>1, StepIs
    <3>2. CASE ~Fits(data, at(k))
      <4>1. info1(k + 1) = info1(k)
        BY <2>2, <3>2, StepIs
      <4>2. QED BY <1>1, <2>1, <3>2, <4>1, GathersNothing
    <3>3. QED BY <3>1, <3>2
  <2>6. info1(k) \in SoundInfos /\ info1(k + 1) \in SoundInfos
    BY <1>1, <2>1
  <2> HIDE DEF X, info1, at
  <2>7. QED BY <2>3, <2>4, <2>5, <2>6, NothingIsSound, GathersOn
<1>4. n \in P
  <2> HIDE DEF P
  <2>1. Nat \subseteq P
    BY <1>2, <1>3, Induct
  <2>2. QED BY <1>1, <2>1
<1>5. Gathers(NoInfo, info1(n), ListedTo(data, n)) /\ info1(n) \in SoundInfos
  BY <1>1, <1>4
<1>6. ListedTo(data, n) = Listed(data)
  <2>1. ~Fits(data, at(n))
    BY WalkEnds
  <2>2. Structures(data) = {at(h) : h \in {j \in 0..(n - 1) : Fits(data, at(j))}}
    <3>1. \A h : h \in 0..n <=> h \in 0..(n - 1) \/ h = n
      BY <1>1
    <3>2. Structures(data) = {o \in {at(h) : h \in 0..n} : Fits(data, o)}
      BY DEF Structures
    <3> HIDE DEF at, n
    <3>3. QED BY <2>1, <3>1, <3>2
  <2>3. Listed(data) = UNION {ListedAt(data, o) : o \in Structures(data)}
    BY DEF Listed, ListedAt
  <2>4. ListedTo(data, n) =
          UNION {ListedAt(data, at(h)) : h \in {j \in 0..(n - 1) : Fits(data, at(j))}}
    BY DEF ListedTo
  <2> HIDE DEF at, n
  <2>5. QED BY <2>2, <2>3, <2>4
<1>7. QED BY <1>5, <1>6 DEF ParseInfo

-----------------------------------------------------------------------------
(* Advertisements of one device *)

LEMMA ListIsFinite ==
  ASSUME NEW s \in Seq(Seq(Nat))
  PROVE  IsFiniteSet(ToSet(s)) /\ (Distinct(s) => Cardinality(ToSet(s)) = Len(s))
<1>1. Len(s) \in Nat /\ IsFiniteSet(1..Len(s)) /\ Cardinality(1..Len(s)) = Len(s)
  <2>1. Len(s) \in Nat
    OBVIOUS
  <2>2. IsFiniteSet(1..Len(s)) /\ Cardinality(1..Len(s)) = IF 1 > Len(s) THEN 0 ELSE Len(s) - 1 + 1
    BY <2>1, FS_Interval
  <2>3. QED BY <2>1, <2>2
<1> DEFINE T == {s[k] : k \in 1..Len(s)}
           f == [k \in 1..Len(s) |-> s[k]]
<1>2. ToSet(s) = T
  BY SetOfList
<1>3. f \in Surjection(1..Len(s), T)
  BY DEF Surjection
<1>4. IsFiniteSet(T)
  <2> HIDE DEF T, f
  <2>1. QED BY <1>1, <1>3, FS_Surjection
<1>5. ASSUME Distinct(s) PROVE Cardinality(T) = Len(s)
  <2>1. f \in Bijection(1..Len(s), T)
    BY <1>3, <1>5 DEF Distinct, Bijection, Injection, IsInjective, Surjection
  <2>2. ExistsBijection(1..Len(s), T)
    <3> HIDE DEF T, f
    <3>1. QED BY <2>1 DEF ExistsBijection
  <2> HIDE DEF T
  <2>3. QED BY <1>1, <2>2, FS_CountingElements
<1>6. QED BY <1>2, <1>4, <1>5

\* To hear of X through a list that holds X, or is full of it, is to hear of X.
LEMMA GrowsThrough ==
  ASSUME NEW l \in Seq(Seq(Nat)), NEW s \in Seq(Seq(Nat)), NEW r \in Seq(Seq(Nat)),
         NEW X, NEW cap \in Nat, Distinct(s), Distinct(r),
         Grows(<<>>, s, X, cap), Grows(l, r, ToSet(s), cap)
  PROVE  Grows(l, r, X, cap)
<1>1. ToSet(<<>>) = {} /\ Len(s) \in Nat /\ Len(r) \in Nat
  BY DEF ToSet
<1>2. ToSet(s) \subseteq X /\ (Len(s) < cap => X \subseteq ToSet(s))
  BY <1>1 DEF Grows
<1>3. ASSUME Len(r) < cap PROVE Len(s) < cap
  <2>1. ToSet(s) \subseteq ToSet(r)
    BY <1>3 DEF Grows
  <2>2. /\ IsFiniteSet(ToSet(r)) /\ Cardinality(ToSet(r)) = Len(r)
        /\ Cardinality(ToSet(s)) = Len(s)
    BY ListIsFinite
  <2>3. Cardinality(ToSet(s)) <= Cardinality(ToSet(r))
    BY <2>1, <2>2, FS_Subset
  <2>4. QED BY <1>1, <1>3, <2>2, <2>3
<1>4. QED BY <1>2, <1>3 DEF Grows

LEMMA MergeIs ==
  ASSUME NEW dst \in SoundInfos, NEW src \in SoundInfos
  PROVE  /\ Merged(dst, src) \in SoundInfos
         /\ \A f \in Families :
              Grows(dst.uuids[f], Merged(dst, src).uuids[f], ToSet(src.uuids[f]), Capacity[f])
<1> DEFINE s16 == src.uuids["uuid16"]
           s32 == src.uuids["uuid32"]
           s128 == src.uuids["uuid128"]
           a == AddUuids(dst, s16)
           b == AddUuids(a, s32)
           c == AddUuids(b, s128)
           t == IF src.total > c.total THEN src.total ELSE c.total
           m == c.marks \cup src.marks
           f0 == IF c.flags = <<>> THEN src.flags ELSE c.flags
           U == (ToSet(s16) \cup ToSet(s32)) \cup ToSet(s128)
<1>1. /\ s16 \in Seq(Seq(Nat)) /\ s32 \in Seq(Seq(Nat)) /\ s128 \in Seq(Seq(Nat))
      /\ src.total \in Nat /\ src.marks \in SUBSET DOMAIN MarkTypes /\ src.flags \in Seq(Nat)
  BY ListTypes, FamilyFacts
<1>2. a \in SoundInfos /\ Gathers(dst, a, ToSet(s16))
  BY <1>1, AddAll
<1> HIDE DEF a
<1>3. b \in SoundInfos /\ Gathers(a, b, ToSet(s32))
  BY <1>1, <1>2, AddAll
<1> HIDE DEF b
<1>4. c \in SoundInfos /\ Gathers(b, c, ToSet(s128))
  BY <1>1, <1>3, AddAll
<1>5. Merged(dst, src) = [c EXCEPT !.total = t, !.marks = m, !.flags = f0]
  BY DEF Merged, a, b
<1> HIDE DEF c, s16, s32, s128
<1>6. Gathers(dst, b, ToSet(s16) \cup ToSet(s32))
  BY <1>2, <1>3, GathersOn
<1>7. Gathers(dst, c, U)
  BY <1>3, <1>4, <1>6, GathersOn
<1>8. t \in Nat /\ m \in SUBSET DOMAIN MarkTypes /\ f0 \in Seq(Nat)
  BY <1>1, <1>4, ListTypes
<1> HIDE DEF t, m, f0
<1>9. Merged(dst, src) \in SoundInfos /\ Merged(dst, src).uuids = c.uuids
  BY <1>4, <1>5, <1>8 DEF SoundInfos, InfoType
<1>10. ASSUME NEW f \in Families PROVE NamesOf(U, f) = ToSet(src.uuids[f])
  <2>1. ASSUME NEW g \in Families, NEW u \in ToSet(src.uuids[g])
        PROVE  ListOf(u) = g /\ Named(u) = u
    <3>1. src.uuids[g] \in Seq(Seq(Nat)) /\ SoundList(src.uuids[g], g)
      BY ListTypes
    <3>2. QED BY <2>1, <3>1, SetOfList DEF SoundList
  <2>2. U = UNION {ToSet(src.uuids[g]) : g \in Families}
    BY FamilyFacts DEF s16, s32, s128
  <2> HIDE DEF U
  <2>3. {v \in U : ListOf(v) = f} = ToSet(src.uuids[f])
    BY <2>1, <2>2
  <2>4. QED BY <2>1, <2>3 DEF NamesOf
<1> HIDE DEF U
<1>11. QED BY <1>7, <1>9, <1>10 DEF Gathers

InfoInv ==
  /\ bleSample \in BleSamples
  /\ merged \in Seq(Advertised)
  /\ info \in SoundInfos
  /\ \A f \in Families : Grows(<<>>, info.uuids[f], Heard(f), Capacity[f])

LEMMA InfoStarts == bleSample \in BleSamples /\ InfoInit => InfoInv
<1> SUFFICES ASSUME bleSample \in BleSamples, InfoInit PROVE InfoInv
  OBVIOUS
<1>1. merged = <<>> /\ info = NoInfo
  BY DEF InfoInit
<1>2. \A f : Heard(f) = {}
  BY <1>1 DEF Heard
<1>3. ASSUME NEW f \in Families PROVE Grows(<<>>, NoInfo.uuids[f], {}, Capacity[f])
  <2>1. NoInfo.uuids[f] = <<>> /\ Len(<<>>) = 0
    BY DEF NoInfo
  <2>2. QED BY <2>1 DEF Grows
<1>4. \A f \in Families : Grows(<<>>, info.uuids[f], Heard(f), Capacity[f])
  BY <1>1, <1>2, <1>3
<1>5. merged \in Seq(Advertised) /\ info \in SoundInfos
  BY <1>1, NothingIsSound
<1>6. QED BY <1>4, <1>5 DEF InfoInv

\* One more advertisement is heard.
LEMMA HeardMore ==
  ASSUME NEW data \in Advertised, merged \in Seq(Advertised), merged' = Append(merged, data),
         NEW f
  PROVE  Heard(f)' = Heard(f) \cup NamesOf(Listed(data), f)
<1> DEFINE L == UNION {Listed(merged[k]) : k \in DOMAIN merged}
           M == UNION {Listed(merged'[k]) : k \in DOMAIN merged'}
<1>1. /\ DOMAIN merged' = DOMAIN merged \cup {Len(merged) + 1}
      /\ merged'[Len(merged) + 1] = data
      /\ \A k \in DOMAIN merged : merged'[k] = merged[k]
  <2>1. DOMAIN merged = 1..Len(merged) /\ Len(merged) \in Nat
    OBVIOUS
  <2>2. DOMAIN merged' = 1..(Len(merged) + 1)
    BY <2>1
  <2>3. \A k \in 1..Len(merged) : merged'[k] = merged[k]
    BY <2>1
  <2>4. merged'[Len(merged) + 1] = data
    BY <2>1
  <2>5. 1..(Len(merged) + 1) = 1..Len(merged) \cup {Len(merged) + 1}
    BY <2>1
  <2>6. QED BY <2>1, <2>2, <2>3, <2>4, <2>5
<1>2. ASSUME NEW x PROVE x \in M <=> x \in L \cup Listed(data)
  <2>1. x \in M <=> \E k \in DOMAIN merged' : x \in Listed(merged'[k])
    OBVIOUS
  <2>2. x \in L <=> \E k \in DOMAIN merged : x \in Listed(merged[k])
    OBVIOUS
  <2> HIDE DEF L, M
  <2>3. QED BY <1>1, <2>1, <2>2
<1>3. Heard(f) = NamesOf(L, f) /\ Heard(f)' = NamesOf(M, f)
  BY DEF Heard, NamesOf
<1> HIDE DEF L, M
<1>4. M = L \cup Listed(data)
  BY <1>2
<1>5. QED BY <1>3, <1>4 DEF NamesOf

LEMMA InfoStep ==
  ASSUME InfoInv, [InfoNext /\ UNCHANGED bleSample]_<<bleSample, infoVars>>
  PROVE  InfoInv'
<1>1. CASE UNCHANGED <<bleSample, infoVars>>
  BY <1>1 DEF infoVars, InfoInv, Heard
<1>2. ASSUME NEW data \in Advertised, MergeAdvertisement(data), UNCHANGED bleSample
      PROVE  InfoInv'
  <2> DEFINE src == ParseInfo(data)
  <2>1. /\ data \in Seq(Nat) /\ src \in SoundInfos /\ info \in SoundInfos
        /\ Gathers(NoInfo, src, Listed(data))
    BY BleCodecAssumption, ParsedSound DEF InfoInv
  <2>2. /\ info' = Merged(info, src) /\ merged' = Append(merged, data)
        /\ merged \in Seq(Advertised)
    BY <1>2 DEF MergeAdvertisement, InfoInv
  <2> HIDE DEF src
  <2>3. /\ info' \in SoundInfos
        /\ \A f \in Families :
             Grows(info.uuids[f], info'.uuids[f], ToSet(src.uuids[f]), Capacity[f])
    BY <2>1, <2>2, MergeIs
  <2>4. ASSUME NEW f \in Families
        PROVE  Grows(<<>>, info'.uuids[f], Heard(f)', Capacity[f])
    <3> DEFINE X == NamesOf(Listed(data), f)
    <3>1. /\ <<>> \in Seq(Seq(Nat)) /\ info.uuids[f] \in Seq(Seq(Nat))
          /\ info'.uuids[f] \in Seq(Seq(Nat)) /\ src.uuids[f] \in Seq(Seq(Nat))
          /\ Distinct(src.uuids[f]) /\ Distinct(info'.uuids[f]) /\ Capacity[f] \in Nat
      <4>1. info.uuids[f] \in Seq(Seq(Nat))
        BY <2>1, ListTypes
      <4>2. src.uuids[f] \in Seq(Seq(Nat)) /\ SoundList(src.uuids[f], f)
        BY <2>1, ListTypes
      <4>3. info'.uuids[f] \in Seq(Seq(Nat)) /\ SoundList(info'.uuids[f], f)
        BY <2>3, ListTypes
      <4>4. <<>> \in Seq(Seq(Nat)) /\ Capacity[f] \in Nat
        BY FamilyFacts
      <4>5. QED BY <4>1, <4>2, <4>3, <4>4 DEF SoundList
    <3>2. Grows(<<>>, src.uuids[f], X, Capacity[f])
      <4>1. NoInfo.uuids[f] = <<>>
        BY DEF NoInfo
      <4>2. QED BY <2>1, <4>1 DEF Gathers
    <3> HIDE DEF X
    <3>3. Grows(info.uuids[f], info'.uuids[f], X, Capacity[f])
      BY <2>3, <3>1, <3>2, GrowsThrough
    <3>4. Grows(<<>>, info.uuids[f], Heard(f), Capacity[f])
      BY DEF InfoInv
    <3>5. Grows(<<>>, info'.uuids[f], Heard(f) \cup X, Capacity[f])
      BY <3>1, <3>3, <3>4, GrowsOn
    <3>6. Heard(f)' = Heard(f) \cup X
      BY <2>2, HeardMore DEF X
    <3>7. QED BY <3>5, <3>6
  <2>5. merged' \in Seq(Advertised)
    BY <2>2
  <2>6. QED BY <1>2, <2>3, <2>4, <2>5 DEF InfoInv
<1>3. QED BY <1>1, <1>2 DEF InfoNext

\* A list that took of X what it had room for, each once, holds X or is full.
LEMMA ListIsUnion ==
  ASSUME InfoInv
  PROVE  ServicesAreUnion
<1> SUFFICES ASSUME NEW f \in Families
             PROVE  Holds(info.uuids[f], Heard(f), Capacity[f])
  BY DEF ServicesAreUnion
<1> DEFINE l == info.uuids[f]
<1>1. l \in Seq(Seq(Nat)) /\ SoundList(l, f)
  BY ListTypes DEF InfoInv
<1>2. Grows(<<>>, l, Heard(f), Capacity[f])
  BY DEF InfoInv
<1> HIDE DEF l
<1>3. IsInjective(l)
  <2>1. Distinct(l) /\ DOMAIN l = 1..Len(l)
    BY <1>1 DEF SoundList
  <2>2. QED BY <2>1, Zenon DEF Distinct, IsInjective
<1>4. ToSet(<<>>) = {}
  BY DEF ToSet
<1>5. QED BY <1>1, <1>2, <1>3, <1>4 DEF Holds, Grows, SoundList, l

\* AdvertisementsMerge: the walk over any advertising data takes structures that
\* end inside it and do not overlap, and each list of services known of a device
\* holds exactly those its advertisements listed, each once, or is full of them
\* (ble_adv_parse_info, ble_adv_info_merge).
THEOREM AdvertisementsAddUp == InfoSpec => []AdvertisementsMerge
<1>1. bleSample \in BleSamples /\ InfoInit => InfoInv
  BY InfoStarts
<1>2. InfoInv /\ [InfoNext /\ UNCHANGED bleSample]_<<bleSample, infoVars>> => InfoInv'
  BY InfoStep
<1>3. InfoInv => AdvertisementsMerge
  <2> SUFFICES ASSUME InfoInv PROVE AdvertisementsMerge
    OBVIOUS
  <2>1. WalkStaysInside
    <3> SUFFICES ASSUME bleSample.kind = "ad" PROVE WalkStaysInside
      BY DEF WalkStaysInside
    <3>1. bleSample.data \in Seq(Nat)
      BY BleCodecAssumption DEF InfoInv
    <3>2. QED BY <3>1, WalkInside DEF WalkStaysInside
  <2>2. QED BY <2>1, ListIsUnion DEF AdvertisementsMerge
<1>4. QED BY <1>1, <1>2, <1>3, PTL DEF InfoSpec

-----------------------------------------------------------------------------
(* The bits of a stream *)

Stream == Seq({0, 1})

FrameSet == [kind : {"adv", "data"}, at : Nat, pdu : Stream]

Decs == [state : {"search", "aa", "pdu"}, cand : Stream, aa : Stream, target : Nat,
         pending : Seq(FrameSet), lost : Nat]

LEMMA FramingBounds ==
  /\ PreambleBits \in Nat /\ PreambleBits >= 1 /\ AaBits \in Nat /\ AaBits >= 1
  /\ QueueCap \in Nat /\ QueueCap >= 1 /\ PayloadBits \in Nat /\ CrcBits \in Nat
  /\ AaEnd = PreambleBits + AaBits /\ AaEnd \in Nat /\ AaEnd >= PreambleBits + 1
  /\ LlHeaderBits = 2
BY BleFramingAssumption DEF AaEnd, LlHeaderBits

LEMMA PartIs ==
  ASSUME NEW X, NEW s \in Seq(X), NEW x \in Nat, NEW w \in Nat, x + w <= Len(s)
  PROVE  /\ SubSeq(s, x + 1, x + w) \in Seq(X)
         /\ Len(SubSeq(s, x + 1, x + w)) = w
         /\ \A j \in 1..w : SubSeq(s, x + 1, x + w)[j] = s[x + j]
<1>1. CASE w = 0
  <2>1. x + 1 > x + w
    BY <1>1
  <2>2. SubSeq(s, x + 1, x + w) = <<>>
    BY <2>1, SubSeqProperties
  <2>3. QED BY <1>1, <2>2
<1>2. CASE w # 0
  <2>1. x + 1 \in 1..Len(s) /\ x + w \in (x + 1)..Len(s)
    BY <1>2
  <2>2. QED BY <2>1, SubSeqProperties
<1>3. QED BY <1>1, <1>2

LEMMA SameParts ==
  ASSUME NEW X, NEW s \in Seq(X), NEW t \in Seq(X), NEW x \in Nat, NEW y \in Nat,
         NEW w \in Nat, x + w <= Len(s), y + w <= Len(t),
         \A j \in 1..w : s[x + j] = t[y + j]
  PROVE  SubSeq(s, x + 1, x + w) = SubSeq(t, y + 1, y + w)
<1> DEFINE a == SubSeq(s, x + 1, x + w)
           b == SubSeq(t, y + 1, y + w)
<1>1. /\ a \in Seq(X) /\ Len(a) = w /\ \A j \in 1..w : a[j] = s[x + j]
      /\ b \in Seq(X) /\ Len(b) = w /\ \A j \in 1..w : b[j] = t[y + j]
  BY PartIs
<1> HIDE DEF a, b
<1>2. \A j \in 1..w : a[j] = b[j]
  BY <1>1
<1>3. a = b
  BY <1>1, <1>2, SeqEqual
<1>4. QED BY <1>3 DEF a, b

LEMMA RestIs ==
  ASSUME NEW s \in Stream, NEW p \in 0..Len(s)
  PROVE  /\ Rest(s, p) \in Stream /\ Len(Rest(s, p)) = Len(s) - p
         /\ \A j \in 1..(Len(s) - p) : Rest(s, p)[j] = s[p + j]
<1>1. p \in Nat /\ Len(s) - p \in Nat /\ p + (Len(s) - p) = Len(s)
  BY DEF Stream
<1>2. PICK w \in Nat : w = Len(s) - p
  BY <1>1
<1>3. Rest(s, p) = SubSeq(s, p + 1, p + w)
  BY <1>1, <1>2 DEF Rest
<1>4. p + w <= Len(s) /\ s \in Seq({0, 1})
  BY <1>1, <1>2 DEF Stream
<1>5. /\ SubSeq(s, p + 1, p + w) \in Seq({0, 1}) /\ Len(SubSeq(s, p + 1, p + w)) = w
      /\ \A j \in 1..w : SubSeq(s, p + 1, p + w)[j] = s[p + j]
  BY <1>1, <1>4, PartIs
<1>6. QED BY <1>2, <1>3, <1>5 DEF Stream

\* The streams that begin with s.
Ext(s) == {e \in Stream : Len(s) <= Len(e) /\ \A j \in 1..Len(s) : e[j] = s[j]}

\* c is what there is so far of r.
Begins(c, r) ==
  c \in Stream /\ r \in Stream /\ Len(c) <= Len(r) /\ \A j \in 1..Len(c) : c[j] = r[j]

LEMMA RestBegins ==
  ASSUME NEW s \in Stream, NEW e \in Ext(s), NEW p \in 0..Len(s)
  PROVE  e \in Stream /\ p \in 0..Len(e) /\ Begins(Rest(s, p), Rest(e, p))
<1>1. e \in Stream /\ Len(s) <= Len(e) /\ Len(s) \in Nat /\ Len(e) \in Nat /\ p \in 0..Len(e)
  BY DEF Ext, Stream
<1>2. /\ Rest(s, p) \in Stream /\ Len(Rest(s, p)) = Len(s) - p
      /\ \A j \in 1..(Len(s) - p) : Rest(s, p)[j] = s[p + j]
      /\ Rest(e, p) \in Stream /\ Len(Rest(e, p)) = Len(e) - p
      /\ \A j \in 1..(Len(e) - p) : Rest(e, p)[j] = e[p + j]
  BY <1>1, RestIs
<1>3. \A j \in 1..(Len(s) - p) : Rest(s, p)[j] = Rest(e, p)[j]
  <2> SUFFICES ASSUME NEW j \in 1..(Len(s) - p) PROVE Rest(s, p)[j] = Rest(e, p)[j]
    OBVIOUS
  <2>1. j \in 1..(Len(e) - p) /\ p + j \in 1..Len(s)
    BY <1>1
  <2>2. e[p + j] = s[p + j]
    BY <2>1 DEF Ext
  <2>3. QED BY <1>2, <2>1, <2>2
<1>4. QED BY <1>1, <1>2, <1>3 DEF Begins

\* What is tested of a candidate's bits does not change when more arrive.
LEMMA PreambleAgrees ==
  ASSUME NEW c, NEW r, Begins(c, r), NEW i \in Nat, i + PreambleBits <= Len(c)
  PROVE  PreambleAt(c, i) = PreambleAt(r, i)
<1>1. SubSeq(c, i + 1, i + PreambleBits) = SubSeq(r, i + 1, i + PreambleBits)
  <2>1. \A j \in 1..PreambleBits : i + j \in 1..Len(c)
    BY FramingBounds DEF Begins, Stream
  <2>2. \A j \in 1..PreambleBits : c[i + j] = r[i + j]
    BY <2>1 DEF Begins
  <2>3. i + PreambleBits <= Len(r)
    BY FramingBounds DEF Begins, Stream
  <2>4. c \in Seq({0, 1}) /\ r \in Seq({0, 1}) /\ PreambleBits \in Nat
    BY FramingBounds DEF Begins, Stream
  <2>5. PICK w \in Nat : w = PreambleBits
    BY <2>4
  <2>6. i + w <= Len(c) /\ i + w <= Len(r)
    BY <2>3, <2>5
  <2>7. \A j \in 1..w : c[i + j] = r[i + j]
    BY <2>2, <2>5
  <2>8. SubSeq(c, i + 1, i + w) = SubSeq(r, i + 1, i + w)
    <3> DEFINE a == SubSeq(c, i + 1, i + w)
               b == SubSeq(r, i + 1, i + w)
    <3>1. /\ a \in Seq({0, 1}) /\ Len(a) = w /\ \A j \in 1..w : a[j] = c[i + j]
      BY <2>4, <2>6, PartIs
    <3>2. /\ b \in Seq({0, 1}) /\ Len(b) = w /\ \A j \in 1..w : b[j] = r[i + j]
      BY <2>4, <2>6, PartIs
    <3> HIDE DEF a, b
    <3>3. \A j \in 1..w : a[j] = b[j]
      BY <2>7, <3>1, <3>2
    <3>4. a = b
      BY <3>1, <3>2, <3>3, SeqEqual
    <3>5. QED BY <3>4 DEF a, b
  <2>9. QED BY <2>5, <2>8
<1>2. QED BY <1>1 DEF PreambleAt

LEMMA AaAgrees ==
  ASSUME NEW c, NEW r, Begins(c, r), AaEnd <= Len(c)
  PROVE  AaOf(c) = AaOf(r) /\ AaOf(c) \in Stream /\ Survives(c) = Survives(r)
<1>1. AaOf(c) = SubSeq(c, PreambleBits + 1, PreambleBits + AaBits)
      /\ AaOf(r) = SubSeq(r, PreambleBits + 1, PreambleBits + AaBits)
  BY FramingBounds DEF AaOf
<1>2. PreambleBits + AaBits <= Len(c) /\ PreambleBits + AaBits <= Len(r)
  BY FramingBounds DEF Begins, Stream
<1>3. \A j \in 1..AaBits : PreambleBits + j \in 1..Len(c)
  BY <1>2, FramingBounds DEF Begins, Stream
<1>4. \A j \in 1..AaBits : c[PreambleBits + j] = r[PreambleBits + j]
  BY <1>3 DEF Begins
<1>5. AaOf(c) = AaOf(r)
  BY <1>1, <1>2, <1>4, FramingBounds, SameParts DEF Begins, Stream
<1>6. AaOf(c) \in Stream
  BY <1>1, <1>2, FramingBounds, PartIs DEF Begins, Stream
<1>7. PreambleBits \in 1..Len(c) /\ PreambleBits + 1 \in 1..Len(c)
  BY <1>2, FramingBounds DEF Begins, Stream
<1>8. MatchesAa(c) = MatchesAa(r)
  BY <1>7 DEF Begins, MatchesAa
<1>9. QED BY <1>5, <1>6, <1>8 DEF Survives

LEMMA HeaderAgrees ==
  ASSUME NEW c, NEW r, Begins(c, r), AaEnd + LlHeaderBits <= Len(c)
  PROVE  /\ PlausibleHeader(c) = PlausibleHeader(r) /\ TargetBits(c) = TargetBits(r)
         /\ TargetBits(c) \in Nat /\ LlHeaderBits <= TargetBits(c)
         /\ AaEnd + TargetBits(c) < CandidateMax
<1>1. AaEnd <= Len(c)
  BY FramingBounds DEF Begins, Stream
<1>2. Dewhitened(c) = Dewhitened(r)
  <2>1. \A j \in 1..LlHeaderBits : AaEnd + j \in 1..Len(c)
    BY FramingBounds DEF Begins, Stream
  <2>2. \A j \in 1..LlHeaderBits : c[AaEnd + j] = r[AaEnd + j]
    BY <2>1 DEF Begins
  <2>3. QED BY <2>2 DEF Dewhitened
<1>3. Dewhitened(c)[2] \in {0, 1}
  <2>1. AaEnd + 2 \in 1..Len(c)
    BY FramingBounds DEF Begins, Stream
  <2>2. c[AaEnd + 2] \in {0, 1}
    BY <2>1 DEF Begins, Stream
  <2>3. Whitening[2] \in {0, 1}
    BY BleFramingAssumption
  <2>4. Dewhitened(c)[2] = (c[AaEnd + 2] + Whitening[2]) % 2
    BY FramingBounds DEF Dewhitened
  <2>5. \A x \in {0, 1}, y \in {0, 1} : (x + y) % 2 \in {0, 1}
    OBVIOUS
  <2>6. QED BY <2>2, <2>3, <2>4, <2>5
<1>4. PlausibleHeader(c) = PlausibleHeader(r)
  BY <1>1, <1>2, AaAgrees DEF PlausibleHeader
<1>5. TargetBits(c) = TargetBits(r)
  BY <1>2 DEF TargetBits
<1>6. TargetBits(c) = 2 + CrcBits \/ TargetBits(c) = 2 + PayloadBits + CrcBits
  <2>1. PayloadBits * 0 = 0 /\ PayloadBits * 1 = PayloadBits
    BY FramingBounds
  <2>2. QED BY <1>3, <2>1, FramingBounds DEF TargetBits
<1>7. CandidateMax = AaEnd + 2 + PayloadBits + CrcBits + 1
  BY FramingBounds DEF CandidateMax
<1>8. QED BY <1>4, <1>5, <1>6, <1>7, FramingBounds

LEMMA CandidateAgrees ==
  ASSUME NEW c, NEW r, Begins(c, r), AaEnd + LlHeaderBits <= Len(c),
         AaEnd + TargetBits(c) <= Len(c), NEW at \in Nat
  PROVE  /\ Candidate(c, at) = Candidate(r, at)
         /\ Candidate(c, at) \in FrameSet
         /\ Len(Candidate(c, at).pdu) = TargetBits(c)
<1> DEFINE t == TargetBits(c)
<1>1. t \in Nat /\ TargetBits(r) = t /\ AaEnd <= Len(c) /\ Len(c) \in Nat /\ Len(r) \in Nat
  BY HeaderAgrees, FramingBounds DEF Begins, Stream
<1>2. AaOf(c) = AaOf(r)
  BY <1>1, AaAgrees
<1>3. /\ SubSeq(c, AaEnd + 1, AaEnd + t) = SubSeq(r, AaEnd + 1, AaEnd + t)
      /\ SubSeq(c, AaEnd + 1, AaEnd + t) \in Stream
      /\ Len(SubSeq(c, AaEnd + 1, AaEnd + t)) = t
  <2> HIDE DEF t
  <2>1. AaEnd + t <= Len(c) /\ AaEnd + t <= Len(r)
    BY <1>1, FramingBounds DEF Begins, t
  <2>2. \A j \in 1..t : AaEnd + j \in 1..Len(c)
    BY <1>1, <2>1, FramingBounds
  <2>3. \A j \in 1..t : c[AaEnd + j] = r[AaEnd + j]
    BY <2>2 DEF Begins
  <2>4. QED BY <1>1, <2>1, <2>3, FramingBounds, SameParts, PartIs DEF Begins, Stream
<1>4. QED BY <1>1, <1>2, <1>3 DEF Candidate, FrameSet

-----------------------------------------------------------------------------
(* The reference: one offset after another *)

LEMMA ScanIs ==
  ASSUME NEW s \in Stream
  PROVE  /\ Scan(s)[0] = [at |-> 0, found |-> <<>>]
         /\ \A k \in 1..Len(s) : Scan(s)[k] = Looked(s, Scan(s)[k - 1])
<1> DEFINE n == Len(s)
           Is(g) == g = [k \in 0..n |-> IF k = 0 THEN [at |-> 0, found |-> <<>>]
                                        ELSE Looked(s, g[k - 1])]
           Upto(m, g) == g = [k \in 0..m |-> IF k = 0 THEN [at |-> 0, found |-> <<>>]
                                             ELSE Looked(s, g[k - 1])]
           P == {m \in Nat : \E g : Upto(m, g)}
<1>1. n \in Nat
  BY DEF Stream
<1>2. 0 \in P
  <2>1. Upto(0, [k \in 0..0 |-> [at |-> 0, found |-> <<>>]])
    OBVIOUS
  <2>2. QED BY <2>1
<1>3. ASSUME NEW m \in Nat, m \in P PROVE m + 1 \in P
  <2>1. PICK g : Upto(m, g)
    BY <1>3
  <2> DEFINE h == [k \in 0..(m + 1) |-> IF k = m + 1 THEN Looked(s, g[m]) ELSE g[k]]
             v == [k \in 0..(m + 1) |-> IF k = 0 THEN [at |-> 0, found |-> <<>>]
                                        ELSE Looked(s, h[k - 1])]
  <2>2. ASSUME NEW k \in 0..(m + 1) PROVE h[k] = v[k]
    <3>1. CASE k = m + 1
      <4>1. k - 1 = m /\ m \in 0..(m + 1) /\ m # m + 1 /\ k # 0
        BY <3>1
      <4>2. h[k] = Looked(s, g[m]) /\ h[m] = g[m]
        BY <3>1, <4>1
      <4>3. v[k] = Looked(s, h[m])
        <5> HIDE DEF h
        <5>1. QED BY <4>1
      <4>4. QED BY <4>2, <4>3
    <3>2. CASE k # m + 1 /\ k # 0
      <4>1. k \in 0..m /\ k - 1 \in 0..(m + 1) /\ k - 1 # m + 1
        BY <3>2
      <4>2. h[k] = g[k] /\ h[k - 1] = g[k - 1]
        BY <3>2, <4>1
      <4>3. g[k] = Looked(s, g[k - 1])
        BY <2>1, <3>2, <4>1
      <4>4. v[k] = Looked(s, h[k - 1])
        <5> HIDE DEF h
        <5>1. QED BY <3>2
      <4>5. QED BY <4>2, <4>3, <4>4
    <3>3. CASE k # m + 1 /\ k = 0
      <4>1. h[k] = g[k] /\ k \in 0..m
        BY <3>3
      <4>2. QED BY <2>1, <3>3, <4>1
    <3>4. QED BY <3>1, <3>2, <3>3
  <2>3. h = [k \in 0..(m + 1) |-> h[k]] /\ v = [k \in 0..(m + 1) |-> v[k]]
    OBVIOUS
  <2>4. Upto(m + 1, h)
    <3>1. h = v
      <4> HIDE DEF h, v
      <4>1. QED BY <2>2, <2>3
    <3>2. QED BY <3>1
  <2> HIDE DEF h, Upto
  <2>5. \E g1 : Upto(m + 1, g1)
    BY <2>4
  <2>6. QED BY <2>5
<1>4. Nat \subseteq P
  <2> HIDE DEF P
  <2>1. QED BY <1>2, <1>3, Induct
<1>5. PICK g : Upto(n, g)
  <2> HIDE DEF Upto
  <2>1. QED BY <1>1, <1>4
<1>6. Is(CHOOSE h : Is(h))
  <2>1. Is(g)
    BY <1>5
  <2>2. QED BY <2>1, Zenon
<1>7. Scan(s) = (CHOOSE h : Is(h))
  BY DEF Scan
<1>8. Is(Scan(s))
  <2> HIDE DEF Is
  <2>1. QED BY <1>6, <1>7
<1>9. QED BY <1>1, <1>8

\* Offset q of stream e is looked at, the frames F found before it.
On(e, q, F) == \E k \in 0..q : Scan(e)[k] = [at |-> q, found |-> F]

LEMMA OnStart ==
  ASSUME NEW e \in Stream
  PROVE  On(e, 0, <<>>)
<1>1. Scan(e)[0] = [at |-> 0, found |-> <<>>] /\ 0 \in 0..0
  BY ScanIs
<1>2. QED BY <1>1 DEF On

\* What is found at the next look.
LEMMA OnNext ==
  ASSUME NEW e \in Stream, NEW q \in Nat, q < Len(e), NEW F, On(e, q, F),
         NEW p \in Nat, q < p, NEW G,
         Looked(e, [at |-> q, found |-> F]) = [at |-> p, found |-> G]
  PROVE  On(e, p, G)
<1>1. PICK k \in 0..q : Scan(e)[k] = [at |-> q, found |-> F]
  BY DEF On
<1>2. k + 1 \in 1..Len(e) /\ k + 1 \in 0..p /\ (k + 1) - 1 = k
  BY DEF Stream
<1>3. Scan(e)[k + 1] = [at |-> p, found |-> G]
  BY <1>1, <1>2, ScanIs
<1>4. QED BY <1>2, <1>3 DEF On

LEMMA OnReject ==
  ASSUME NEW e \in Stream, NEW q \in Nat, q < Len(e), NEW F, On(e, q, F),
         Rejected(Rest(e, q))
  PROVE  On(e, q + 1, F)
<1> DEFINE w == [at |-> q, found |-> F]
<1>1. w.at = q /\ [w EXCEPT !.at = @ + 1] = [at |-> q + 1, found |-> F]
  OBVIOUS
<1>2. Looked(e, w) = [at |-> q + 1, found |-> F]
  <2> HIDE DEF w
  <2>1. QED BY <1>1 DEF Looked
<1>3. q + 1 \in Nat /\ q < q + 1
  OBVIOUS
<1>4. QED BY <1>2, <1>3, OnNext

LEMMA OnComplete ==
  ASSUME NEW e \in Stream, NEW q \in Nat, q < Len(e), NEW F, On(e, q, F),
         Complete(Rest(e, q)), NEW t \in Nat, t = LookPast(Rest(e, q)), 0 < t
  PROVE  On(e, q + t, Append(F, Candidate(Rest(e, q), q + 1)))
<1> DEFINE w == [at |-> q, found |-> F]
<1>1. w.at = q /\ w.found = F
  OBVIOUS
<1>2. ~ Rejected(Rest(e, q))
  BY DEF Complete
<1>3. Looked(e, w) = [at |-> q + t, found |-> Append(F, Candidate(Rest(e, q), q + 1))]
  <2> HIDE DEF w
  <2>1. QED BY <1>1, <1>2 DEF Looked
<1>4. q + t \in Nat /\ q < q + t
  OBVIOUS
<1>5. QED BY <1>3, <1>4, OnNext

\* Where a candidate is not whole yet, the scan ends.
LEMMA OnLast ==
  ASSUME NEW e \in Stream, NEW q \in 0..Len(e), NEW F, On(e, q, F),
         ~ Rejected(Rest(e, q)), ~ Complete(Rest(e, q))
  PROVE  Parse(e) = F
<1> DEFINE w == [at |-> q, found |-> F]
<1>1. PICK k \in 0..q : Scan(e)[k] = w
  BY DEF On
<1>2. k \in Nat /\ Len(e) \in Nat /\ k <= Len(e)
  BY DEF Stream
<1>3. Looked(e, w) = w
  BY DEF Looked
<1>4. w.found = F
  OBVIOUS
<1> DEFINE P == {m \in Nat : k + m <= Len(e) => Scan(e)[k + m] = w}
<1> HIDE DEF w
<1>5. 0 \in P
  BY <1>1, <1>2
<1>6. ASSUME NEW m \in Nat, m \in P PROVE m + 1 \in P
  <2> SUFFICES ASSUME k + (m + 1) <= Len(e) PROVE Scan(e)[k + (m + 1)] = w
    OBVIOUS
  <2>1. k + (m + 1) \in 1..Len(e) /\ (k + (m + 1)) - 1 = k + m /\ k + m <= Len(e)
    BY <1>2
  <2>2. QED BY <1>3, <1>6, <2>1, ScanIs
<1>7. Nat \subseteq P
  <2> HIDE DEF P
  <2>1. QED BY <1>5, <1>6, Induct
<1>8. Len(e) - k \in P /\ k + (Len(e) - k) = Len(e)
  <2>1. Len(e) - k \in Nat /\ k + (Len(e) - k) = Len(e)
    BY <1>2
  <2> HIDE DEF P
  <2>2. QED BY <1>7, <2>1
<1>9. Scan(e)[Len(e)] = w
  BY <1>2, <1>8
<1>10. QED BY <1>4, <1>9 DEF Parse

\* Offsets where no preamble begins are passed over.
LEMMA OnSkip ==
  ASSUME NEW e \in Stream, NEW q \in Nat, NEW F, On(e, q, F), NEW k \in Nat,
         q + k + PreambleBits <= Len(e) + 1,
         \A i \in 0..(k - 1) : ~ PreambleAt(Rest(e, q + i), 0)
  PROVE  On(e, q + k, F)
<1>0. Len(e) \in Nat
  BY DEF Stream
<1> DEFINE P == {m \in Nat : m <= k => On(e, q + m, F)}
<1>1. 0 \in P
  OBVIOUS
<1>2. ASSUME NEW m \in Nat, m \in P PROVE m + 1 \in P
  <2> SUFFICES ASSUME m + 1 <= k PROVE On(e, q + (m + 1), F)
    OBVIOUS
  <2>1. m \in 0..(k - 1) /\ q + m \in 0..Len(e) /\ q + m < Len(e) /\ q + m \in Nat
    BY <1>0, FramingBounds
  <2>2. On(e, q + m, F)
    BY <1>2, <2>1
  <2>3. Len(Rest(e, q + m)) = Len(e) - (q + m)
    BY <2>1, RestIs
  <2>4. Len(Rest(e, q + m)) >= PreambleBits
    BY <1>0, <2>1, <2>3, FramingBounds
  <2>5. Rejected(Rest(e, q + m))
    BY <2>1, <2>4 DEF Rejected
  <2>6. On(e, (q + m) + 1, F)
    BY <2>1, <2>2, <2>5, OnReject
  <2>7. (q + m) + 1 = q + (m + 1)
    OBVIOUS
  <2>8. QED BY <2>6, <2>7
<1>3. Nat \subseteq P
  <2> HIDE DEF P
  <2>1. QED BY <1>1, <1>2, Induct
<1>4. k \in P
  BY <1>3
<1>5. QED BY <1>4

-----------------------------------------------------------------------------
(* The decoder on a stream: its buffer is the rest of it from some offset on *)

LEMMA RestOfRest ==
  ASSUME NEW s \in Stream, NEW q \in 0..Len(s), NEW k \in 0..(Len(s) - q)
  PROVE  SubSeq(Rest(s, q), k + 1, Len(Rest(s, q))) = Rest(s, q + k)
<1>1. /\ Len(s) \in Nat /\ Rest(s, q) \in Stream /\ Len(Rest(s, q)) = Len(s) - q
      /\ \A j \in 1..(Len(s) - q) : Rest(s, q)[j] = s[q + j]
  <2>1. Len(s) \in Nat
    BY DEF Stream
  <2>2. QED BY <2>1, RestIs
<1>2. PICK w \in Nat : w = Len(s) - q - k
  <2>1. Len(s) - q - k \in Nat
    BY <1>1
  <2>2. QED BY <2>1
<1>3. /\ Len(Rest(s, q)) = k + w /\ Len(s) = (q + k) + w /\ q + k \in Nat /\ k \in Nat
  BY <1>1, <1>2
<1>4. \A j \in 1..w : Rest(s, q)[k + j] = s[(q + k) + j]
  <2> SUFFICES ASSUME NEW j \in 1..w PROVE Rest(s, q)[k + j] = s[(q + k) + j]
    OBVIOUS
  <2>1. k + j \in 1..(Len(s) - q) /\ q + (k + j) = (q + k) + j
    BY <1>1, <1>2
  <2>2. QED BY <1>1, <2>1
<1>5. SubSeq(Rest(s, q), k + 1, k + w) = SubSeq(s, (q + k) + 1, (q + k) + w)
  <2>1. k + w <= Len(Rest(s, q)) /\ (q + k) + w <= Len(s)
    BY <1>1, <1>2
  <2>2. QED BY <1>1, <1>3, <1>4, <2>1, SameParts DEF Stream
<1>6. QED BY <1>3, <1>5 DEF Rest

LEMMA PreambleIs ==
  ASSUME NEW e \in Stream, NEW q \in 0..Len(e), NEW i \in Nat,
         q + i + PreambleBits <= Len(e)
  PROVE  PreambleAt(Rest(e, q), i) = PreambleAt(Rest(e, q + i), 0)
<1>1. Len(e) \in Nat /\ q \in Nat /\ q + i \in 0..Len(e)
  BY FramingBounds DEF Stream
<1>2. /\ Rest(e, q) \in Stream /\ Len(Rest(e, q)) = Len(e) - q
      /\ \A j \in 1..(Len(e) - q) : Rest(e, q)[j] = e[q + j]
      /\ Rest(e, q + i) \in Stream /\ Len(Rest(e, q + i)) = Len(e) - (q + i)
      /\ \A j \in 1..(Len(e) - (q + i)) : Rest(e, q + i)[j] = e[(q + i) + j]
  BY <1>1, RestIs
<1>3. \A j \in 1..PreambleBits : Rest(e, q)[i + j] = Rest(e, q + i)[0 + j]
  <2> SUFFICES ASSUME NEW j \in 1..PreambleBits
               PROVE Rest(e, q)[i + j] = Rest(e, q + i)[0 + j]
    OBVIOUS
  <2>1. /\ i + j \in 1..(Len(e) - q) /\ 0 + j = j /\ j \in 1..(Len(e) - (q + i))
        /\ q + (i + j) = (q + i) + j
    BY <1>1, FramingBounds
  <2>2. QED BY <1>2, <2>1
<1>4. i + PreambleBits <= Len(Rest(e, q)) /\ 0 + PreambleBits <= Len(Rest(e, q + i))
  BY <1>1, <1>2, FramingBounds
<1>5. SubSeq(Rest(e, q), i + 1, i + PreambleBits) =
        SubSeq(Rest(e, q + i), 0 + 1, 0 + PreambleBits)
  BY <1>2, <1>3, <1>4, FramingBounds, SameParts DEF Stream
<1>6. QED BY <1>5 DEF PreambleAt

LEMMA Passes ==
  ASSUME NEW s \in Stream, NEW e \in Ext(s), NEW q \in 0..Len(s), NEW F, On(e, q, F),
         NEW k \in Nat, q + k + PreambleBits <= Len(s) + 1,
         \A i \in 0..(k - 1) : ~ PreambleAt(Rest(s, q), i)
  PROVE  On(e, q + k, F)
<1>1. e \in Stream /\ q \in 0..Len(e) /\ Begins(Rest(s, q), Rest(e, q))
  BY RestBegins
<1>2. Len(s) \in Nat /\ Len(e) \in Nat /\ Len(s) <= Len(e) /\ Len(Rest(s, q)) = Len(s) - q
  BY RestIs DEF Ext, Stream
<1>3. \A i \in 0..(k - 1) : ~ PreambleAt(Rest(e, q + i), 0)
  <2> SUFFICES ASSUME NEW i \in 0..(k - 1) PROVE ~ PreambleAt(Rest(e, q + i), 0)
    OBVIOUS
  <2>1. i \in Nat /\ i + PreambleBits <= Len(Rest(s, q)) /\ q + i + PreambleBits <= Len(e)
    BY <1>2, FramingBounds
  <2>2. PreambleAt(Rest(s, q), i) = PreambleAt(Rest(e, q), i)
    BY <1>1, <2>1, PreambleAgrees
  <2>3. PreambleAt(Rest(e, q), i) = PreambleAt(Rest(e, q + i), 0)
    BY <1>1, <2>1, PreambleIs
  <2>4. QED BY <2>2, <2>3
<1>4. q + k + PreambleBits <= Len(e) + 1 /\ q \in Nat
  BY <1>2, FramingBounds
<1>5. QED BY <1>1, <1>3, <1>4, OnSkip

LEMMA NextIs ==
  ASSUME NEW c \in Stream, NEW from \in Nat
  PROVE  \/ /\ NextPreamble(c, from) = -1
            /\ \A i \in from..(Len(c) - PreambleBits) : ~ PreambleAt(c, i)
         \/ /\ NextPreamble(c, from) \in from..(Len(c) - PreambleBits)
            /\ PreambleAt(c, NextPreamble(c, from))
            /\ \A i \in from..(NextPreamble(c, from) - 1) : ~ PreambleAt(c, i)
<1> DEFINE Found == {i \in from..(Len(c) - PreambleBits) : PreambleAt(c, i)}
<1>1. NextPreamble(c, from) =
        IF Found = {} THEN -1 ELSE CHOOSE i \in Found : \A j \in Found : i <= j
  BY DEF NextPreamble
<1>2. Len(c) \in Nat /\ Found \in SUBSET Nat
  BY FramingBounds DEF Stream
<1>3. CASE Found = {}
  <2>1. NextPreamble(c, from) = -1
    BY <1>1, <1>3
  <2>2. QED BY <1>3, <2>1
<1>4. CASE Found # {}
  <2>1. \E i \in Found : \A j \in Found : i <= j
    <3> HIDE DEF Found
    <3>1. QED BY <1>2, <1>4, LeastNat
  <2>2. PICK k : k = NextPreamble(c, from)
    OBVIOUS
  <2>3. k \in Found /\ \A j \in Found : k <= j
    <3> HIDE DEF Found
    <3>1. QED BY <1>1, <1>4, <2>1, <2>2
  <2>4. k \in from..(Len(c) - PreambleBits) /\ PreambleAt(c, k)
    BY <2>3
  <2>5. \A i \in from..(k - 1) : ~ PreambleAt(c, i)
    <3> SUFFICES ASSUME NEW i \in from..(k - 1), PreambleAt(c, i) PROVE FALSE
      OBVIOUS
    <3>1. i \in from..(Len(c) - PreambleBits) /\ ~ (k <= i)
      BY <1>2, <2>4, FramingBounds
    <3>2. QED BY <2>3, <3>1
  <2>6. QED BY <2>2, <2>4, <2>5
<1>5. QED BY <1>3, <1>4

\* The buffer of d is the end of stream s.
Placed(d, s) ==
  d \in Decs /\ Len(d.cand) <= Len(s) /\ d.cand = Rest(s, Len(s) - Len(d.cand))

\* What d found out of its buffer.
Staged(d) ==
  /\ d.state = "search" => d.target = 0 /\ Len(d.cand) <= PreambleBits
  /\ d.state # "search" => PreambleBits <= Len(d.cand) /\ PreambleAt(d.cand, 0)
  /\ d.state = "aa" => d.target = 0
  /\ d.state = "pdu" =>
       /\ AaEnd <= Len(d.cand) /\ Survives(d.cand) /\ d.aa = AaOf(d.cand)
       /\ d.target # 0 =>
            /\ AaEnd + LlHeaderBits <= Len(d.cand) /\ PlausibleHeader(d.cand)
            /\ d.target = TargetBits(d.cand)

\* However s goes on, the scan comes to where the buffer begins, with the frames
\* T taken and those queued.
FollowsFrom(d, s, T, from) ==
  d.lost = 0 => \A e \in Ext(s) : On(e, Len(s) - Len(d.cand) + from, T \o d.pending)

Cut(d, s, T) == Placed(d, s) /\ Staged(d) /\ FollowsFrom(d, s, T, 0)

LEMMA Refilled ==
  ASSUME NEW d \in Decs, NEW x \in Stream, NEW u \in {"search", "aa", "pdu"}
  PROVE  [d EXCEPT !.state = u, !.target = 0, !.cand = x] \in Decs
BY DEF Decs

LEMMA RestartedIs ==
  ASSUME NEW s \in Stream, NEW d, Placed(d, s), NEW r, r = Restarted(d)
  PROVE  /\ Placed(r, s) /\ r.state = "search" /\ r.target = 0
         /\ r.pending = d.pending /\ r.lost = d.lost
         /\ Len(r.cand) = IF Len(d.cand) > PreambleBits - 1 THEN PreambleBits - 1
                          ELSE Len(d.cand)
<1> DEFINE m == PreambleBits - 1
           c == d.cand
           q == Len(s) - Len(c)
<1>1. /\ m \in Nat /\ Len(s) \in Nat /\ c \in Stream /\ Len(c) \in Nat /\ q \in 0..Len(s)
      /\ c = Rest(s, q) /\ Len(c) = Len(s) - q
  BY FramingBounds DEF Placed, Decs, Stream
<1>2. CASE Len(c) > m
  <2>1. Newest(c, m) = SubSeq(c, (Len(c) - m) + 1, Len(c))
    BY <1>2 DEF Newest
  <2>2. Len(c) - m \in 0..(Len(s) - q) /\ q + (Len(c) - m) = Len(s) - m
    BY <1>1, <1>2
  <2>3. Newest(c, m) = Rest(s, Len(s) - m)
    <3> HIDE DEF q, m
    <3>1. QED BY <1>1, <2>1, <2>2, RestOfRest
  <2>4. Len(s) - m \in 0..Len(s) /\ Len(s) - (Len(s) - m) = m
    BY <1>1, <1>2
  <2>5. Newest(c, m) \in Stream /\ Len(Newest(c, m)) = m
    BY <2>3, <2>4, RestIs
  <2>6. /\ r \in Decs /\ r.state = "search" /\ r.target = 0 /\ r.cand = Newest(c, m)
        /\ r.pending = d.pending /\ r.lost = d.lost
    <3>1. PICK x \in Stream : x = Newest(c, m)
      BY <2>5
    <3>2. r = [d EXCEPT !.state = "search", !.target = 0, !.cand = x]
      BY <3>1, <2>5 DEF Restarted
    <3>3. d \in Decs
      BY DEF Placed
    <3>4. /\ r \in Decs /\ r.state = "search" /\ r.target = 0 /\ r.cand = x
          /\ r.pending = d.pending /\ r.lost = d.lost
      <4>0. [d EXCEPT !.state = "search", !.target = 0, !.cand = x] \in Decs
        <5>1. x \in Stream /\ "search" \in {"search", "aa", "pdu"}
          BY <3>1
        <5>2. QED BY <3>3, <5>1, Refilled, Zenon
      <4>1. r \in Decs
        BY <3>2, <4>0
      <4>2. QED BY <3>1, <3>2, <3>3, <4>1 DEF Decs
    <3>5. QED BY <3>1, <3>4
  <2>7. QED BY <1>1, <1>2, <2>3, <2>4, <2>5, <2>6 DEF Placed
<1>3. CASE ~ (Len(c) > m)
  <2>1. Newest(c, m) = c
    BY <1>3 DEF Newest
  <2>2. /\ r \in Decs /\ r.state = "search" /\ r.target = 0 /\ r.cand = c
        /\ r.pending = d.pending /\ r.lost = d.lost
    BY <2>1 DEF Placed, Decs, Restarted
  <2>3. QED BY <1>1, <1>3, <2>2 DEF Placed
<1>4. QED BY <1>2, <1>3

LEMMA Shorter ==
  ASSUME NEW l \in Nat, NEW k \in Nat, NEW from \in Nat, k + from <= l,
         NEW w, w = l - k - from, w # 0
  PROVE  l # k
OBVIOUS

LEMMA RankSpan ==
  ASSUME NEW x \in Nat, NEW k \in 0..3
  PROVE  4 * x + k \in Nat /\ 4 * x + k < 4 * x + 4
OBVIOUS

\* The search resumed at an offset of the buffer misses no preamble.
LEMMA Resumes ==
  ASSUME NEW s \in Stream, NEW d, Placed(d, s), NEW T, NEW from \in Nat,
         from = 0 \/ from + PreambleBits <= Len(d.cand) + 1,
         FollowsFrom(d, s, T, from), NEW r, r = ResumedAt(d, from)
  PROVE  /\ Cut(r, s, T) /\ r.pending = d.pending /\ r.lost = d.lost
         /\ Len(r.cand) + from <= Len(d.cand) /\ r.state \in {"search", "aa"}
<1> DEFINE c == d.cand
           q == Len(s) - Len(c)
           k == NextPreamble(c, from)
<1>1. /\ Len(s) \in Nat /\ c \in Stream /\ Len(c) \in Nat /\ q \in 0..Len(s)
      /\ c = Rest(s, q) /\ Len(c) = Len(s) - q
  BY DEF Placed, Decs, Stream
<1>2. CASE k = -1 /\ \A i \in from..(Len(c) - PreambleBits) : ~ PreambleAt(c, i)
  <2>1. r = Restarted(d)
    BY <1>2 DEF ResumedAt
  <2>2. /\ Placed(r, s) /\ r.state = "search" /\ r.target = 0
        /\ r.pending = d.pending /\ r.lost = d.lost
        /\ Len(r.cand) = IF Len(c) > PreambleBits - 1 THEN PreambleBits - 1 ELSE Len(c)
    BY <2>1, RestartedIs
  <2>3. Staged(r)
    BY <1>1, <2>2, FramingBounds DEF Staged
  <2>4. Len(r.cand) + from <= Len(c) /\ Len(r.cand) \in Nat
    BY <1>1, <2>2, FramingBounds
  <2>5. FollowsFrom(r, s, T, 0)
    <3> SUFFICES ASSUME r.lost = 0, NEW e \in Ext(s)
                 PROVE  On(e, Len(s) - Len(r.cand), T \o r.pending)
      BY <1>1, <2>4 DEF FollowsFrom
    <3>1. On(e, q + from, T \o r.pending)
      BY <2>2 DEF FollowsFrom
    <3>2. PICK w \in Nat : w = Len(c) - Len(r.cand) - from
      <4>1. Len(c) - Len(r.cand) - from \in Nat
        BY <1>1, <2>4
      <4>2. QED BY <4>1
    <3>3. q + from \in 0..Len(s) /\ (q + from) + w = Len(s) - Len(r.cand)
      BY <1>1, <2>4, <3>2
    <3>4. CASE w = 0
      <4>1. q + from = Len(s) - Len(r.cand)
        <5>1. \A x \in 0..Len(s), y \in Nat : y = 0 => x + y = x
          BY <1>1
        <5>2. (q + from) + w = q + from
          <6> HIDE DEF q
          <6>1. QED BY <3>2, <3>3, <3>4, <5>1
        <5>3. QED BY <3>3, <5>2
      <4>2. QED BY <3>1, <4>1
    <3>5. CASE w # 0
      <4>1. Len(r.cand) = PreambleBits - 1
        <5>1. Len(c) # Len(r.cand)
          <6>1. Len(c) \in Nat /\ Len(r.cand) \in Nat
            BY <1>1, <2>4
          <6>2. from \in Nat
            OBVIOUS
          <6> HIDE DEF c
          <6>3. QED BY <2>4, <3>2, <3>5, <6>1, <6>2, Shorter
        <5> HIDE DEF c
        <5>2. QED BY <2>2, <5>1
      <4>2. (q + from) + w + PreambleBits <= Len(s) + 1
        <5>1. (q + from) + w = Len(s) - (PreambleBits - 1)
          BY <3>3, <4>1
        <5> HIDE DEF q
        <5>2. QED BY <5>1, <1>1, FramingBounds
      <4>3. \A i \in 0..(w - 1) : ~ PreambleAt(Rest(s, q + from), i)
        <5> SUFFICES ASSUME NEW i \in 0..(w - 1) PROVE ~ PreambleAt(Rest(s, q + from), i)
          OBVIOUS
        <5>1. from + i \in from..(Len(c) - PreambleBits) /\ from + i \in Nat /\ i \in Nat
          BY <1>1, <3>2, <4>1, FramingBounds
        <5>2. ~ PreambleAt(Rest(s, q), from + i)
          BY <1>1, <1>2, <5>1
        <5>3. /\ q + (from + i) + PreambleBits <= Len(s)
              /\ (q + from) + i + PreambleBits <= Len(s) /\ q + (from + i) = (q + from) + i
          BY <1>1, <5>1, FramingBounds
        <5>4. PreambleAt(Rest(s, q), from + i) = PreambleAt(Rest(s, q + (from + i)), 0)
          BY <1>1, <5>1, <5>3, PreambleIs
        <5>5. PreambleAt(Rest(s, q + from), i) = PreambleAt(Rest(s, (q + from) + i), 0)
          BY <3>3, <5>1, <5>3, PreambleIs
        <5>6. QED BY <5>2, <5>3, <5>4, <5>5
      <4> HIDE DEF q
      <4>4. On(e, (q + from) + w, T \o r.pending)
        BY <3>1, <3>3, <4>2, <4>3, Passes
      <4>5. QED BY <3>3, <4>4
    <3>6. QED BY <3>4, <3>5
  <2>6. QED BY <2>2, <2>3, <2>4, <2>5 DEF Cut
<1>3. CASE /\ k \in from..(Len(c) - PreambleBits) /\ PreambleAt(c, k)
           /\ \A i \in from..(k - 1) : ~ PreambleAt(c, i)
  <2>0. k \in Nat /\ k <= Len(c) /\ k + PreambleBits <= Len(c) /\ from <= k
    BY <1>1, <1>3, FramingBounds
  <2> HIDE DEF k
  <2>1. r = [d EXCEPT !.state = "aa", !.target = 0, !.cand = SubSeq(c, k + 1, Len(c))]
    <3>1. ~ (k < 0)
      BY <2>0
    <3>2. QED BY <3>1 DEF ResumedAt, k
  <2>2. SubSeq(c, k + 1, Len(c)) = Rest(s, q + k) /\ q + k \in 0..Len(s)
    <3>1. k \in 0..(Len(s) - q) /\ q + k \in 0..Len(s)
      BY <1>1, <2>0
    <3> HIDE DEF q, c
    <3>2. QED BY <1>1, <3>1, RestOfRest
  <2>3. Rest(s, q + k) \in Stream /\ Len(Rest(s, q + k)) = Len(s) - (q + k)
    BY <2>2, RestIs
  <2>4. /\ r \in Decs /\ r.state = "aa" /\ r.target = 0 /\ r.cand = Rest(s, q + k)
        /\ r.pending = d.pending /\ r.lost = d.lost
    <3>1. PICK x \in Stream : x = Rest(s, q + k)
      BY <2>3
    <3>2. r = [d EXCEPT !.state = "aa", !.target = 0, !.cand = x]
      BY <3>1, <2>1, <2>2, <2>3
    <3>3. d \in Decs
      BY DEF Placed
    <3>4. /\ r \in Decs /\ r.state = "aa" /\ r.target = 0 /\ r.cand = x
          /\ r.pending = d.pending /\ r.lost = d.lost
      <4>0. [d EXCEPT !.state = "aa", !.target = 0, !.cand = x] \in Decs
        <5>1. x \in Stream /\ "aa" \in {"search", "aa", "pdu"}
          BY <3>1
        <5>2. QED BY <3>3, <5>1, Refilled, Zenon
      <4>1. r \in Decs
        BY <3>2, <4>0
      <4>2. QED BY <3>1, <3>2, <3>3, <4>1 DEF Decs
    <3>5. QED BY <3>1, <3>4
  <2>5. Len(r.cand) = Len(c) - k /\ Len(s) - Len(r.cand) = q + k
    <3>1. Len(r.cand) = Len(s) - (q + k)
      BY <2>3, <2>4
    <3> HIDE DEF q, c
    <3>2. QED BY <1>1, <2>0, <3>1
  <2>6. Placed(r, s)
    <3>1. Len(r.cand) <= Len(s)
      <4> HIDE DEF q, c
      <4>1. QED BY <1>1, <2>0, <2>5
    <3>2. r.cand = Rest(s, Len(s) - Len(r.cand))
      BY <2>4, <2>5
    <3>3. QED BY <2>4, <3>1, <3>2 DEF Placed
  <2>7. PreambleAt(r.cand, 0)
    <3>1. q + k + PreambleBits <= Len(s)
      BY <1>1, <2>0, FramingBounds
    <3>2. PreambleAt(Rest(s, q), k) = PreambleAt(Rest(s, q + k), 0)
      BY <1>1, <2>0, <3>1, PreambleIs
    <3>3. QED BY <1>1, <1>3, <2>4, <3>2 DEF k
  <2>8. Staged(r)
    <3>1. PreambleBits <= Len(r.cand)
      BY <1>1, <2>0, <2>5, FramingBounds
    <3>2. QED BY <2>4, <2>7, <3>1 DEF Staged
  <2>9. FollowsFrom(r, s, T, 0)
    <3> SUFFICES ASSUME r.lost = 0, NEW e \in Ext(s)
                 PROVE  On(e, q + k, T \o r.pending)
      <4>1. Len(s) - Len(r.cand) + 0 = q + k
        BY <1>1, <2>0, <2>5
      <4>2. QED BY <4>1 DEF FollowsFrom
    <3>1. On(e, q + from, T \o r.pending)
      BY <2>4 DEF FollowsFrom
    <3>2. PICK w \in Nat : w = k - from
      BY <2>0
    <3>3. /\ q + from \in 0..Len(s) /\ (q + from) + w = q + k
          /\ (q + from) + w + PreambleBits <= Len(s) + 1
      <4> HIDE DEF q, c
      <4>1. QED BY <1>1, <2>0, <3>2, FramingBounds
    <3>4. \A i \in 0..(w - 1) : ~ PreambleAt(Rest(s, q + from), i)
      <4> SUFFICES ASSUME NEW i \in 0..(w - 1) PROVE ~ PreambleAt(Rest(s, q + from), i)
        OBVIOUS
      <4>1. from + i \in from..(k - 1) /\ from + i \in Nat /\ i \in Nat
        BY <2>0, <3>2
      <4>2. ~ PreambleAt(Rest(s, q), from + i)
        BY <1>1, <1>3, <4>1 DEF k
      <4>3. /\ q + (from + i) + PreambleBits <= Len(s)
            /\ (q + from) + i + PreambleBits <= Len(s) /\ q + (from + i) = (q + from) + i
        BY <1>1, <2>0, <4>1, FramingBounds
      <4>4. PreambleAt(Rest(s, q), from + i) = PreambleAt(Rest(s, q + (from + i)), 0)
        BY <1>1, <4>1, <4>3, PreambleIs
      <4>5. PreambleAt(Rest(s, q + from), i) = PreambleAt(Rest(s, (q + from) + i), 0)
        BY <3>3, <4>1, <4>3, PreambleIs
      <4>6. QED BY <4>2, <4>3, <4>4, <4>5
    <3> HIDE DEF q
    <3>5. On(e, (q + from) + w, T \o r.pending)
      BY <3>1, <3>3, <3>4, Passes
    <3>6. QED BY <3>3, <3>5
  <2>10. Len(r.cand) + from <= Len(c)
    BY <1>1, <2>0, <2>5
  <2>11. QED BY <2>4, <2>6, <2>8, <2>9, <2>10 DEF Cut
<1>4. QED
  <2>1. \/ k = -1 /\ \A i \in from..(Len(c) - PreambleBits) : ~ PreambleAt(c, i)
        \/ /\ k \in from..(Len(c) - PreambleBits) /\ PreambleAt(c, k)
           /\ \A i \in from..(k - 1) : ~ PreambleAt(c, i)
    <3> HIDE DEF c
    <3>1. QED BY <1>1, NextIs
  <2>2. QED BY <1>2, <1>3, <2>1

-----------------------------------------------------------------------------
(* A turn of the decoder's loop *)

LEMMA WaitsIs ==
  ASSUME NEW d \in Decs
  PROVE  /\ d.state = "search" => (Waits(d) <=> Len(d.cand) < PreambleBits)
         /\ d.state = "aa" => (Waits(d) <=> Len(d.cand) < AaEnd)
         /\ d.state = "pdu" /\ d.target = 0 =>
              (Waits(d) <=> Len(d.cand) < AaEnd + LlHeaderBits)
         /\ d.state = "pdu" /\ d.target # 0 =>
              (Waits(d) <=> Len(d.cand) < AaEnd + d.target)
BY DEF Waits

LEMMA TurnIs ==
  ASSUME NEW d \in Decs, NEW n
  PROVE  LET c == d.cand
         IN  /\ d.state = "search" =>
                  Turn(d, n) = IF PreambleAt(c, Len(c) - PreambleBits)
                               THEN [d EXCEPT !.state = "aa", !.cand = Newest(c, PreambleBits)]
                               ELSE [d EXCEPT !.cand = Tail(c)]
             /\ d.state = "aa" =>
                  Turn(d, n) = IF Survives(c)
                               THEN [d EXCEPT !.state = "pdu", !.aa = AaOf(c)]
                               ELSE RejectAndRescan([d EXCEPT !.aa = AaOf(c)])
             /\ d.state = "pdu" /\ d.target = 0 =>
                  Turn(d, n) = IF PlausibleHeader(c) THEN [d EXCEPT !.target = TargetBits(c)]
                               ELSE RejectAndRescan(d)
             /\ d.state = "pdu" /\ d.target # 0 => Turn(d, n) = Completed(d, n)
BY DEF Turn

\* Signal strength measured from bit b on covers the frames queued, and any to come.
Covered(d, s, b) ==
  /\ b <= Len(s) - Len(d.cand) + PreambleBits
  /\ \A k \in 1..Len(d.pending) :
       /\ b <= d.pending[k].at + PreambleBits - 1
       /\ d.pending[k].at + AaEnd + Len(d.pending[k].pdu) - 1 <= Len(s)

LEMMA CoveredOn ==
  ASSUME NEW s \in Stream, NEW d, Placed(d, s), NEW r, Placed(r, s),
         NEW b \in Int, Covered(d, s, b), Len(r.cand) <= Len(d.cand),
         r.pending = d.pending
  PROVE  Covered(r, s, b)
<1>1. Len(s) \in Nat /\ Len(d.cand) \in Nat /\ Len(r.cand) \in Nat
  BY DEF Placed, Decs, Stream
<1>2. b <= Len(s) - Len(r.cand) + PreambleBits
  BY <1>1, FramingBounds DEF Covered
<1>3. QED BY <1>2 DEF Covered

\* Turns left for the bits buffered.
Rank(d) == IF d.state = "search" THEN 3 ELSE IF d.state = "aa" THEN 2
           ELSE IF d.target = 0 THEN 1 ELSE 0
Measure(d) == 4 * Len(d.cand) + Rank(d)

LEMMA MeasureShrinks ==
  ASSUME NEW d \in Decs, NEW r \in Decs, Len(r.cand) + 1 <= Len(d.cand)
  PROVE  Measure(r) < Measure(d)
<1>1. Rank(r) \in 0..3 /\ Rank(d) \in 0..3 /\ Len(r.cand) \in Nat /\ Len(d.cand) \in Nat
  BY DEF Rank, Decs, Stream
<1>2. 4 * Len(r.cand) + 4 <= 4 * Len(d.cand)
  BY <1>1
<1>3. QED BY <1>1, <1>2 DEF Measure

\* An offset that the scan rejects is passed over.
LEMMA RejectMoves ==
  ASSUME NEW s \in Stream, NEW d, Placed(d, s), NEW T, FollowsFrom(d, s, T, 0),
         1 <= Len(d.cand),
         \A e \in Ext(s) : Rejected(Rest(e, Len(s) - Len(d.cand)))
  PROVE  FollowsFrom(d, s, T, 1)
<1> SUFFICES ASSUME d.lost = 0, NEW e \in Ext(s)
             PROVE  On(e, Len(s) - Len(d.cand) + 1, T \o d.pending)
  BY DEF FollowsFrom
<1>1. Len(s) \in Nat /\ Len(d.cand) \in Nat /\ Len(d.cand) <= Len(s)
  BY DEF Placed, Decs, Stream
<1>2. e \in Stream /\ Len(e) \in Nat /\ Len(s) <= Len(e)
  BY DEF Ext, Stream
<1>3. PICK q \in Nat : q = Len(s) - Len(d.cand)
  <2>1. Len(s) - Len(d.cand) \in Nat
    BY <1>1
  <2>2. QED BY <2>1
<1>4. q < Len(e) /\ q + 0 = q
  BY <1>1, <1>2, <1>3
<1>5. On(e, q, T \o d.pending)
  BY <1>3, <1>4 DEF FollowsFrom
<1>6. Rejected(Rest(e, q))
  BY <1>3
<1>7. On(e, q + 1, T \o d.pending)
  BY <1>2, <1>4, <1>5, <1>6, OnReject
<1>8. QED BY <1>3, <1>7

LEMMA RejectKeeps ==
  ASSUME NEW s \in Stream, NEW d, Placed(d, s), NEW T, FollowsFrom(d, s, T, 1),
         AaEnd <= Len(d.cand), NEW r, r = RejectAndRescan(d)
  PROVE  /\ Cut(r, s, T) /\ r.pending = d.pending
         /\ Len(r.cand) + 1 <= Len(d.cand)
<1>1. r = ResumedAt(d, 1) /\ Len(d.cand) \in Nat
  BY DEF RejectAndRescan, Placed, Decs, Stream
<1>2. 1 + PreambleBits <= Len(d.cand) + 1
  BY <1>1, FramingBounds
<1>3. 1 \in Nat
  OBVIOUS
<1>4. QED BY <1>1, <1>2, <1>3, Resumes

\* Every stream that begins with s has the buffer's bits where it begins.
LEMMA BufferBegins ==
  ASSUME NEW s \in Stream, NEW d, Placed(d, s), NEW e \in Ext(s)
  PROVE  Begins(d.cand, Rest(e, Len(s) - Len(d.cand)))
<1>1. Len(s) - Len(d.cand) \in 0..Len(s)
  BY DEF Placed, Decs, Stream
<1>2. QED BY <1>1, RestBegins DEF Placed

\* The frames taken and those queued, as one more is queued or taken.
LEMMA QueueJoins ==
  ASSUME NEW T \in Seq(FrameSet), NEW p \in Seq(FrameSet), NEW f \in FrameSet
  PROVE  T \o Append(p, f) = Append(T \o p, f)
<1>1. Append(p, f) = p \o <<f>> /\ <<f>> \in Seq(FrameSet) /\ T \o p \in Seq(FrameSet)
  BY AppendIsConcat, ConcatProperties
<1>2. T \o (p \o <<f>>) = (T \o p) \o <<f>>
  BY <1>1, ConcatAssociative
<1>3. Append(T \o p, f) = (T \o p) \o <<f>>
  BY <1>1, AppendIsConcat
<1>4. QED BY <1>1, <1>2, <1>3

LEMMA QueueTakes ==
  ASSUME NEW T \in Seq(FrameSet), NEW p \in Seq(FrameSet), p # <<>>
  PROVE  Append(T, Head(p)) \o Tail(p) = T \o p
<1>1. Head(p) \in FrameSet /\ Tail(p) \in Seq(FrameSet)
  BY HeadTailProperties
<1>2. p = <<Head(p)>> \o Tail(p) /\ <<Head(p)>> \in Seq(FrameSet)
  <2>1. <<Head(p)>> \in Seq(FrameSet) /\ Len(<<Head(p)>>) = 1 /\ <<Head(p)>>[1] = Head(p)
    BY <1>1
  <2>2. /\ Len(Tail(p)) = Len(p) - 1 /\ \A i \in 1..Len(Tail(p)) : Tail(p)[i] = p[i + 1]
        /\ Len(p) \in Nat /\ Len(p) >= 1 /\ Head(p) = p[1]
    BY HeadTailProperties
  <2> DEFINE u == <<Head(p)>> \o Tail(p)
  <2>3. /\ u \in Seq(FrameSet) /\ Len(u) = 1 + Len(Tail(p))
        /\ \A i \in 1..(1 + Len(Tail(p))) :
             u[i] = IF i <= 1 THEN <<Head(p)>>[i] ELSE Tail(p)[i - 1]
    BY <1>1, <2>1, ConcatProperties
  <2> HIDE DEF u
  <2>4. Len(u) = Len(p)
    BY <2>2, <2>3
  <2>5. ASSUME NEW i \in 1..Len(p) PROVE u[i] = p[i]
    <3>1. CASE i = 1
      BY <2>1, <2>2, <2>3, <3>1
    <3>2. CASE i # 1
      <4>1. i - 1 \in 1..Len(Tail(p)) /\ (i - 1) + 1 = i /\ ~ (i <= 1)
            /\ i \in 1..(1 + Len(Tail(p)))
        BY <2>2, <3>2
      <4>2. QED BY <2>2, <2>3, <4>1
    <3>3. QED BY <3>1, <3>2
  <2>6. u = p
    BY <2>3, <2>4, <2>5, SeqEqual
  <2>7. QED BY <2>1, <2>6 DEF u
<1>3. Append(T, Head(p)) = T \o <<Head(p)>>
  BY <1>1, AppendIsConcat
<1>4. (T \o <<Head(p)>>) \o Tail(p) = T \o (<<Head(p)>> \o Tail(p))
  BY <1>1, <1>2, ConcatAssociative
<1>5. QED BY <1>2, <1>3, <1>4

\* A frame cut at the start of a buffer of l bits, of n pushed.
LEMMA FrameSpan ==
  ASSUME NEW n \in Nat, NEW l \in Nat, NEW q \in Nat, q = n - l, NEW t \in Nat,
         NEW a \in Nat, a + t <= l, NEW x \in Nat, x = q + 1,
         NEW b \in Int, NEW m \in Nat, b <= n - l + m
  PROVE  b <= x + m - 1 /\ x + a + t - 1 <= n
OBVIOUS

\* ble_dec_emit: what is queued is the candidate the scan finds.
LEMMA EmittedIs ==
  ASSUME NEW s \in Stream, NEW T \in Seq(FrameSet), NEW d, Cut(d, s, T),
         NEW b \in Int, Covered(d, s, b),
         d.state = "pdu", d.target # 0, AaEnd + d.target <= Len(d.cand),
         NEW r, r = Emitted(d, Len(s))
  PROVE  /\ Placed(r, s) /\ r.cand = d.cand /\ r.aa = d.aa /\ r.target = d.target
         /\ FollowsFrom(r, s, T, LookPast(d.cand)) /\ Covered(r, s, b)
         /\ LookPast(d.cand) = IF d.aa = AdvAa THEN AaEnd + d.target ELSE 1
<1> DEFINE c == d.cand
           t == d.target
<1>1. /\ d \in Decs /\ Placed(d, s) /\ Staged(d) /\ Len(s) \in Nat /\ c \in Stream
      /\ Len(c) \in Nat /\ Len(c) <= Len(s) /\ t \in Nat /\ d.pending \in Seq(FrameSet)
      /\ d.lost \in Nat
  BY DEF Cut, Placed, Decs, Stream
<1>2. /\ PreambleAt(c, 0) /\ Survives(c) /\ d.aa = AaOf(c) /\ PlausibleHeader(c)
      /\ t = TargetBits(c) /\ AaEnd + LlHeaderBits <= Len(c) /\ AaEnd <= Len(c)
      /\ PreambleBits <= Len(c)
  BY <1>1 DEF Staged
<1>3. PICK q \in Nat : q = Len(s) - Len(c)
  <2>1. Len(s) - Len(c) \in Nat
    BY <1>1
  <2>2. QED BY <2>1
<1>4. PICK f \in FrameSet : f = Candidate(c, q + 1) /\ Len(f.pdu) = t /\ f.at = q + 1
  <2>1. Begins(c, c)
    BY <1>1 DEF Begins
  <2>2. q + 1 \in Nat /\ AaEnd + TargetBits(c) <= Len(c)
    BY <1>2
  <2>3. Candidate(c, q + 1) \in FrameSet /\ Len(Candidate(c, q + 1).pdu) = TargetBits(c)
    BY <1>2, <2>1, <2>2, CandidateAgrees
  <2>4. Candidate(c, q + 1).at = q + 1
    BY DEF Candidate
  <2>5. QED BY <1>2, <2>3, <2>4
<1>5. r = IF Len(d.pending) < QueueCap THEN [d EXCEPT !.pending = Append(d.pending, f)]
          ELSE [d EXCEPT !.lost = d.lost + 1]
  <2>1. f = [kind |-> IF d.aa = AdvAa THEN "adv" ELSE "data",
             at |-> Len(s) - Len(d.cand) + 1,
             pdu |-> SubSeq(d.cand, AaEnd + 1, AaEnd + d.target)]
    BY <1>2, <1>3, <1>4 DEF Candidate
  <2>2. QED BY <2>1 DEF Emitted
<1>6. LookPast(c) = IF d.aa = AdvAa THEN AaEnd + t ELSE 1
  BY <1>2 DEF LookPast
<1>7. ASSUME d.lost = 0, NEW e \in Ext(s)
      PROVE  On(e, q + LookPast(c), Append(T \o d.pending, f))
  <2> DEFINE x == Rest(e, q)
  <2>1. Begins(c, x)
    BY <1>1, <1>3, BufferBegins
  <2>2. /\ PreambleAt(x, 0) /\ Survives(x) /\ AaOf(x) = AaOf(c)
        /\ PlausibleHeader(x) /\ TargetBits(x) = t
    <3> HIDE DEF x, c
    <3>1. 0 \in Nat /\ 0 + PreambleBits <= Len(c)
      BY <1>2, FramingBounds
    <3>2. PreambleAt(x, 0)
      BY <1>2, <2>1, <3>1, PreambleAgrees
    <3>3. Survives(x) /\ AaOf(x) = AaOf(c)
      BY <1>2, <2>1, AaAgrees
    <3>4. PlausibleHeader(x) /\ TargetBits(x) = t
      BY <1>2, <2>1, HeaderAgrees
    <3>5. QED BY <3>2, <3>3, <3>4
  <2>3. Len(c) <= Len(x)
    BY <2>1 DEF Begins
  <2>4. Complete(x)
    <3>1. Len(x) \in Nat
      BY <2>1 DEF Begins, Stream
    <3> HIDE DEF x, c
    <3>2. AaEnd + LlHeaderBits <= Len(x) /\ AaEnd + t <= Len(x)
      BY <1>1, <1>2, <2>3, <3>1, FramingBounds DEF c
    <3>3. QED BY <2>2, <3>2 DEF Complete, Rejected
  <2>5. LookPast(x) = LookPast(c)
    BY <1>2, <2>2 DEF LookPast
  <2>6. Candidate(x, q + 1) = f
    <3>1. q + 1 \in Nat /\ AaEnd + TargetBits(c) <= Len(c)
      BY <1>2
    <3>2. Candidate(c, q + 1) = Candidate(x, q + 1)
      BY <1>2, <2>1, <3>1, CandidateAgrees
    <3>3. QED BY <1>4, <3>2
  <2>7. e \in Stream /\ q < Len(e)
    <3>1. Len(s) <= Len(e) /\ Len(e) \in Nat /\ e \in Stream
      BY DEF Ext, Stream
    <3>2. Len(c) > 0
      BY <1>1, <1>2, FramingBounds
    <3>3. q < Len(s)
      BY <1>1, <1>3, <3>2
    <3>4. QED BY <1>1, <3>1, <3>3
  <2>8. On(e, q, T \o d.pending)
    <3>1. q + 0 = q
      OBVIOUS
    <3>2. QED BY <1>3, <1>7, <3>1 DEF Cut, FollowsFrom
  <2>9. LookPast(c) \in Nat /\ 0 < LookPast(c)
    BY <1>1, <1>6, FramingBounds
  <2> HIDE DEF x, c
  <2>10. On(e, q + LookPast(c), Append(T \o d.pending, Candidate(x, q + 1)))
    BY <2>4, <2>5, <2>7, <2>8, <2>9, OnComplete DEF x
  <2>11. QED BY <2>6, <2>10
<1>8. b <= f.at + PreambleBits - 1 /\ f.at + AaEnd + Len(f.pdu) - 1 <= Len(s)
  <2>1. b <= Len(s) - Len(c) + PreambleBits
    BY DEF Covered
  <2>2. AaEnd + t <= Len(c) /\ f.at \in Nat /\ f.at = q + 1 /\ Len(f.pdu) = t
    BY <1>4
  <2> HIDE DEF c, t
  <2>3. b <= f.at + PreambleBits - 1 /\ f.at + AaEnd + t - 1 <= Len(s)
    BY <1>1, <1>3, <2>1, <2>2, FramingBounds, FrameSpan
  <2>4. QED BY <2>2, <2>3
<1>9. CASE Len(d.pending) < QueueCap
  <2>1. r = [d EXCEPT !.pending = Append(d.pending, f)]
    BY <1>5, <1>9
  <2>2. Append(d.pending, f) \in Seq(FrameSet)
    BY <1>1, <1>4
  <2>3. /\ r \in Decs /\ r.cand = d.cand /\ r.aa = d.aa /\ r.target = d.target
        /\ r.pending = Append(d.pending, f) /\ r.lost = d.lost
    BY <1>1, <2>1, <2>2 DEF Decs
  <2>4. Placed(r, s)
    BY <1>1, <2>3 DEF Placed
  <2>5. FollowsFrom(r, s, T, LookPast(d.cand))
    <3>1. T \o Append(d.pending, f) = Append(T \o d.pending, f)
      BY <1>1, <1>4, QueueJoins
    <3>2. QED BY <1>3, <1>7, <2>3, <3>1 DEF FollowsFrom
  <2>6. Covered(r, s, b)
    <3>1. b <= Len(s) - Len(r.cand) + PreambleBits
      BY <2>3 DEF Covered
    <3>2. ASSUME NEW k \in 1..Len(r.pending)
          PROVE  /\ b <= r.pending[k].at + PreambleBits - 1
                 /\ r.pending[k].at + AaEnd + Len(r.pending[k].pdu) - 1 <= Len(s)
      <4>1. CASE k \in 1..Len(d.pending)
        <5>1. r.pending[k] = d.pending[k]
          BY <1>1, <2>3, <4>1
        <5>2. QED BY <4>1, <5>1 DEF Covered
      <4>2. CASE k \notin 1..Len(d.pending)
        <5>1. r.pending[k] = f
          BY <1>1, <1>4, <2>3, <4>2
        <5>2. QED BY <1>8, <5>1
      <4>3. QED BY <4>1, <4>2
    <3>3. QED BY <3>1, <3>2 DEF Covered
  <2>7. QED BY <1>6, <2>3, <2>4, <2>5, <2>6
<1>10. CASE ~ (Len(d.pending) < QueueCap)
  <2>1. r = [d EXCEPT !.lost = d.lost + 1]
    BY <1>5, <1>10
  <2>2. /\ r \in Decs /\ r.cand = d.cand /\ r.aa = d.aa /\ r.target = d.target
        /\ r.pending = d.pending /\ r.lost = d.lost + 1
    BY <1>1, <2>1 DEF Decs
  <2>3. Placed(r, s)
    BY <1>1, <2>2 DEF Placed
  <2>4. FollowsFrom(r, s, T, LookPast(d.cand))
    BY <1>1, <2>2 DEF FollowsFrom
  <2>5. Covered(r, s, b)
    BY <2>2 DEF Covered
  <2>6. QED BY <1>6, <2>2, <2>3, <2>4, <2>5
<1>11. QED BY <1>9, <1>10

LEMMA NewestAll ==
  ASSUME NEW c \in Stream, NEW m \in Nat, Len(c) <= m
  PROVE  Newest(c, m) = c
BY DEF Newest, Stream

\* What a turn leaves behind.
Goes(r, d, s, T, b) ==
  Cut(r, s, T) /\ Covered(r, s, b) /\ Measure(r) < Measure(d)

LEMMA RejectGoes ==
  ASSUME NEW s \in Stream, NEW T, NEW b \in Int, NEW d \in Decs,
         NEW x, Placed(x, s), x.cand = d.cand, Covered(x, s, b),
         FollowsFrom(x, s, T, 1), AaEnd <= Len(x.cand),
         NEW r, r = RejectAndRescan(x)
  PROVE  Goes(r, d, s, T, b)
<1>1. Cut(r, s, T) /\ r.pending = x.pending /\ Len(r.cand) + 1 <= Len(x.cand)
  BY RejectKeeps
<1>2. Placed(r, s) /\ r \in Decs
  BY <1>1 DEF Cut, Placed
<1>3. Measure(r) < Measure(d)
  BY <1>1, <1>2, MeasureShrinks
<1>4. Len(r.cand) <= Len(x.cand)
  <2>1. Len(r.cand) \in Nat /\ Len(x.cand) \in Nat
    <3>1. \A y \in Decs : Len(y.cand) \in Nat
      BY DEF Decs, Stream
    <3>2. QED BY <1>2, <3>1 DEF Placed
  <2>2. QED BY <1>1, <2>1
<1>5. Covered(r, s, b)
  BY <1>1, <1>2, <1>4, CoveredOn
<1>6. QED BY <1>1, <1>3, <1>5 DEF Goes

\* Searching: the newest bits are a preamble, or the oldest of them is dropped.
LEMMA SearchTurn ==
  ASSUME NEW s \in Stream, NEW T \in Seq(FrameSet), NEW b \in Int,
         NEW d, Cut(d, s, T), Covered(d, s, b), ~ Waits(d), d.state = "search",
         NEW r, r = Turn(d, Len(s))
  PROVE  Goes(r, d, s, T, b)
<1> DEFINE c == d.cand
<1>1. /\ d \in Decs /\ Placed(d, s) /\ Staged(d) /\ Len(s) \in Nat /\ c \in Stream
      /\ Len(c) \in Nat /\ Len(c) <= Len(s) /\ d.target = 0
  BY DEF Cut, Placed, Staged, Decs, Stream
<1>2. Len(c) = PreambleBits
  <2>1. ~ (Len(c) < PreambleBits)
    BY <1>1, WaitsIs
  <2>2. Len(c) <= PreambleBits
    BY <1>1 DEF Staged
  <2>3. QED BY <1>1, <2>1, <2>2, FramingBounds
<1>3. Len(c) - PreambleBits = 0 /\ Newest(c, PreambleBits) = c
  BY <1>1, <1>2, NewestAll, FramingBounds
<1>4. PICK q \in Nat : q = Len(s) - Len(c)
  <2>1. Len(s) - Len(c) \in Nat
    BY <1>1
  <2>2. QED BY <2>1
<1>5. CASE PreambleAt(c, 0)
  <2>1. r = [d EXCEPT !.state = "aa", !.cand = c]
    BY <1>1, <1>3, <1>5, TurnIs
  <2>2. /\ r \in Decs /\ r.state = "aa" /\ r.cand = c /\ r.target = 0
        /\ r.pending = d.pending /\ r.lost = d.lost
    BY <1>1, <2>1 DEF Decs
  <2>3. Placed(r, s) /\ FollowsFrom(r, s, T, 0)
    BY <2>2 DEF Cut, Placed, FollowsFrom
  <2>4. Staged(r)
    BY <1>2, <1>5, <2>2, FramingBounds DEF Staged
  <2>5. Covered(r, s, b)
    BY <2>2 DEF Covered
  <2>6. Measure(r) < Measure(d)
    <3>1. Rank(r) = 2 /\ Rank(d) = 3
      BY <2>2 DEF Rank
    <3>2. QED BY <1>1, <2>2, <3>1 DEF Measure
  <2>7. QED BY <2>3, <2>4, <2>5, <2>6 DEF Goes, Cut
<1>6. CASE ~ PreambleAt(c, 0)
  <2>1. r = [d EXCEPT !.cand = Tail(c)]
    BY <1>1, <1>3, <1>6, TurnIs
  <2>2. Len(c) >= 1 /\ c # <<>>
    BY <1>2, FramingBounds
  <2>3. Tail(c) \in Stream /\ Len(Tail(c)) = Len(c) - 1
    BY <1>1, <2>2 DEF Stream
  <2>4. Tail(c) = Rest(s, q + 1)
    <3>1. c = Rest(s, q) /\ Len(c) = Len(s) - q
      BY <1>1, <1>4 DEF Placed
    <3>2. Tail(c) = SubSeq(c, 1 + 1, Len(c))
      BY <1>1, <2>2, TailIsSubSeq DEF Stream
    <3>3. q \in 0..Len(s) /\ 1 \in 0..(Len(s) - q)
      BY <1>1, <1>4, <2>2
    <3> HIDE DEF c
    <3>4. QED BY <3>1, <3>2, <3>3, RestOfRest
  <2>5. /\ r \in Decs /\ r.state = "search" /\ r.cand = Tail(c) /\ r.target = 0
        /\ r.pending = d.pending /\ r.lost = d.lost
    BY <1>1, <2>1, <2>3 DEF Decs
  <2>6. Len(r.cand) = Len(c) - 1 /\ Len(s) - Len(r.cand) = q + 1 /\ Len(r.cand) <= Len(s)
    <3>1. Len(r.cand) = Len(c) - 1
      BY <2>3, <2>5
    <3> HIDE DEF c
    <3>2. QED BY <1>1, <1>4, <3>1
  <2>7. Placed(r, s)
    BY <2>4, <2>5, <2>6 DEF Placed
  <2>8. Staged(r)
    BY <1>2, <2>5, <2>6, FramingBounds DEF Staged
  <2>9. FollowsFrom(r, s, T, 0)
    <3> SUFFICES ASSUME r.lost = 0, NEW e \in Ext(s) PROVE On(e, q + 1, T \o r.pending)
      <4>1. Len(s) - Len(r.cand) + 0 = q + 1
        <5>1. (q + 1) + 0 = q + 1
          BY <1>4
        <5>2. QED BY <2>6, <5>1
      <4>2. QED BY <4>1 DEF FollowsFrom
    <3>1. On(e, q, T \o r.pending)
      <4>1. q + 0 = q
        OBVIOUS
      <4>2. QED BY <1>4, <2>5, <4>1 DEF Cut, FollowsFrom
    <3>2. Rest(s, q) = c
      BY <1>4 DEF Cut, Placed
    <3>3. \A i \in 0..(1 - 1) : ~ PreambleAt(Rest(s, q), i)
      BY <1>6, <3>2
    <3>4. q \in 0..Len(s) /\ q + 1 + PreambleBits <= Len(s) + 1
      <4> HIDE DEF c
      <4>1. QED BY <1>1, <1>2, <1>4, FramingBounds
    <3>5. QED BY <3>1, <3>3, <3>4, Passes
  <2>10. Len(r.cand) + 1 <= Len(d.cand) /\ Len(r.cand) <= Len(d.cand)
    BY <1>1, <2>6
  <2>11. Covered(r, s, b)
    BY <1>1, <2>5, <2>7, <2>10, CoveredOn
  <2>12. Measure(r) < Measure(d)
    BY <1>1, <2>5, <2>10, MeasureShrinks
  <2>13. QED BY <2>7, <2>8, <2>9, <2>11, <2>12 DEF Goes, Cut
<1>7. QED BY <1>5, <1>6

\* ble_classify: the access address.
LEMMA AaTurn ==
  ASSUME NEW s \in Stream, NEW T \in Seq(FrameSet), NEW b \in Int,
         NEW d, Cut(d, s, T), Covered(d, s, b), ~ Waits(d), d.state = "aa",
         NEW r, r = Turn(d, Len(s))
  PROVE  Goes(r, d, s, T, b)
<1> DEFINE c == d.cand
           a == AaOf(c)
<1>1. /\ d \in Decs /\ Placed(d, s) /\ Staged(d) /\ Len(s) \in Nat /\ c \in Stream
      /\ Len(c) \in Nat /\ Len(c) <= Len(s) /\ d.target = 0 /\ PreambleAt(c, 0)
      /\ PreambleBits <= Len(c)
  BY DEF Cut, Placed, Staged, Decs, Stream
<1>2. AaEnd <= Len(c)
  BY <1>1, WaitsIs, FramingBounds
<1>3. a \in Stream
  <2>1. Begins(c, c)
    BY <1>1 DEF Begins
  <2>2. QED BY <1>2, <2>1, AaAgrees
<1> HIDE DEF a
<1>4. CASE Survives(c)
  <2>1. r = [d EXCEPT !.state = "pdu", !.aa = a]
    BY <1>1, <1>4, TurnIs DEF a
  <2>2. /\ r \in Decs /\ r.state = "pdu" /\ r.cand = c /\ r.target = 0 /\ r.aa = a
        /\ r.pending = d.pending /\ r.lost = d.lost
    BY <1>1, <1>3, <2>1 DEF Decs
  <2>3. Placed(r, s) /\ FollowsFrom(r, s, T, 0)
    BY <2>2 DEF Cut, Placed, FollowsFrom
  <2>4. Staged(r)
    BY <1>1, <1>2, <1>4, <2>2 DEF Staged, a
  <2>5. Covered(r, s, b)
    BY <2>2 DEF Covered
  <2>6. Measure(r) < Measure(d)
    <3>1. Rank(r) = 1 /\ Rank(d) = 2
      BY <2>2 DEF Rank
    <3>2. QED BY <1>1, <2>2, <3>1 DEF Measure
  <2>7. QED BY <2>3, <2>4, <2>5, <2>6 DEF Goes, Cut
<1>5. CASE ~ Survives(c)
  <2>1. PICK x : x = [d EXCEPT !.aa = a]
    OBVIOUS
  <2>2. r = RejectAndRescan(x)
    BY <1>1, <1>5, <2>1, TurnIs DEF a
  <2>3. /\ x \in Decs /\ x.cand = d.cand /\ x.pending = d.pending /\ x.lost = d.lost
    BY <1>1, <1>3, <2>1 DEF Decs
  <2>4. Placed(x, s) /\ Covered(x, s, b) /\ FollowsFrom(x, s, T, 0)
    BY <2>3 DEF Cut, Placed, Covered, FollowsFrom
  <2>5. \A e \in Ext(s) : Rejected(Rest(e, Len(s) - Len(x.cand)))
    <3> SUFFICES ASSUME NEW e \in Ext(s) PROVE Rejected(Rest(e, Len(s) - Len(c)))
      BY <2>3
    <3>1. PICK y : y = Rest(e, Len(s) - Len(c))
      OBVIOUS
    <3>2. Begins(c, y)
      BY <1>1, <3>1, BufferBegins
    <3>3. ~ Survives(y)
      BY <1>2, <1>5, <3>2, AaAgrees
    <3>4. AaEnd <= Len(y)
      BY <1>1, <1>2, <3>2, FramingBounds DEF Begins, Stream
    <3>5. QED BY <3>1, <3>3, <3>4 DEF Rejected
  <2>6. 1 <= Len(x.cand)
    BY <1>1, <1>2, <2>3, FramingBounds
  <2>7. FollowsFrom(x, s, T, 1)
    BY <2>4, <2>5, <2>6, RejectMoves
  <2>8. QED BY <1>1, <1>2, <2>2, <2>3, <2>4, <2>7, RejectGoes
<1>6. QED BY <1>4, <1>5

\* The header: its length, or a rescan.
LEMMA HeaderTurn ==
  ASSUME NEW s \in Stream, NEW T \in Seq(FrameSet), NEW b \in Int,
         NEW d, Cut(d, s, T), Covered(d, s, b), ~ Waits(d), d.state = "pdu",
         d.target = 0, NEW r, r = Turn(d, Len(s))
  PROVE  Goes(r, d, s, T, b)
<1> DEFINE c == d.cand
           t == TargetBits(c)
<1>1. /\ d \in Decs /\ Placed(d, s) /\ Staged(d) /\ Len(s) \in Nat /\ c \in Stream
      /\ Len(c) \in Nat /\ Len(c) <= Len(s)
      /\ PreambleAt(c, 0) /\ Survives(c) /\ d.aa = AaOf(c) /\ AaEnd <= Len(c)
      /\ PreambleBits <= Len(c)
  BY DEF Cut, Placed, Staged, Decs, Stream
<1>2. AaEnd + LlHeaderBits <= Len(c)
  BY <1>1, WaitsIs, FramingBounds
<1>3. t \in Nat /\ t # 0
  <2>1. Begins(c, c)
    BY <1>1 DEF Begins
  <2>2. TargetBits(c) \in Nat /\ LlHeaderBits <= TargetBits(c)
    BY <1>2, <2>1, HeaderAgrees
  <2> HIDE DEF c
  <2>3. QED BY <2>2, FramingBounds
<1> HIDE DEF t
<1>4. CASE PlausibleHeader(c)
  <2>1. r = [d EXCEPT !.target = t]
    BY <1>1, <1>4, TurnIs DEF t
  <2>2. /\ r \in Decs /\ r.state = "pdu" /\ r.cand = c /\ r.target = t /\ r.aa = d.aa
        /\ r.pending = d.pending /\ r.lost = d.lost
    BY <1>1, <1>3, <2>1 DEF Decs
  <2>3. Placed(r, s) /\ FollowsFrom(r, s, T, 0)
    BY <2>2 DEF Cut, Placed, FollowsFrom
  <2>4. Staged(r)
    BY <1>1, <1>2, <1>4, <2>2 DEF Staged, t
  <2>5. Covered(r, s, b)
    BY <2>2 DEF Covered
  <2>6. Measure(r) < Measure(d)
    <3>1. Rank(r) = 0 /\ Rank(d) = 1
      BY <1>3, <2>2 DEF Rank
    <3>2. QED BY <1>1, <2>2, <3>1 DEF Measure
  <2>7. QED BY <2>3, <2>4, <2>5, <2>6 DEF Goes, Cut
<1>5. CASE ~ PlausibleHeader(c)
  <2>1. r = RejectAndRescan(d)
    BY <1>1, <1>5, TurnIs
  <2>2. FollowsFrom(d, s, T, 0)
    BY DEF Cut
  <2>3. \A e \in Ext(s) : Rejected(Rest(e, Len(s) - Len(d.cand)))
    <3> SUFFICES ASSUME NEW e \in Ext(s) PROVE Rejected(Rest(e, Len(s) - Len(c)))
      OBVIOUS
    <3>1. PICK y : y = Rest(e, Len(s) - Len(c))
      OBVIOUS
    <3>2. Begins(c, y)
      BY <1>1, <3>1, BufferBegins
    <3>3. ~ PlausibleHeader(y)
      BY <1>2, <1>5, <3>2, HeaderAgrees
    <3>4. AaEnd + LlHeaderBits <= Len(y)
      BY <1>1, <1>2, <3>2, FramingBounds DEF Begins, Stream
    <3>5. QED BY <3>1, <3>3, <3>4 DEF Rejected
  <2>4. 1 <= Len(d.cand)
    BY <1>1, <1>2, FramingBounds
  <2>5. FollowsFrom(d, s, T, 1)
    BY <1>1, <2>2, <2>3, <2>4, RejectMoves
  <2>6. QED BY <1>1, <2>1, <2>5, RejectGoes
<1>6. QED BY <1>4, <1>5

LEMMA CutSpan ==
  ASSUME NEW n \in Nat, NEW l \in Nat, NEW q \in Nat, q = n - l, NEW m \in Nat,
         q + m \in 0..n, NEW k, k = n - (q + m)
  PROVE  n - k = q + m /\ k <= n /\ k + m = l
OBVIOUS

\* ble_complete_adv_frame and ble_complete_data_frame.
LEMMA FrameTurn ==
  ASSUME NEW s \in Stream, NEW T \in Seq(FrameSet), NEW b \in Int,
         NEW d, Cut(d, s, T), Covered(d, s, b), ~ Waits(d), d.state = "pdu",
         d.target # 0, NEW r, r = Turn(d, Len(s))
  PROVE  Goes(r, d, s, T, b)
<1> DEFINE c == d.cand
           t == d.target
<1>1. /\ d \in Decs /\ Placed(d, s) /\ Staged(d) /\ Len(s) \in Nat /\ c \in Stream
      /\ Len(c) \in Nat /\ Len(c) <= Len(s) /\ t \in Nat /\ AaEnd <= Len(c)
  BY DEF Cut, Placed, Staged, Decs, Stream
<1>2. AaEnd + t <= Len(c)
  BY <1>1, WaitsIs, FramingBounds
<1>3. PICK x : x = Emitted(d, Len(s))
  OBVIOUS
<1>4. /\ Placed(x, s) /\ x.cand = c /\ x.aa = d.aa /\ x.target = t
      /\ FollowsFrom(x, s, T, LookPast(c)) /\ Covered(x, s, b)
      /\ LookPast(c) = IF d.aa = AdvAa THEN AaEnd + t ELSE 1
  BY <1>2, <1>3, EmittedIs
<1>5. r = IF d.aa = AdvAa THEN FinishCandidate(x) ELSE RejectAndRescan(x)
  BY <1>1, <1>3, TurnIs DEF Completed
<1>6. CASE d.aa # AdvAa
  <2>1. r = RejectAndRescan(x) /\ FollowsFrom(x, s, T, 1)
    BY <1>4, <1>5, <1>6
  <2>2. QED BY <1>1, <1>4, <2>1, RejectGoes
<1>7. CASE d.aa = AdvAa
  <2>1. FollowsFrom(x, s, T, AaEnd + t)
    BY <1>4, <1>7
  <2>2. PICK q \in Nat : q = Len(s) - Len(c)
    <3>1. Len(s) - Len(c) \in Nat
      BY <1>1
    <3>2. QED BY <3>1
  <2>3. PICK m \in Nat : m = AaEnd + t
    BY <1>1, FramingBounds
  <2>4. PICK y : y = [x EXCEPT !.cand = SubSeq(c, m + 1, Len(c))]
    OBVIOUS
  <2>5. r = ResumedAt(y, 0)
    BY <1>4, <1>5, <1>7, <2>3, <2>4 DEF FinishCandidate
  <2>6. SubSeq(c, m + 1, Len(c)) = Rest(s, q + m) /\ q + m \in 0..Len(s)
    <3>1. m \in 0..(Len(s) - q) /\ q + m \in 0..Len(s) /\ q \in 0..Len(s)
      <4>1. AaEnd + t <= Len(c) /\ Len(c) \in Nat /\ Len(c) <= Len(s) /\ Len(s) \in Nat
        BY <1>1, <1>2
      <4> HIDE DEF c, t
      <4>2. QED BY <4>1, <2>2, <2>3
    <3>2. c = Rest(s, q)
      BY <1>1, <2>2 DEF Placed
    <3> HIDE DEF c
    <3>3. QED BY <3>1, <3>2, RestOfRest
  <2>7. PICK z \in Stream : z = Rest(s, q + m) /\ Len(z) = Len(s) - (q + m)
    BY <2>6, RestIs
  <2>8. y = [x EXCEPT !.cand = z] /\ x \in Decs
    BY <1>4, <2>4, <2>6, <2>7 DEF Placed
  <2>9. /\ y \in Decs /\ y.cand = z /\ y.pending = x.pending /\ y.lost = x.lost
    BY <2>8 DEF Decs
  <2>10. Len(s) - Len(z) = q + m /\ Len(z) <= Len(s) /\ Len(z) + m = Len(c)
    <3>1. Len(c) \in Nat /\ Len(c) <= Len(s) /\ Len(s) \in Nat
      BY <1>1
    <3>2. q + m \in 0..Len(s) /\ Len(z) = Len(s) - (q + m)
      BY <2>6, <2>7
    <3> HIDE DEF c
    <3>3. QED BY <2>2, <3>1, <3>2, CutSpan
  <2>11. Placed(y, s)
    BY <2>7, <2>9, <2>10 DEF Placed
  <2>12. FollowsFrom(y, s, T, 0)
    <3>1. (q + m) + 0 = q + m
      OBVIOUS
    <3>2. Len(s) - Len(x.cand) + (AaEnd + t) = q + m
      BY <1>4, <2>2, <2>3
    <3>3. Len(s) - Len(y.cand) + 0 = q + m
      BY <2>9, <2>10, <3>1
    <3>4. QED BY <2>1, <2>9, <3>2, <3>3 DEF FollowsFrom
  <2>13. /\ Cut(r, s, T) /\ r.pending = y.pending /\ Len(r.cand) + 0 <= Len(y.cand)
    <3>1. 0 \in Nat
      OBVIOUS
    <3>2. QED BY <2>5, <2>11, <2>12, <3>1, Resumes
  <2>14. Placed(r, s) /\ r \in Decs /\ Len(r.cand) \in Nat
    BY <2>13 DEF Cut, Placed, Decs, Stream
  <2>15. Len(r.cand) + 1 <= Len(d.cand) /\ Len(r.cand) <= Len(x.cand)
    <3>1. Len(r.cand) + 0 <= Len(z) /\ m >= 1 /\ Len(z) \in Nat
      BY <1>1, <2>3, <2>9, <2>13, FramingBounds DEF Stream
    <3>2. Len(c) = Len(d.cand) /\ Len(c) = Len(x.cand)
      BY <1>4
    <3> HIDE DEF c
    <3>3. QED BY <1>1, <2>10, <2>14, <3>1, <3>2
  <2>16. Covered(r, s, b)
    BY <1>4, <2>9, <2>13, <2>14, <2>15, CoveredOn
  <2>17. Measure(r) < Measure(d)
    BY <1>1, <2>14, <2>15, MeasureShrinks
  <2>18. QED BY <2>13, <2>16, <2>17 DEF Goes
<1>8. QED BY <1>6, <1>7

LEMMA TurnGoes ==
  ASSUME NEW s \in Stream, NEW T \in Seq(FrameSet), NEW b \in Int,
         NEW d, Cut(d, s, T), Covered(d, s, b), ~ Waits(d)
  PROVE  Goes(Turn(d, Len(s)), d, s, T, b)
<1>1. d.state \in {"search", "aa", "pdu"}
  BY DEF Cut, Placed, Decs
<1>2. QED BY <1>1, SearchTurn, AaTurn, HeaderTurn, FrameTurn

LEMMA DrainIs ==
  ASSUME NEW d \in Decs, NEW n
  PROVE  \E g : /\ g[0] = d /\ Drained(d, n) = g[MaxTurns(d)]
                /\ \A k \in 1..MaxTurns(d) : g[k] = Advanced(g[k - 1], n)
<1> DEFINE l == MaxTurns(d)
           Is(g) == g = [k \in 0..l |-> IF k = 0 THEN d ELSE Advanced(g[k - 1], n)]
           Upto(m, g) == g = [k \in 0..m |-> IF k = 0 THEN d ELSE Advanced(g[k - 1], n)]
           P == {m \in Nat : \E g : Upto(m, g)}
<1>1. l \in Nat
  BY DEF MaxTurns, Decs, Stream
<1>2. 0 \in P
  <2>1. Upto(0, [k \in 0..0 |-> d])
    OBVIOUS
  <2>2. QED BY <2>1
<1>3. ASSUME NEW m \in Nat, m \in P PROVE m + 1 \in P
  <2>1. PICK g : Upto(m, g)
    BY <1>3
  <2> DEFINE h == [k \in 0..(m + 1) |-> IF k = m + 1 THEN Advanced(g[m], n) ELSE g[k]]
             v == [k \in 0..(m + 1) |-> IF k = 0 THEN d ELSE Advanced(h[k - 1], n)]
  <2>2. ASSUME NEW k \in 0..(m + 1) PROVE h[k] = v[k]
    <3>1. CASE k = m + 1
      <4>1. k - 1 = m /\ m \in 0..(m + 1) /\ m # m + 1 /\ k # 0
        BY <3>1
      <4>2. h[k] = Advanced(g[m], n) /\ h[m] = g[m]
        BY <3>1, <4>1
      <4>3. v[k] = Advanced(h[m], n)
        <5> HIDE DEF h
        <5>1. QED BY <4>1
      <4>4. QED BY <4>2, <4>3
    <3>2. CASE k # m + 1 /\ k # 0
      <4>1. k \in 0..m /\ k - 1 \in 0..(m + 1) /\ k - 1 # m + 1
        BY <3>2
      <4>2. h[k] = g[k] /\ h[k - 1] = g[k - 1]
        BY <3>2, <4>1
      <4>3. g[k] = Advanced(g[k - 1], n)
        BY <2>1, <3>2, <4>1
      <4>4. v[k] = Advanced(h[k - 1], n)
        <5> HIDE DEF h
        <5>1. QED BY <3>2
      <4>5. QED BY <4>2, <4>3, <4>4
    <3>3. CASE k # m + 1 /\ k = 0
      <4>1. h[k] = g[k] /\ k \in 0..m
        BY <3>3
      <4>2. QED BY <2>1, <3>3, <4>1
    <3>4. QED BY <3>1, <3>2, <3>3
  <2>3. h = [k \in 0..(m + 1) |-> h[k]] /\ v = [k \in 0..(m + 1) |-> v[k]]
    OBVIOUS
  <2>4. Upto(m + 1, h)
    <3>1. h = v
      <4> HIDE DEF h, v
      <4>1. QED BY <2>2, <2>3
    <3>2. QED BY <3>1
  <2> HIDE DEF h, Upto
  <2>5. \E g1 : Upto(m + 1, g1)
    BY <2>4
  <2>6. QED BY <2>5
<1>4. Nat \subseteq P
  <2> HIDE DEF P
  <2>1. QED BY <1>2, <1>3, Induct
<1>5. PICK g : Upto(l, g)
  <2> HIDE DEF Upto, l
  <2>1. QED BY <1>1, <1>4
<1>6. Is(CHOOSE h : Is(h))
  <2>1. Is(g)
    BY <1>5
  <2>2. QED BY <2>1, Zenon
<1>7. PICK h : h = (CHOOSE x : Is(x))
  OBVIOUS
<1>8. Drained(d, n) = h[l]
  BY <1>7 DEF Drained
<1>9. Is(h)
  <2> HIDE DEF Is
  <2>1. QED BY <1>6, <1>7
<1> HIDE DEF l
<1>10. h[0] = d /\ \A k \in 1..l : h[k] = Advanced(h[k - 1], n)
  BY <1>1, <1>9
<1>11. QED BY <1>8, <1>10 DEF l

\* ble_drain: MaxTurns are enough, and what it returns needs more bits.
LEMMA DrainKeeps ==
  ASSUME NEW s \in Stream, NEW T \in Seq(FrameSet), NEW b \in Int,
         NEW d, Cut(d, s, T), Covered(d, s, b)
  PROVE  LET r == Drained(d, Len(s))
         IN  Cut(r, s, T) /\ Covered(r, s, b) /\ Waits(r)
<1>1. d \in Decs /\ Len(d.cand) \in Nat
  BY DEF Cut, Placed, Decs, Stream
<1>2. PICK g : /\ g[0] = d /\ Drained(d, Len(s)) = g[MaxTurns(d)]
               /\ \A k \in 1..MaxTurns(d) : g[k] = Advanced(g[k - 1], Len(s))
  BY <1>1, DrainIs
<1>3. PICK l \in Nat : l = MaxTurns(d)
  BY <1>1 DEF MaxTurns
<1>4. \A x : Cut(x, s, T) => Measure(x) \in Nat
  <2> SUFFICES ASSUME NEW x, Cut(x, s, T) PROVE Measure(x) \in Nat
    OBVIOUS
  <2>1. Len(x.cand) \in Nat
    BY DEF Cut, Placed, Decs, Stream
  <2>2. Rank(x) \in 0..3
    BY DEF Rank
  <2>3. QED BY <2>1, <2>2 DEF Measure
<1>5. Measure(d) \in Nat /\ Measure(d) < l
  <2>1. Rank(d) \in 0..3
    BY DEF Rank
  <2>2. Measure(d) = 4 * Len(d.cand) + Rank(d) /\ l = 4 * Len(d.cand) + 4
    BY <1>3 DEF Measure, MaxTurns
  <2>3. /\ 4 * Len(d.cand) + Rank(d) \in Nat
        /\ 4 * Len(d.cand) + Rank(d) < 4 * Len(d.cand) + 4
    BY <1>1, <2>1, RankSpan
  <2>4. QED BY <2>2, <2>3
<1> DEFINE Fine(x, k) == /\ Cut(x, s, T) /\ Covered(x, s, b)
                         /\ Waits(x) \/ Measure(x) + k <= Measure(d)
           P == {k \in Nat : k <= l => Fine(g[k], k)}
<1>6. 0 \in P
  BY <1>2, <1>5
<1>7. ASSUME NEW k \in Nat, k \in P PROVE k + 1 \in P
  <2> SUFFICES ASSUME k + 1 <= l PROVE Fine(g[k + 1], k + 1)
    OBVIOUS
  <2>1. Fine(g[k], k) /\ k + 1 \in 1..l /\ (k + 1) - 1 = k
    BY <1>7
  <2>2. g[k + 1] = Advanced(g[k], Len(s))
    BY <1>2, <1>3, <2>1
  <2>3. CASE Waits(g[k])
    <3>1. g[k + 1] = g[k]
      BY <2>2, <2>3 DEF Advanced
    <3>2. QED BY <2>1, <2>3, <3>1
  <2>4. CASE ~ Waits(g[k])
    <3>1. PICK x : x = g[k]
      OBVIOUS
    <3>2. PICK y : y = g[k + 1]
      OBVIOUS
    <3>3. Cut(x, s, T) /\ Covered(x, s, b) /\ Measure(x) + k <= Measure(d) /\ ~ Waits(x)
      BY <2>1, <2>4, <3>1
    <3>4. y = Turn(x, Len(s))
      BY <2>2, <2>4, <3>1, <3>2 DEF Advanced
    <3>5. Cut(y, s, T) /\ Covered(y, s, b) /\ Measure(y) < Measure(x)
      BY <3>3, <3>4, TurnGoes DEF Goes
    <3>6. Measure(y) + (k + 1) <= Measure(d)
      <4>1. Measure(x) \in Nat /\ Measure(y) \in Nat
        BY <1>4, <3>3, <3>5
      <4>2. QED BY <1>5, <3>3, <3>5, <4>1
    <3>7. QED BY <3>2, <3>5, <3>6
  <2>5. QED BY <2>3, <2>4
<1>8. Nat \subseteq P
  <2> HIDE DEF P
  <2>1. QED BY <1>6, <1>7, Induct
<1>9. Fine(g[l], l)
  <2> HIDE DEF Fine
  <2>1. l \in P
    BY <1>8
  <2>2. QED BY <2>1
<1>10. Waits(g[l])
  <2>1. ~ (Measure(g[l]) + l <= Measure(d))
    <3>1. Measure(g[l]) \in Nat
      BY <1>4, <1>9
    <3>2. QED BY <1>5, <3>1
  <2>2. QED BY <1>9, <2>1
<1>11. QED BY <1>2, <1>3, <1>9, <1>10

\* Where more bits are needed there is no candidate yet, and the buffer has room.
LEMMA WaitsFor ==
  ASSUME NEW d \in Decs, Staged(d), Waits(d)
  PROVE  /\ ~ Rejected(d.cand) /\ ~ Complete(d.cand)
         /\ Len(d.cand) < CandidateMax
         /\ d.state = "search" => Len(d.cand) < PreambleBits
<1> DEFINE c == d.cand
<1>1. c \in Stream /\ Len(c) \in Nat /\ d.target \in Nat /\ d.state \in {"search", "aa", "pdu"}
  BY DEF Decs, Stream
<1>2. CandidateMax \in Nat /\ AaEnd + LlHeaderBits < CandidateMax
  BY FramingBounds DEF CandidateMax
<1>3. CASE d.state = "search"
  <2>1. Len(c) < PreambleBits
    BY <1>3, WaitsIs
  <2> HIDE DEF c
  <2>2. /\ ~ (Len(c) >= PreambleBits) /\ ~ (Len(c) >= AaEnd)
        /\ ~ (Len(c) >= AaEnd + LlHeaderBits) /\ Len(c) < CandidateMax
    BY <1>1, <1>2, <2>1, FramingBounds
  <2>3. QED BY <1>3, <2>1, <2>2 DEF Rejected, Complete, c
<1>4. CASE d.state = "aa"
  <2>1. Len(c) < AaEnd /\ PreambleAt(c, 0)
    BY <1>4, WaitsIs DEF Staged
  <2> HIDE DEF c
  <2>2. /\ ~ (Len(c) >= AaEnd)
        /\ ~ (Len(c) >= AaEnd + LlHeaderBits) /\ Len(c) < CandidateMax
    BY <1>1, <1>2, <2>1, FramingBounds
  <2>3. QED BY <1>4, <2>1, <2>2 DEF Rejected, Complete, c
<1>5. CASE d.state = "pdu" /\ d.target = 0
  <2>1. Len(c) < AaEnd + LlHeaderBits /\ PreambleAt(c, 0) /\ Survives(c)
    BY <1>5, WaitsIs DEF Staged
  <2> HIDE DEF c
  <2>2. ~ (Len(c) >= AaEnd + LlHeaderBits) /\ Len(c) < CandidateMax
    BY <1>1, <1>2, <2>1, FramingBounds
  <2>3. QED BY <1>5, <2>1, <2>2 DEF Rejected, Complete, c
<1>6. CASE d.state = "pdu" /\ d.target # 0
  <2>1. /\ Len(c) < AaEnd + d.target /\ PreambleAt(c, 0) /\ Survives(c)
        /\ PlausibleHeader(c) /\ d.target = TargetBits(c) /\ AaEnd + LlHeaderBits <= Len(c)
    BY <1>6, WaitsIs DEF Staged
  <2>2. AaEnd + TargetBits(c) < CandidateMax
    <3>1. Begins(c, c)
      BY <1>1 DEF Begins
    <3>2. QED BY <2>1, <3>1, HeaderAgrees
  <2> HIDE DEF c
  <2>3. ~ (Len(c) >= AaEnd + TargetBits(c)) /\ Len(c) < CandidateMax
    BY <1>1, <1>2, <2>1, <2>2, FramingBounds
  <2>4. QED BY <1>6, <2>1, <2>3 DEF Rejected, Complete, c
<1>7. QED BY <1>1, <1>3, <1>4, <1>5, <1>6

LEMMA CutIsParse ==
  ASSUME NEW s \in Stream, NEW T, NEW d, Cut(d, s, T), Waits(d), d.lost = 0
  PROVE  T \o d.pending = Parse(s)
<1>1. d \in Decs /\ Staged(d) /\ Len(s) \in Nat /\ Len(d.cand) \in Nat /\ Len(d.cand) <= Len(s)
  BY DEF Cut, Placed, Decs, Stream
<1>2. PICK q \in Nat : q = Len(s) - Len(d.cand)
  <2>1. Len(s) - Len(d.cand) \in Nat
    BY <1>1
  <2>2. QED BY <2>1
<1>3. q \in 0..Len(s) /\ q + 0 = q
  BY <1>1, <1>2
<1>4. s \in Ext(s)
  BY <1>1 DEF Ext
<1>5. On(s, q, T \o d.pending)
  BY <1>2, <1>3, <1>4 DEF Cut, FollowsFrom
<1>6. Rest(s, q) = d.cand
  BY <1>2 DEF Cut, Placed
<1>7. ~ Rejected(Rest(s, q)) /\ ~ Complete(Rest(s, q))
  BY <1>1, <1>6, WaitsFor
<1>8. QED BY <1>3, <1>5, <1>7, OnLast

\* A bit is added: nothing that was found changes.
Longer(d, x) == [d EXCEPT !.cand = Append(d.cand, x)]

LEMMA BitCuts ==
  ASSUME NEW s \in Stream, NEW T \in Seq(FrameSet), NEW d, Cut(d, s, T), Waits(d),
         NEW x \in {0, 1}, NEW u, u = Append(s, x),
         NEW r, r = Longer(d, x)
  PROVE  /\ u \in Stream /\ Len(u) = Len(s) + 1
         /\ Cut(r, u, T) /\ r.pending = d.pending /\ Len(r.cand) = Len(d.cand) + 1
         /\ r.state = d.state
<1> DEFINE c == d.cand
<1>1. /\ d \in Decs /\ Placed(d, s) /\ Staged(d) /\ Len(s) \in Nat /\ c \in Stream
      /\ Len(c) \in Nat /\ Len(c) <= Len(s)
  BY DEF Cut, Placed, Decs, Stream
<1>2. /\ u \in Stream /\ Len(u) = Len(s) + 1 /\ u[Len(s) + 1] = x
      /\ \A j \in 1..Len(s) : u[j] = s[j]
  BY DEF Stream
<1>3. PICK z : z = Append(c, x)
  OBVIOUS
<1>4. /\ z \in Stream /\ Len(z) = Len(c) + 1 /\ z[Len(c) + 1] = x
      /\ \A j \in 1..Len(c) : z[j] = c[j]
  <2> HIDE DEF c
  <2>1. QED BY <1>1, <1>3 DEF Stream
<1>5. r = [d EXCEPT !.cand = z]
  BY <1>3 DEF Longer
<1>6. /\ r \in Decs /\ r.state = d.state /\ r.cand = z /\ r.target = d.target
      /\ r.aa = d.aa /\ r.pending = d.pending /\ r.lost = d.lost
  <2>1. r \in Decs
    BY <1>1, <1>4, <1>5 DEF Decs
  <2>2. QED BY <1>1, <1>5, <2>1 DEF Decs
<1>7. PICK q \in Nat : q = Len(s) - Len(c)
  <2>1. Len(s) - Len(c) \in Nat
    BY <1>1
  <2>2. QED BY <2>1
<1>8. Len(u) - Len(z) = q /\ Len(z) <= Len(u) /\ q \in 0..Len(u) /\ q \in 0..Len(s)
  <2>1. Len(c) \in Nat /\ Len(c) <= Len(s) /\ Len(s) \in Nat
    BY <1>1
  <2> HIDE DEF c
  <2>2. QED BY <1>2, <1>4, <1>7, <2>1
<1>9. z = Rest(u, q)
  <2>1. /\ Rest(u, q) \in Stream /\ Len(Rest(u, q)) = Len(u) - q
        /\ \A j \in 1..(Len(u) - q) : Rest(u, q)[j] = u[q + j]
    BY <1>2, <1>8, RestIs
  <2>2. /\ c = Rest(s, q) /\ Len(c) = Len(s) - q
        /\ \A j \in 1..(Len(s) - q) : c[j] = s[q + j]
    <3>1. c = Rest(s, q)
      BY <1>1, <1>7 DEF Placed
    <3> HIDE DEF c
    <3>2. QED BY <1>8, <3>1, RestIs
  <2> HIDE DEF c
  <2>3. Len(z) = Len(u) - q
    BY <1>1, <1>2, <1>4, <2>2, <1>7
  <2>4. ASSUME NEW j \in 1..Len(z) PROVE z[j] = Rest(u, q)[j]
    <3>1. Rest(u, q)[j] = u[q + j]
      BY <2>1, <2>3
    <3>2. CASE j \in 1..Len(c)
      <4>1. q + j \in 1..Len(s) /\ j \in 1..(Len(s) - q)
        BY <1>1, <2>2, <3>2
      <4>2. QED BY <1>2, <1>4, <2>2, <3>1, <3>2, <4>1
    <3>3. CASE j \notin 1..Len(c)
      <4>1. j = Len(c) + 1 /\ q + j = Len(s) + 1
        BY <1>1, <1>4, <2>2, <3>3
      <4>2. QED BY <1>2, <1>4, <3>1, <4>1
    <3>4. QED BY <3>2, <3>3
  <2>5. QED BY <1>4, <2>1, <2>3, <2>4, SeqEqual DEF Stream
<1>10. Placed(r, u)
  BY <1>6, <1>8, <1>9 DEF Placed
<1>11. Staged(r)
  <2>1. Begins(c, z)
    BY <1>1, <1>4 DEF Begins
  <2>2. r.state = "search" => r.target = 0 /\ Len(r.cand) <= PreambleBits
    <3> SUFFICES ASSUME d.state = "search" PROVE d.target = 0 /\ Len(z) <= PreambleBits
      BY <1>6
    <3>1. Len(c) < PreambleBits /\ d.target = 0
      BY <1>1, WaitsIs DEF Staged
    <3> HIDE DEF c
    <3>2. QED BY <1>1, <1>4, <3>1, FramingBounds
  <2>3. r.state # "search" => PreambleBits <= Len(r.cand) /\ PreambleAt(r.cand, 0)
    <3> SUFFICES ASSUME d.state # "search" PROVE PreambleBits <= Len(z) /\ PreambleAt(z, 0)
      BY <1>6
    <3>1. PreambleBits <= Len(c) /\ PreambleAt(c, 0)
      BY <1>1 DEF Staged
    <3> HIDE DEF c
    <3>2. 0 \in Nat /\ 0 + PreambleBits <= Len(c) /\ PreambleBits <= Len(z)
      BY <1>1, <1>4, <3>1, FramingBounds
    <3>3. QED BY <2>1, <3>1, <3>2, PreambleAgrees
  <2>4. r.state = "aa" => r.target = 0
    BY <1>1, <1>6 DEF Staged
  <2>5. ASSUME d.state = "pdu"
        PROVE  /\ AaEnd <= Len(z) /\ Survives(z) /\ d.aa = AaOf(z)
               /\ d.target # 0 =>
                    /\ AaEnd + LlHeaderBits <= Len(z) /\ PlausibleHeader(z)
                    /\ d.target = TargetBits(z)
    <3>1. /\ AaEnd <= Len(c) /\ Survives(c) /\ d.aa = AaOf(c)
          /\ d.target # 0 =>
               /\ AaEnd + LlHeaderBits <= Len(c) /\ PlausibleHeader(c)
               /\ d.target = TargetBits(c)
      BY <1>1, <2>5 DEF Staged
    <3> HIDE DEF c
    <3>2. Survives(z) /\ AaOf(z) = AaOf(c)
      BY <2>1, <3>1, AaAgrees
    <3>3. AaEnd <= Len(z)
      BY <1>1, <1>4, <3>1, FramingBounds
    <3>4. ASSUME d.target # 0
          PROVE  /\ AaEnd + LlHeaderBits <= Len(z) /\ PlausibleHeader(z)
                 /\ d.target = TargetBits(z)
      <4>1. PlausibleHeader(z) /\ TargetBits(z) = TargetBits(c)
        BY <2>1, <3>1, <3>4, HeaderAgrees
      <4>2. AaEnd + LlHeaderBits <= Len(z)
        BY <1>1, <1>4, <3>1, <3>4, FramingBounds
      <4>3. QED BY <3>1, <3>4, <4>1, <4>2
    <3>5. QED BY <3>1, <3>2, <3>3, <3>4
  <2>6. QED BY <1>6, <2>2, <2>3, <2>4, <2>5 DEF Staged
<1>12. FollowsFrom(r, u, T, 0)
  <2> SUFFICES ASSUME r.lost = 0, NEW e \in Ext(u)
               PROVE  On(e, q, T \o r.pending)
    <3>1. Len(u) - Len(r.cand) + 0 = q
      <4>1. q + 0 = q
        OBVIOUS
      <4>2. QED BY <1>6, <1>8, <4>1
    <3>2. QED BY <3>1 DEF FollowsFrom
  <2>1. e \in Ext(s)
    <3>1. /\ e \in Stream /\ Len(e) \in Nat /\ Len(u) <= Len(e)
          /\ \A j \in 1..Len(u) : e[j] = u[j]
      BY DEF Ext, Stream
    <3>2. Len(s) <= Len(e) /\ 1..Len(s) \subseteq 1..Len(u)
      BY <1>1, <1>2, <3>1
    <3>3. \A j \in 1..Len(s) : e[j] = s[j]
      BY <1>2, <3>1, <3>2
    <3>4. QED BY <3>1, <3>2, <3>3 DEF Ext
  <2>2. Len(s) - Len(d.cand) + 0 = q
    <3>1. q + 0 = q
      OBVIOUS
    <3>2. QED BY <1>7, <3>1
  <2>3. QED BY <1>6, <2>1, <2>2 DEF Cut, FollowsFrom
<1>13. QED BY <1>2, <1>4, <1>6, <1>10, <1>11, <1>12 DEF Cut

-----------------------------------------------------------------------------
(* The channel processor *)

TakenSet == [frame : FrameSet, start : Int, end : Nat]

FramesOf(t) == [j \in DOMAIN t |-> t[j].frame]

\* The decoder is cut up to the newest bit, and signal strength is measured from a
\* bit that covers what is queued and whatever the buffer becomes.
FramingInv ==
  /\ bits \in Stream /\ pktStart \in Int /\ taken \in Seq(TakenSet)
  /\ Cut(dec, bits, FramesOf(taken)) /\ Waits(dec)
  /\ IF prev = "searching" THEN dec.state = "search" /\ dec.pending = <<>>
                           ELSE pktStart >= 1 /\ Covered(dec, bits, pktStart)
  /\ WindowCoversPacket

LEMMA FramesOfIs ==
  ASSUME NEW t \in Seq(TakenSet)
  PROVE  /\ FramesOf(t) \in Seq(FrameSet)
         /\ \A x \in TakenSet : FramesOf(Append(t, x)) = Append(FramesOf(t), x.frame)
<1>1. DOMAIN t = 1..Len(t) /\ Len(t) \in Nat /\ \A j \in 1..Len(t) : t[j] \in TakenSet
  OBVIOUS
<1>2. \A j \in 1..Len(t) : t[j].frame \in FrameSet
  BY <1>1 DEF TakenSet
<1>3. FramesOf(t) = [j \in 1..Len(t) |-> t[j].frame]
  BY <1>1 DEF FramesOf
<1>4. FramesOf(t) \in Seq(FrameSet) /\ Len(FramesOf(t)) = Len(t)
  BY <1>1, <1>2, <1>3
<1>5. ASSUME NEW x \in TakenSet
      PROVE  FramesOf(Append(t, x)) = Append(FramesOf(t), x.frame)
  <2> DEFINE a == FramesOf(Append(t, x))
             b == Append(FramesOf(t), x.frame)
  <2>1. /\ Append(t, x) \in Seq(TakenSet) /\ Len(Append(t, x)) = Len(t) + 1
        /\ Append(t, x)[Len(t) + 1] = x /\ \A j \in 1..Len(t) : Append(t, x)[j] = t[j]
    BY <1>1
  <2>2. DOMAIN Append(t, x) = 1..(Len(t) + 1)
    BY <2>1
  <2>3. a = [j \in 1..(Len(t) + 1) |-> Append(t, x)[j].frame]
    BY <2>2 DEF FramesOf
  <2>4. x.frame \in FrameSet
    BY DEF TakenSet
  <2>5. /\ b \in Seq(FrameSet) /\ Len(b) = Len(t) + 1 /\ b[Len(t) + 1] = x.frame
        /\ \A j \in 1..Len(t) : b[j] = t[j].frame
    BY <1>3, <1>4, <2>4
  <2>6. \A j \in 1..(Len(t) + 1) : a[j] = b[j]
    <3> SUFFICES ASSUME NEW j \in 1..(Len(t) + 1) PROVE a[j] = b[j]
      OBVIOUS
    <3>1. a[j] = Append(t, x)[j].frame
      BY <2>3
    <3> HIDE DEF a, b
    <3>2. CASE j = Len(t) + 1
      BY <2>1, <2>5, <3>1, <3>2
    <3>3. CASE j # Len(t) + 1
      <4>1. j \in 1..Len(t)
        BY <1>1, <3>3
      <4>2. QED BY <2>1, <2>5, <3>1, <4>1
    <3>4. QED BY <3>2, <3>3
  <2>7. a \in Seq(FrameSet) /\ Len(a) = Len(t) + 1
    <3>1. \A j \in 1..(Len(t) + 1) : a[j] \in FrameSet
      <4>1. \A j \in 1..(Len(t) + 1) : b[j] \in FrameSet
        BY <2>5
      <4> HIDE DEF a, b
      <4>2. QED BY <2>6, <4>1
    <3>2. Len(t) + 1 \in Nat
      BY <1>1
    <3>3. DOMAIN a = 1..(Len(t) + 1) /\ a = [j \in 1..(Len(t) + 1) |-> a[j]]
      BY <2>3
    <3> HIDE DEF a
    <3>4. QED BY <3>1, <3>2, <3>3
  <2> HIDE DEF a, b
  <2>8. a = b
    BY <2>5, <2>6, <2>7, SeqEqual
  <2>9. QED BY <2>8 DEF a, b
<1>6. QED BY <1>4, <1>5

LEMMA FramingStarts == FramingInit => FramingInv
<1> SUFFICES ASSUME FramingInit PROVE FramingInv
  OBVIOUS
<1>1. /\ bits = <<>> /\ taken = <<>> /\ prev = "searching" /\ pktStart = -1
      /\ dec = [state |-> "search", cand |-> <<>>, aa |-> <<>>, target |-> 0,
                pending |-> <<>>, lost |-> 0]
  BY DEF FramingInit
<1>2. bits \in Stream /\ Len(bits) = 0 /\ taken \in Seq(TakenSet) /\ pktStart \in Int
  BY <1>1 DEF Stream
<1>3. dec \in Decs /\ dec.state = "search" /\ dec.cand = <<>> /\ dec.target = 0
      /\ dec.pending = <<>>
  BY <1>1 DEF Decs, Stream
<1>4. Placed(dec, bits)
  <2>1. Len(dec.cand) = 0 /\ Len(bits) - Len(dec.cand) = 0
    <3>1. Len(dec.cand) = 0
      BY <1>3
    <3>2. QED BY <1>2, <3>1
  <2>2. Rest(bits, 0) = <<>>
    <3>1. Rest(bits, 0) \in Stream /\ Len(Rest(bits, 0)) = 0
      BY <1>2, RestIs
    <3>2. QED BY <3>1 DEF Stream
  <2>3. QED BY <1>2, <1>3, <2>1, <2>2 DEF Placed
<1>5. Staged(dec) /\ Waits(dec)
  <2>1. Len(dec.cand) = 0
    BY <1>3
  <2>2. QED BY <1>3, <2>1, WaitsIs, FramingBounds DEF Staged
<1>6. FollowsFrom(dec, bits, FramesOf(taken), 0)
  <2>1. FramesOf(taken) = <<>>
    <3>1. FramesOf(taken) \in Seq(FrameSet) /\ DOMAIN FramesOf(taken) = {}
      BY <1>1, <1>2, FramesOfIs DEF FramesOf
    <3>2. QED BY <3>1
  <2>2. FramesOf(taken) \o dec.pending = <<>>
    BY <1>3, <2>1
  <2>3. Len(bits) - Len(dec.cand) + 0 = 0
    <3>1. Len(dec.cand) = 0
      BY <1>3
    <3>2. QED BY <1>2, <3>1
  <2>4. \A e \in Ext(bits) : On(e, 0, <<>>)
    BY OnStart DEF Ext
  <2>5. QED BY <2>2, <2>3, <2>4 DEF FollowsFrom
<1>7. WindowCoversPacket
  BY <1>1 DEF WindowCoversPacket
<1>8. QED BY <1>1, <1>2, <1>3, <1>4, <1>5, <1>6, <1>7 DEF FramingInv, Cut

LEMMA BitKeeps ==
  ASSUME FramingInv, NEW x \in {0, 1}, PushBit(x)
  PROVE  FramingInv'
<1> DEFINE n == Len(bits) + 1
           T == FramesOf(taken)
<1>1. /\ bits \in Stream /\ pktStart \in Int /\ taken \in Seq(TakenSet)
      /\ Cut(dec, bits, T) /\ Waits(dec) /\ Len(bits) \in Nat /\ T \in Seq(FrameSet)
      /\ dec \in Decs /\ Staged(dec) /\ Placed(dec, bits) /\ Len(dec.cand) \in Nat
      /\ Len(dec.cand) <= Len(bits)
  BY FramesOfIs DEF FramingInv, Cut, Placed, Decs, Stream
<1>2. PICK u : u = Append(bits, x)
  OBVIOUS
<1>3. PICK d : d = Longer(dec, x)
  OBVIOUS
<1>4. /\ u \in Stream /\ Len(u) = n /\ Cut(d, u, T) /\ d.pending = dec.pending
      /\ Len(d.cand) = Len(dec.cand) + 1 /\ d.state = dec.state
  <2> HIDE DEF T
  <2>1. u \in Stream /\ Len(u) = Len(bits) + 1
    BY <1>1, <1>2 DEF Stream
  <2>2. Cut(d, u, T)
    BY <1>1, <1>2, <1>3, BitCuts
  <2>3. d.pending = dec.pending /\ d.state = dec.state
    BY <1>1, <1>2, <1>3 DEF Longer, Decs
  <2>4. Len(d.cand) = Len(dec.cand) + 1
    <3>1. d.cand = Append(dec.cand, x) /\ dec.cand \in Stream
      BY <1>1, <1>3 DEF Longer, Decs
    <3>2. QED BY <3>1 DEF Stream
  <2>5. QED BY <2>1, <2>2, <2>3, <2>4
<1>5. PICK b \in Int : b = IF prev = "searching" THEN n ELSE pktStart
  BY <1>1
<1>6. b >= 1 /\ Covered(d, u, b)
  <2>1. CASE prev = "searching"
    <3>1. dec.state = "search" /\ dec.pending = <<>> /\ b = n
      BY <1>5, <2>1 DEF FramingInv
    <3>2. Len(dec.cand) < PreambleBits
      BY <1>1, <3>1, WaitsFor
    <3>3. b <= Len(u) - Len(d.cand) + PreambleBits
      <4>1. b = Len(u) /\ Len(u) \in Nat /\ Len(d.cand) \in Nat
        BY <1>1, <1>4, <3>1
      <4>2. Len(d.cand) <= PreambleBits
        BY <1>1, <1>4, <3>2, FramingBounds
      <4>3. QED BY <4>1, <4>2, FramingBounds
    <3>4. 1..Len(d.pending) = {}
      BY <1>4, <3>1
    <3>5. b >= 1
      BY <1>1, <3>1
    <3>6. QED BY <3>3, <3>4, <3>5 DEF Covered
  <2>2. CASE prev # "searching"
    <3>1. b = pktStart /\ b >= 1 /\ Covered(dec, bits, b)
      BY <1>5, <2>2 DEF FramingInv
    <3>2. b <= Len(u) - Len(d.cand) + PreambleBits
      <4>1. b <= Len(bits) - Len(dec.cand) + PreambleBits
        BY <3>1 DEF Covered
      <4>2. Len(u) = Len(bits) + 1 /\ Len(d.cand) = Len(dec.cand) + 1
        BY <1>4
      <4>3. Len(bits) \in Nat /\ Len(dec.cand) \in Nat
        BY <1>1
      <4>4. Len(u) - Len(d.cand) = Len(bits) - Len(dec.cand)
        BY <4>2, <4>3
      <4>5. QED BY <4>1, <4>4
    <3>3. ASSUME NEW k \in 1..Len(d.pending)
          PROVE  /\ b <= d.pending[k].at + PreambleBits - 1
                 /\ d.pending[k].at + AaEnd + Len(d.pending[k].pdu) - 1 <= Len(u)
      <4>1. /\ b <= d.pending[k].at + PreambleBits - 1
            /\ d.pending[k].at + AaEnd + Len(d.pending[k].pdu) - 1 <= Len(bits)
        BY <1>4, <3>1 DEF Covered
      <4>2. d.pending[k] \in FrameSet
        BY <1>4 DEF Cut, Placed, Decs
      <4>3. d.pending[k].at \in Nat /\ Len(d.pending[k].pdu) \in Nat
        BY <4>2 DEF FrameSet, Stream
      <4>4. Len(u) = Len(bits) + 1 /\ Len(bits) \in Nat /\ AaEnd \in Nat
        BY <1>1, <1>4, FramingBounds
      <4>5. d.pending[k].at + AaEnd + Len(d.pending[k].pdu) - 1 <= Len(bits) + 1
        <5>1. \A y, z, w, v \in Nat : y + z + w - 1 <= v => y + z + w - 1 <= v + 1
          OBVIOUS
        <5>2. QED BY <4>1, <4>3, <4>4, <5>1
      <4>6. QED BY <4>1, <4>4, <4>5
    <3>4. QED BY <3>1, <3>2, <3>3 DEF Covered
  <2>3. QED BY <2>1, <2>2
<1>7. PICK e : e = Drained(d, n)
  OBVIOUS
<1>8. Cut(e, u, T) /\ Covered(e, u, b) /\ Waits(e)
  <2> HIDE DEF T
  <2>1. QED BY <1>1, <1>4, <1>5, <1>6, <1>7, DrainKeeps
<1>9. PICK status : status = IF e.pending # <<>> THEN "valid"
                             ELSE IF e.state = "search" THEN "searching"
                             ELSE "collecting"
  OBVIOUS
<1>10. Pushed(dec, x, n).dec = e /\ Pushed(dec, x, n).status = status
  <2>1. ~ (Len(dec.cand) >= CandidateMax)
    <3>1. Len(dec.cand) < CandidateMax /\ CandidateMax \in Nat
      BY <1>1, WaitsFor, FramingBounds DEF CandidateMax
    <3>2. QED BY <1>1, <3>1
  <2> HIDE DEF n
  <2>2. Pushed(dec, x, n) = [dec |-> e, status |-> status]
    BY <1>3, <1>7, <1>9, <2>1 DEF Pushed, Longer
  <2>3. QED BY <2>2
<1>11. /\ bits' = u /\ prev' = status
       /\ pktStart' = IF prev = "searching" /\ status # "searching" THEN n ELSE pktStart
       /\ IF status = "valid"
          THEN /\ taken' = Append(taken, [frame |-> Head(e.pending), start |-> pktStart',
                                          end |-> n])
               /\ dec' = [e EXCEPT !.pending = Tail(e.pending)]
          ELSE dec' = e /\ taken' = taken
  BY <1>2, <1>10 DEF PushBit, StartAfter
<1>12. pktStart' \in Int /\ (status # "searching" => pktStart' = b)
  BY <1>1, <1>5, <1>11
<1>13. e \in Decs /\ e.pending \in Seq(FrameSet) /\ n \in Nat
  BY <1>1, <1>8 DEF Cut, Placed, Decs
<1> HIDE DEF n, T
<1>14. CASE e.pending = <<>>
  <2>1. status # "valid" /\ (status = "searching" <=> e.state = "search")
    BY <1>9, <1>14
  <2>2. dec' = e /\ taken' = taken /\ bits' = u /\ prev' = status
    BY <1>11, <2>1
  <2>3. Cut(dec', bits', FramesOf(taken')) /\ Waits(dec')
    BY <1>8, <2>2 DEF T
  <2>4. IF prev' = "searching" THEN dec'.state = "search" /\ dec'.pending = <<>>
        ELSE pktStart' >= 1 /\ Covered(dec', bits', pktStart')
    BY <1>6, <1>8, <1>12, <1>14, <2>1, <2>2
  <2>5. WindowCoversPacket'
    BY <2>2 DEF WindowCoversPacket, FramingInv
  <2>6. QED BY <1>1, <1>4, <1>12, <2>2, <2>3, <2>4, <2>5 DEF FramingInv
<1>15. CASE e.pending # <<>>
  <2>1. status = "valid"
    BY <1>9, <1>15
  <2>2. PICK f \in FrameSet : f = Head(e.pending)
    BY <1>13, <1>15, HeadTailProperties
  <2>3. PICK q \in Seq(FrameSet) : q = Tail(e.pending)
    BY <1>13, <1>15, HeadTailProperties
  <2>4. PICK t : t = [frame |-> f, start |-> b, end |-> n]
    OBVIOUS
  <2>5. t \in TakenSet /\ t.frame = f /\ t.start = b /\ t.end = n
    BY <1>13, <2>4 DEF TakenSet
  <2>6. /\ bits' = u /\ prev' = "valid" /\ pktStart' = b
        /\ taken' = Append(taken, t) /\ dec' = [e EXCEPT !.pending = q]
    BY <1>11, <1>12, <2>1, <2>2, <2>3, <2>4
  <2>7. PICK r : r = [e EXCEPT !.pending = q]
    OBVIOUS
  <2>8. /\ r \in Decs /\ r.state = e.state /\ r.cand = e.cand /\ r.target = e.target
        /\ r.aa = e.aa /\ r.pending = q /\ r.lost = e.lost
    BY <1>13, <2>3, <2>7 DEF Decs
  <2>9. FramesOf(taken') = Append(T, f)
    BY <1>1, <2>5, <2>6, FramesOfIs DEF T
  <2>10. Append(T, f) \o q = T \o e.pending
    BY <1>1, <1>13, <1>15, <2>2, <2>3, QueueTakes
  <2>11. Placed(r, u) /\ Staged(r)
    BY <1>8, <2>8 DEF Cut, Placed, Staged
  <2>12. FollowsFrom(r, u, Append(T, f), 0)
    BY <1>8, <2>8, <2>10 DEF Cut, FollowsFrom
  <2>13. Waits(r)
    BY <1>8, <2>8 DEF Waits
  <2>14. Covered(r, u, b)
    <3>1. /\ Len(q) = Len(e.pending) - 1 /\ Len(e.pending) \in Nat
          /\ \A k \in 1..Len(q) : q[k] = e.pending[k + 1]
      BY <1>13, <1>15, <2>3, HeadTailProperties
    <3>2. b <= Len(u) - Len(r.cand) + PreambleBits
      BY <1>8, <2>8 DEF Covered
    <3>3. ASSUME NEW k \in 1..Len(r.pending)
          PROVE  /\ b <= r.pending[k].at + PreambleBits - 1
                 /\ r.pending[k].at + AaEnd + Len(r.pending[k].pdu) - 1 <= Len(u)
      <4>1. k + 1 \in 1..Len(e.pending) /\ r.pending[k] = e.pending[k + 1]
        BY <2>8, <3>1
      <4>2. QED BY <1>8, <4>1 DEF Covered
    <3>4. QED BY <3>2, <3>3 DEF Covered
  <2>15. b <= f.at + PreambleBits - 1 /\ f.at + AaEnd + Len(f.pdu) - 1 <= n
    <3>1. 1 \in 1..Len(e.pending) /\ f = e.pending[1]
      BY <1>13, <1>15, <2>2
    <3>2. QED BY <1>4, <1>8, <3>1 DEF Covered
  <2>16. WindowCoversPacket'
    <3> SUFFICES ASSUME NEW j \in DOMAIN taken'
                 PROVE  /\ 0 < taken'[j].start
                        /\ taken'[j].start <= taken'[j].frame.at + PreambleBits - 1
                        /\ taken'[j].frame.at + AaEnd + Len(taken'[j].frame.pdu) - 1
                             <= taken'[j].end
      BY DEF WindowCoversPacket
    <3>1. /\ DOMAIN taken = 1..Len(taken) /\ Len(taken) \in Nat
          /\ DOMAIN taken' = 1..(Len(taken) + 1) /\ taken'[Len(taken) + 1] = t
          /\ \A i \in 1..Len(taken) : taken'[i] = taken[i]
      BY <1>1, <2>5, <2>6
    <3>2. CASE j = Len(taken) + 1
      <4>1. taken'[j] = t
        BY <3>1, <3>2
      <4>2. 0 < b
        BY <1>6
      <4>3. QED BY <2>5, <2>15, <4>1, <4>2
    <3>3. CASE j # Len(taken) + 1
      <4>1. j \in DOMAIN taken /\ taken'[j] = taken[j]
        BY <3>1, <3>3
      <4>2. QED BY <4>1 DEF FramingInv, WindowCoversPacket
    <3>4. QED BY <3>2, <3>3
  <2>17. taken' \in Seq(TakenSet)
    BY <1>1, <2>5, <2>6
  <2>18. Cut(dec', bits', FramesOf(taken')) /\ Waits(dec')
    BY <2>6, <2>7, <2>9, <2>11, <2>12, <2>13 DEF Cut
  <2>19. pktStart' >= 1 /\ Covered(dec', bits', pktStart')
    BY <1>6, <2>6, <2>7, <2>14
  <2>20. QED BY <1>4, <1>12, <2>6, <2>16, <2>17, <2>18, <2>19 DEF FramingInv
<1>16. QED BY <1>14, <1>15

\* BleReceives: whatever bits a channel carries, and however wide the preamble, the
\* address, the payload and the checksum are, the frames cut out of it are the candidates of the whole
\* stream, in order, unless the queue of frames overflowed, and each is averaged
\* over a window that covers it (ble_drain, ble_channel_processor_process_stream).
THEOREM FramesReceived == FramingSpec => []BleReceives
<1>1. FramingInit => FramingInv
  BY FramingStarts
<1>2. FramingInv /\ [FramingNext]_framingVars => FramingInv'
  <2> SUFFICES ASSUME FramingInv, [FramingNext]_framingVars PROVE FramingInv'
    OBVIOUS
  <2>1. CASE FramingNext
    BY <2>1, BitKeeps DEF FramingNext
  <2>2. CASE UNCHANGED framingVars
    BY <2>2 DEF framingVars, FramingInv, WindowCoversPacket
  <2>3. QED BY <2>1, <2>2
<1>3. FramingInv => BleReceives
  <2> SUFFICES ASSUME FramingInv PROVE BleReceives
    OBVIOUS
  <2>1. FramesAreParse
    <3> SUFFICES ASSUME dec.lost = 0 PROVE FramesOf(taken) \o dec.pending = Parse(bits)
      BY DEF FramesAreParse, FramesOf
    <3>1. bits \in Stream /\ Cut(dec, bits, FramesOf(taken)) /\ Waits(dec)
      BY DEF FramingInv
    <3>2. QED BY <3>1, CutIsParse
  <2>2. QED BY <2>1 DEF BleReceives, FramingInv
<1>4. QED BY <1>1, <1>2, <1>3, PTL DEF FramingSpec
==============================================================================
