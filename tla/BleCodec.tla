------------------------------ MODULE BleCodec -------------------------------
(* The BLE codec (ble_codec.c): whitening, the CRC and the recovery of its    *)
(* initial value, the decoding of a frame, and the information gathered from  *)
(* a device's advertisements (BleAdvInfo), which the registry merges.         *)
(* Words are sets of bit positions.  An advertisement is a sequence of small  *)
(* numbers for its bytes, and a UUID is its bytes: two, Uuid32Bytes or        *)
(* Uuid128Bytes of them.  A long one that ends in 0 stands for one of the     *)
(* Bluetooth base, whose short form is its first two bytes.                   *)
EXTENDS BitVectors, Sequences, SequencesExt

CONSTANTS
  BleSamples,    \* inputs: of kind "crc", a header and an initial value; "ad",
                 \* advertising data; "adv" and "data", what ble_decode_frame
                 \* is given and what its checks find
  Advertised,    \* the advertising data that may be merged
  Uuid32Bytes,   \* bytes of a 32-bit UUID: 4
  Uuid128Bytes,  \* bytes of a 128-bit UUID: 16
  MaxServices,   \* BLE_ADV_MAX_SERVICES
  MaxServices128,\* BLE_ADV_MAX_SERVICES_128
  MaxMerges      \* bound of the model: advertisements merged

ASSUME BleCodecAssumption ==
  /\ {Uuid32Bytes, Uuid128Bytes, MaxServices, MaxServices128, MaxMerges} \subseteq Nat
  /\ 2 < Uuid32Bytes /\ Uuid32Bytes < Uuid128Bytes
  /\ Advertised \subseteq Seq(Nat)
  /\ \A b \in BleSamples : b.kind = "ad" => b.data \in Seq(Nat)

VARIABLES
  bleSample,
  info,     \* ble_adv_info_t of a device
  merged    \* history: the advertisements merged, in order

infoVars == <<info, merged>>

-----------------------------------------------------------------------------
(* Whitening and CRC. *)

\* ble_dewhiten of n bits: adding the same bits again undoes it.
Dewhiten(bits, channel, n) ==
  SymDiff(bits, WhiteningBits(WordOf(channel, 6) \cup {6}, n))

\* ble_crc_calc of n bits of data.
Crc(data, n, init) ==
  LET reg[k \in 0..n] ==
        IF k = 0 THEN init
        ELSE LET r == reg[k - 1]
                 shifted == ShiftUp(r \ {23}, 1)
             IN  IF (23 \in r) # ((k - 1) \in data)
                 THEN SymDiff(shifted, {0, 1, 3, 4, 6, 9, 10})
                 ELSE shifted
  IN  reg[n]

\* ble_crc_tables_init: Gauss-Jordan over GF(2).  The left sides begin as the
\* rows of T, which takes the initial value to the CRC of two bytes of zeros, and
\* end as the identity; the right sides end as the rows of its inverse.
CrcRows ==
  LET columns == {<<k, Crc({}, 16, {k})>> : k \in 0..23}
      start == {[left |-> {c[1] : c \in {d \in columns : r \in d[2]}},
                 right |-> {r}] : r \in 0..23}
      eliminate(rows, c) ==
        LET pivot == CHOOSE p \in rows : c = Min(p.left)
        IN  {IF p = pivot \/ c \notin p.left THEN p
             ELSE [left  |-> SymDiff(p.left, pivot.left),
                   right |-> SymDiff(p.right, pivot.right)] : p \in rows}
  IN  FoldLeft(eliminate, start, [i \in 1..24 |-> i - 1])

\* ble_crc_reverse_init_len2: the initial value under which an empty data PDU
\* (a header alone) has the checksum received.
ReverseInit(header, crc) ==
  LET y == SymDiff(crc, Crc(header, 16, {}))
  IN  UNION {p.left : p \in {q \in CrcRows : Parity(q.right \cap y) = 1}}

-----------------------------------------------------------------------------
(* ble_decode_frame: the type of a frame and how much of each part is taken    *)
(* from n payload bytes.                                                       *)

AddrLen == 6
Capped(n, cap) == IF n < cap THEN n ELSE cap

\* ble_decode_adv_*: a payload too short for its addresses leaves them zero.
AdvParts(type, n) ==
  CASE type \in {"ADV_IND", "ADV_NONCONN_IND", "SCAN_RSP", "ADV_SCAN_IND"} ->
         IF n < AddrLen THEN <<0, 0>> ELSE <<1, Capped(n - AddrLen, 250)>>
    [] type \in {"ADV_DIRECT_IND", "SCAN_REQ"} ->
         IF n < 2 * AddrLen THEN <<0, 0>> ELSE <<2, 0>>
    [] type = "CONNECT_IND" ->
         IF n < 2 * AddrLen THEN <<0, 0>>
         ELSE <<2, Capped(n - 2 * AddrLen, 22)>>
    [] OTHER -> <<0, n>>

\* A frame of raw bytes (CRC included) whose header says length.
DecodeBleFrame(f) ==
  LET inPdu == f.raw - 3 - 2
      n == Capped(Capped(f.length, 256), inPdu)
  IN  IF f.raw < 5 \/ f.raw > 261 THEN [ok |-> FALSE]
      ELSE IF f.kind = "data"
           THEN [ok |-> TRUE, crcOk |-> f.crcOk, parts |-> <<0, n>>]
           ELSE [ok |-> TRUE, crcOk |-> f.crcHolds, parts |-> AdvParts(f.type, n)]

-----------------------------------------------------------------------------
(* Advertising data: ble_adv_parse_info.                                       *)

\* The type and the data bytes of the structure at i.
TypeAt(data, i) == data[i + 2]
BytesAt(data, i) == SubSeq(data, i + 3, i + 1 + data[i + 1])

\* How wide the UUIDs a structure of type t lists are (none if 0), and whether
\* it holds only one (service data).
UuidList(t) ==
  CASE t \in {2, 3, 20} -> [width |-> 2, one |-> FALSE]
    [] t \in {4, 5, 31} -> [width |-> Uuid32Bytes, one |-> FALSE]
    [] t \in {6, 7, 21} -> [width |-> Uuid128Bytes, one |-> FALSE]
    [] t = 22           -> [width |-> 2, one |-> TRUE]
    [] t = 32           -> [width |-> Uuid32Bytes, one |-> TRUE]
    [] t = 33           -> [width |-> Uuid128Bytes, one |-> TRUE]
    [] OTHER            -> [width |-> 0, one |-> FALSE]

Uuids(t, bytes) ==
  LET w == UuidList(t).width
      n == IF w = 0 THEN 0 ELSE Len(bytes) \div w
  IN  [k \in 1..(IF UuidList(t).one THEN Capped(n, 1) ELSE n) |->
         SubSeq(bytes, (k - 1) * w + 1, k * w)]

\* The marks of a device: which kinds of lists, and service data, it was heard
\* to send.
MarkTypes ==
  [incomplete |-> {2, 4, 6}, complete |-> {3, 5, 7},
   solicitation |-> {20, 21, 31}, data |-> {22, 32, 33}]

Marks(t, bytes) ==
  {m \in DOMAIN MarkTypes :
     t \in MarkTypes[m] /\ (m = "data" => Uuids(t, bytes) # <<>>)}

\* The lists of a device and what they have room for.
Capacity ==
  [uuid16 |-> MaxServices, uuid32 |-> MaxServices, uuid128 |-> MaxServices128]

Families == DOMAIN Capacity

NoInfo ==
  [uuids |-> [f \in Families |-> <<>>], total |-> 0, marks |-> {}, flags |-> <<>>]

Kept_Again(list, uuid, cap) ==
  IF Len(list) >= cap THEN list ELSE Append(list, uuid)

\* ble_info_add_uuid16, _uuid32 and _uuid128: a list keeps what comes first, once.
Kept(list, uuid, cap) ==
  IF Contains(list, uuid) \/ Len(list) >= cap THEN list ELSE Append(list, uuid)

\* ble_uuid128_base_alias: a long UUID of the base goes by its short form.
IsBase(uuid) == Len(uuid) = Uuid128Bytes /\ Last(uuid) = 0

Named(uuid) == IF IsBase(uuid) THEN SubSeq(uuid, 1, 2) ELSE uuid

ListOf(uuid) ==
  CASE Len(Named(uuid)) = 2           -> "uuid16"
    [] Len(Named(uuid)) = Uuid32Bytes -> "uuid32"
    [] OTHER                          -> "uuid128"

\* The long ones are counted each time they come, known or not.
AddUuid(i, uuid) ==
  LET f == ListOf(uuid)
  IN  [i EXCEPT !.uuids[f] = Kept(@, Named(uuid), Capacity[f]),
                !.total = IF f = "uuid128" THEN @ + 1 ELSE @]

AddUuids(i, uuids) ==
  LET added[k \in 0..Len(uuids)] ==
        IF k = 0 THEN i ELSE AddUuid(added[k - 1], uuids[k])
  IN  added[Len(uuids)]

\* One structure of type t: its UUIDs, its mark, and a value (the flags stand for
\* all of them: the last structure of an advertisement wins).
Taken(i, t, bytes) ==
  [AddUuids(i, Uuids(t, bytes)) EXCEPT
     !.marks = @ \cup Marks(t, bytes),
     !.flags = IF t = 1 /\ bytes # <<>> THEN <<bytes[1]>> ELSE @]

\* The AD structure whose length byte is at offset o (from 0) ends inside.
Fits(data, o) ==
  /\ o + 1 < Len(data) /\ data[o + 1] # 0
  /\ o + 1 + data[o + 1] <= Len(data)

\* The walk takes one structure at a time, and stays where a length of zero or
\* one that points outside ends it.
Step(data, w) ==
  IF Fits(data, w.at)
  THEN [at   |-> w.at + 1 + data[w.at + 1],
        info |-> Taken(w.info, TypeAt(data, w.at), BytesAt(data, w.at))]
  ELSE w

Walk(data) ==
  LET walk[k \in 0..Len(data)] ==
        IF k = 0 THEN [at |-> 0, info |-> NoInfo] ELSE Step(data, walk[k - 1])
  IN  walk

\* The offsets of the structures, and what they say.
Structures(data) ==
  LET walk == Walk(data)
  IN  {o \in {walk[k].at : k \in 0..Len(data)} : Fits(data, o)}

ParseInfo(data) == Walk(data)[Len(data)].info

\* ble_adv_info_merge: lists grow, marks add up, a value stays once known.
Merged(dst, src) ==
  LET short == AddUuids(dst, src.uuids["uuid16"])
      lists == AddUuids(AddUuids(short, src.uuids["uuid32"]), src.uuids["uuid128"])
  IN  [lists EXCEPT !.total = IF src.total > @ THEN src.total ELSE @,
                    !.marks = @ \cup src.marks,
                    !.flags = IF @ = <<>> THEN src.flags ELSE @]

InfoInit == info = NoInfo /\ merged = <<>>

MergeAdvertisement(data) ==
  /\ Len(merged) < MaxMerges
  /\ info' = Merged(info, ParseInfo(data))
  /\ merged' = Append(merged, data)

InfoNext == \E data \in Advertised : MergeAdvertisement(data)

\* One device's advertisements, and next to them any other data.
InfoSpec ==
  /\ bleSample \in BleSamples /\ InfoInit
  /\ [][InfoNext /\ UNCHANGED bleSample]_<<bleSample, infoVars>>

-----------------------------------------------------------------------------
(* Properties. *)

\* "For a fixed message length crc(M, I) = A(M) ^ T*I with T invertible": the
\* CRCInit recovered from an empty packet is the one its checksum was made with.
InitIsRecovered ==
  bleSample.kind = "crc" =>
    ReverseInit(bleSample.header, Crc(bleSample.header, 16, bleSample.init)) =
      bleSample.init

\* The walk over AD structures never looks behind the data, whatever lengths it
\* claims, and no two structures overlap.
WalkStaysInside ==
  bleSample.kind = "ad" =>
    LET d == bleSample.data
        S == Structures(d)
        span(i) == i..(i + d[i + 1])
    IN  \A i \in S : /\ span(i) \subseteq 0..(Len(d) - 1)
                     /\ \A j \in S \ {i} : span(i) \cap span(j) = {}

\* The UUIDs that advertising data lists, and those heard of one family.
Listed(data) ==
  UNION {ToSet(Uuids(TypeAt(data, o), BytesAt(data, o))) : o \in Structures(data)}

Heard(f) ==
  {Named(u) : u \in {v \in UNION {Listed(merged[k]) : k \in DOMAIN merged} :
                       ListOf(v) = f}}

\* A list holds the elements of X, each once, and all of them unless it is full.
Holds(list, X, cap) ==
  /\ IsInjective(list) /\ ToSet(list) \subseteq X
  /\ Len(list) <= cap
  /\ Len(list) < cap => X \subseteq ToSet(list)

\* The services known of a device are exactly those its advertisements listed,
\* in structures of twelve types, each once, until a list is full: a full
\* list holds some of them, and which ones depends on the order they came in.
ServicesAreUnion ==
  \A f \in Families : Holds(info.uuids[f], Heard(f), Capacity[f])

\* Whatever lengths advertisements claim and however often they come, they add
\* up to one list of services, read from their own bytes.
AdvertisementsMerge == WalkStaysInside /\ ServicesAreUnion

\* "Keep the max total so the +N more hint is stable": hearing an advertisement
\* again does not change the total.  It does: the merge adds every stored
\* 128-bit UUID once more, and ble_info_add_uuid128 counts it before it looks
\* whether it is known.
HintIsStable ==
  [][merged' # merged /\ Last(merged') \in ToSet(merged)
       => info'.total = info.total]_infoVars
=============================================================================
