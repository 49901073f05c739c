---------------------------- MODULE BredrVerdicts -----------------------------
(* What the clock recovery (bredr_clock_recovery.c) concludes from a packet    *)
(* about one candidate clock: the checks behind the verdicts of BredrLink.     *)
(* A packet is what the recovery reads of it at that clock: its type, LT_ADDR, *)
(* slot and flags, the payload bits captured, the length its payload header    *)
(* gives, and whether the error correction and the checksum hold; "own" tells  *)
(* packets the connection really sent at that clock.                           *)
EXTENDS BredrCodec

CONSTANTS
  Packets,      \* the packets that may be read
  DhBufferBytes,\* the local array DH payloads are checked in (300)
  MaxChecked    \* bound of the model: packets checked

\* A packet the recovery may read.
VerdictPackets ==
  [own : BOOLEAN, type : 0..15, lt : Nat, peripheral : BOOLEAN, flags : BOOLEAN,
   size : Nat, length : Nat, fecOk : BOOLEAN, crcOk : BOOLEAN]

VARIABLES
  masks,        \* recovery_esco_lt_mask and recovery_acl_lt_mask of the candidate
  checked,      \* history: the packet read last, with its verdict
  count         \* history: how many

verdictVars == <<masks, checked, count>>

Nothing == -1

\* decode_acl_payload_length: payload bytes with header and checksum, of size
\* bits; the two coded headers it decodes are 24 and 12 bits long.
AclLength(p, size, fec, header) ==
  LET need == IF fec THEN 15 * header ELSE 8 * header
  IN  IF size < need \/ (fec /\ Decoded23(12 * header) < 0)
      THEN Nothing ELSE p.length + header + 2

MaxDm(type) == CASE type = 8 -> 12 [] type = 3 -> 20 [] type = 10 -> 125
                 [] type = 14 -> 228
MaxDh(type) == CASE type = 4 -> 30 [] type = 11 -> 187 [] type = 15 -> 343

Judged(crcOk) == IF crcOk THEN 10 ELSE 2

\* verify_fhs_payload tries the checksum under every clock of the inquiry too.
VerifyFhs(p) ==
  IF p.size < 240 THEN {1}
  ELSE IF p.fecOk /\ p.crcOk THEN {1000} ELSE {0}

VerifyDm(p) ==
  LET size == IF p.type = 8 THEN p.size - 80 ELSE p.size
      bytes == AclLength(p, size, TRUE, IF p.type \in {3, 8} THEN 1 ELSE 2)
      coded == (8 * bytes * 15) \div 10
  IN  IF bytes = Nothing THEN {0}
      ELSE IF bytes > MaxDm(p.type) \/ 8 * bytes > size \/ coded > size THEN {1}
      ELSE IF Decoded23(coded) < 0 \/ ~p.fecOk THEN {0}
      ELSE {Judged(p.crcOk)}

\* The checksum of a payload longer than the array is computed over whatever
\* lies behind it.
VerifyDh_SizeUnchecked(p) ==
  LET bytes == AclLength(p, p.size, FALSE, IF p.type = 4 THEN 1 ELSE 2)
  IN  IF bytes = Nothing THEN {0}
      ELSE IF bytes > MaxDh(p.type) THEN {1}
      ELSE IF bytes > DhBufferBytes THEN {2, 10}
      ELSE {Judged(p.crcOk)}

VerifyDh(p) ==
  LET bytes == AclLength(p, p.size, FALSE, IF p.type = 4 THEN 1 ELSE 2)
  IN  IF bytes = Nothing THEN {0}
      ELSE IF bytes > MaxDh(p.type) \/ 8 * bytes > p.size THEN {1}
      ELSE IF bytes > DhBufferBytes THEN {2, 10}
      ELSE {Judged(p.crcOk)}

\* verify_ev4_payload, block by block; payload_length starts at 1 and the loop
\* that would count it up needs it to be beyond 2.  An uncorrectable block
\* counts against the candidate among the first three only.
VerifyEv4(p) ==
  IF p.size >= 15 /\ ~p.fecOk THEN {0, 1}
  ELSE IF p.size < 1470 THEN {1} ELSE {2}

\* verify_ev3_payload and verify_ev5_payload: every length is tried; the first
\* byte of the payload stands for each byte.
VerifyEv(p) == IF p.size >= 32 THEN {1, 2, 10} ELSE {1}

\* verify_hv_payload; only HV1 gets this far.
VerifyHv(p) == IF p.size < 240 THEN {1} ELSE {2}

Verified(p) ==
  CASE p.type = 2 -> VerifyFhs(p)
    [] p.type \in {3, 8, 10, 14} -> VerifyDm(p)
    [] p.type \in {4, 11, 15} -> VerifyDh(p)
    [] p.type \in {7, 13} -> VerifyEv(p)
    [] p.type = 12 -> VerifyEv4(p)
    [] p.type = 5 -> VerifyHv(p)
    [] OTHER -> {1}

\* verify_payload_crc: only some types may speak against a candidate, and EV3
\* and EV5 may not speak for it.
Weighed(p, v) ==
  IF v = 0 /\ p.type \notin {2, 3, 5} THEN 1
  ELSE IF v > 1 /\ p.type \in {7, 13} THEN 1
  ELSE v

PayloadVerdicts(p) ==
  IF p.size = 0 THEN {1} ELSE {Weighed(p, v) : v \in Verified(p)}

\* sanity_check_header: what the peripheral never sends, and SCO flags.
Sane(p) ==
  /\ p.peripheral => p.lt # 0 /\ p.type \notin {1, 2}
  /\ p.type \in {5, 6, 7} => ~p.flags

\* What a connection may send: the slot rules of sanity_check_header hold of it,
\* and HV1 and HV2 have no flags.  Type 7 is EV3 as well as HV3 ("HV3 / EV3"),
\* and the flags of an EV3 packet mean something.
MaySend(p) ==
  /\ p.peripheral => p.lt # 0 /\ p.type \notin {1, 2}
  /\ p.type \in {5, 6} => ~p.flags

\* Nothing is assumed of how a packet fared on the air after its header.
ASSUME BredrVerdictsAssumption ==
  /\ Packets \subseteq VerdictPackets
  /\ \A p \in Packets : p.own => MaySend(p)
  /\ {DhBufferBytes, MaxChecked} \subseteq Nat

Esco == {12, 13}
AclData == {3, 4, 8, 10, 11, 14, 15}

LinkFamily(p) == IF p.type \in Esco THEN "esco" ELSE "acl"
Opposite(family) == IF family = "esco" THEN "acl" ELSE "esco"

\* apply_esco_lt_addr_rule looks at confirmed packets of either family.
Ruled(p, v) == v = 10 /\ p.lt # 0 /\ p.type \in Esco \cup AclData

FinalVerdict(p, v) ==
  IF ~Sane(p) \/ (Ruled(p, v) /\ p.lt \in masks[Opposite(LinkFamily(p))])
  THEN -1 ELSE v

NextMasks(p, v) ==
  IF Sane(p) /\ Ruled(p, v) /\ FinalVerdict(p, v) = v
  THEN [masks EXCEPT ![LinkFamily(p)] = @ \cup {p.lt}]
  ELSE masks

VerdictInit ==
  /\ masks = [f \in {"esco", "acl"} |-> {}]
  /\ checked = <<>>
  /\ count = 0

\* The candidate's turn in solve_uap_clock_candidates: a pruned one has no more.
CheckPacket(p) ==
  /\ count < MaxChecked
  /\ \A c \in {checked[k] : k \in DOMAIN checked} : c.verdict > 0
  /\ \E v \in PayloadVerdicts(p) :
       /\ masks' = NextMasks(p, v)
       /\ checked' = <<[packet |-> p, verdict |-> FinalVerdict(p, v)]>>
  /\ count' = count + 1

VerdictNext == \E p \in Packets : CheckPacket(p)

VerdictSpec == VerdictInit /\ [][VerdictNext]_verdictVars

-----------------------------------------------------------------------------
(* Properties. *)

\* The payload bits a packet's verdict is about, checksum included.
NeededBits(p) ==
  CASE p.type = 2 -> 240
    [] p.type = 4 -> 8 * (p.length + 3)
    [] p.type \in {11, 15} -> 8 * (p.length + 4)
    [] p.type = 3 -> 15 * ((8 * (p.length + 3) + 9) \div 10)
    [] p.type \in {10, 14} -> 15 * ((8 * (p.length + 4) + 9) \div 10)
    [] p.type = 8 -> 80 + 15 * ((8 * (p.length + 3) + 9) \div 10)
    [] p.type = 12 -> 15 * ((8 * (p.length + 2) + 9) \div 10)
    [] OTHER -> 0

CheckedPackets == {checked[k] : k \in DOMAIN checked}

\* A candidate is only confirmed by a packet of which every bit its checksum
\* covers was captured.
ConfirmedIsWhole ==
  \A c \in CheckedPackets :
    c.verdict >= 10 => c.packet.size >= NeededBits(c.packet)

\* What removes the clock it was sent at: a DM1 packet, which TruthIsConfirmed
\* is about; an FHS packet spoiled on the air, or of which no clock makes the
\* checksum hold; and an EV3 packet with flags, read as HV3.
SpeaksAgainst(p) ==
  \/ p.type = 3
  \/ p.type = 2 /\ ~(p.fecOk /\ p.crcOk)
  \/ p.type = 7 /\ p.flags

\* The true clock survives whatever else its connection sends, however the
\* capture was cut, whether or not the payload was spoiled, and whether or not it
\* is encrypted ("Encrypted (CRC-mismatch) payload must not prune candidates",
\* test_recovery_btbb_parity.c:671), in whatever order the packets come.
TruthSurvives ==
  \A c \in CheckedPackets :
    c.packet.own /\ ~SpeaksAgainst(c.packet) => c.verdict > 0

\* The clock recovery confirms on whole packets only, and the packets of the
\* connection that speak against the clock they were sent at are three: DM1,
\* a spoiled FHS, and an EV3 with flags.
VerdictsAreSound == ConfirmedIsWhole /\ TruthSurvives

\* "Confirm via each ACL/FHS payload type" (test_recovery_btbb_parity.c:663,
\* with DM1, DM3, DM5, DH3, DH5, FHS, DV and EV4): a packet of the connection
\* that was captured whole and whose checksum holds confirms the true clock.
TruthIsConfirmed ==
  \A c \in CheckedPackets :
    LET p == c.packet
    IN  p.own /\ p.crcOk /\ p.size >= NeededBits(p)
          /\ p.type \in {3, 10, 14, 11, 15, 2, 8, 12}
        => c.verdict >= 10
=============================================================================
