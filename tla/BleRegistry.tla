----------------------------- MODULE BleRegistry -----------------------------
(* The tables of the BLE registry (ble_registry.c): the connections, one per  *)
(* access address, with the recovery of their CRCInit; the devices that       *)
(* advertised; and the tally of addresses seen too seldom to earn a slot.     *)
(*                                                                            *)
(* For a fixed PDU the CRC is a bijection between CRCInit and checksum, so    *)
(* what a data frame tells is one value: the CRCInit under which it verifies  *)
(* ("init").  A frame damaged by noise verifies under another one.            *)
(* The two LRU clocks only order rows: conns and pending are kept in that     *)
(* order, the row used last at the end.  Wall-clock times, names and the      *)
(* advertised data (BleAdvInfo) are left out; memory does not run out.        *)
EXTENDS FirstSightTally, Functions, FiniteSets

CONSTANTS
  Aas,           \* access addresses of data channels
  Addrs,         \* device addresses
  Inits,         \* CRCInit values
  ConnsMax,      \* BLE_REGISTRY_CONNS_MAX
  PendingCap,    \* BLE_REGISTRY_PENDING_CAP
  Threshold,     \* BLE_REGISTRY_PROMOTE_THRESHOLD
  MaxCandidates, \* BLE_REGISTRY_MAX_CANDIDATES
  BleEvents,     \* the events that may be submitted
  MaxBleEvents   \* bound of the model: events submitted

ASSUME BleRegistryAssumption ==
  /\ {ConnsMax, PendingCap, Threshold, MaxCandidates} \subseteq Nat \ {0}
  /\ MaxBleEvents \in Nat
  /\ \A e \in BleEvents :
       /\ e.kind \in {"data", "connect"} => e.aa \in Aas /\ e.init \in Inits
       /\ e.kind \in {"adv", "connect"} => e.addr \in Addrs
       /\ e.kind = "connect" => e.initiator \in Addrs

VARIABLES
  conns, devices, pending, nextId, enforce,
  emitted,            \* ble_frames_emitted
  surface,            \* what the last ble_registry_submit returned
  heardBle            \* history, see Heard

bleVars == <<conns, devices, pending, nextId, enforce, emitted, surface,
             heardBle>>

None == 0

\* History: who proposed which CRCInit for an address since it has its row, and
\* whether another frame verified under it; and for an address without a row
\* the frames it was heard in while fewer than PendingCap others came between
\* two of them, with those others.
NothingHeard == [proposed |-> {}, verified |-> {}, frames |-> 0, others |-> {}]

BleInit ==
  /\ conns = <<>>
  /\ devices = <<>>
  /\ pending = <<>>
  /\ nextId = 1
  /\ enforce \in BOOLEAN
  /\ emitted = 0
  /\ surface = FALSE
  /\ heardBle = [aa \in Aas |-> NothingHeard]

-----------------------------------------------------------------------------
(* Connections.  t is a record of the tables: conns, devices, pending, nextId. *)

Tables == [conns |-> conns, devices |-> devices, pending |-> pending,
           nextId |-> nextId]

RowOf(cs, aa) == {i \in DOMAIN cs : cs[i].aa = aa}
HasConn(cs, aa) == RowOf(cs, aa) # {}
IndexOf(cs, aa) == CHOOSE i \in RowOf(cs, aa) : TRUE
ConnOf(cs, aa) == cs[IndexOf(cs, aa)]

\* The row is now the one used last.
Touched(cs, c) == Append(RemoveAt(cs, IndexOf(cs, c.aa)), c)

Confirmed(c) == c.state = "confirmed"

\* Without candidates before with, then few packets before many, then old
\* before new; a confirmed connection only when there is no other.
Weaker(cs, i, j) ==
  LET hasCand(k) == Len(cs[k].candidates) > 0 IN
  IF hasCand(i) # hasCand(j) THEN hasCand(j)
  ELSE IF cs[i].seen # cs[j].seen THEN cs[i].seen < cs[j].seen
  ELSE i < j

\* Mutant: the row used last goes, proven or not.
Victim_OldestOfAll(cs) == 1

Victim(cs) ==
  LET open == {i \in DOMAIN cs : ~Confirmed(cs[i])} IN
  IF open = {} THEN 1 ELSE CHOOSE i \in open : \A j \in open \ {i} : Weaker(cs, i, j)

NewConn(aa, id) ==
  [aa |-> aa, id |-> id, state |-> "collecting", init |-> None,
   candidates |-> <<>>, seen |-> 0,
   central |-> None, peripheral |-> None, rssi |-> FALSE]

Created(t, aa) ==
  LET kept == IF Len(t.conns) < ConnsMax THEN t.conns
              ELSE RemoveAt(t.conns, Victim(t.conns)) IN
  [t EXCEPT !.conns = Append(kept, NewConn(aa, t.nextId)), !.nextId = @ + 1]

\* conn_acquire: the table grows a row when a CONNECT_IND forces it, or when
\* the tally reaches the threshold.  (Mutant: a forced row stays tallied.)
Acquired_StillTallied(t, aa, force) ==
  IF HasConn(t.conns, aa) THEN t
  ELSE LET ps == IF force THEN t.pending ELSE Bumped(t.pending, aa, PendingCap) IN
       IF force \/ CountOf(ps, aa) >= Threshold
       THEN Created([t EXCEPT !.pending = IF force THEN ps ELSE Untallied(ps, aa)], aa)
       ELSE [t EXCEPT !.pending = ps]

Acquired(t, aa, force) ==
  IF HasConn(t.conns, aa) THEN t
  ELSE LET ps == IF force THEN t.pending ELSE Bumped(t.pending, aa, PendingCap) IN
       IF force \/ CountOf(ps, aa) >= Threshold
       THEN Created([t EXCEPT !.pending = Untallied(ps, aa)], aa)
       ELSE [t EXCEPT !.pending = ps]

-----------------------------------------------------------------------------
(* Recovery of the CRCInit.                                                  *)

WithCandidate(c, init) ==
  IF Contains(c.candidates, init) THEN c
  ELSE [c EXCEPT !.candidates =
          Append(IF Len(@) < MaxCandidates THEN @ ELSE Tail(@), init)]

Confirm(c, init) ==
  [c EXCEPT !.state = "confirmed", !.init = init, !.candidates = <<>>]

\* An empty PDU (two bytes of header) proposes; any other must verify.
\* Mutant: an empty PDU verifies the candidate an empty PDU proposed.
GateVerifies_AlsoEmpty(c, e) ==
  IF Confirmed(c) THEN e.init = c.init ELSE Contains(c.candidates, e.init)

GateVerifies(c, e) ==
  IF Confirmed(c) THEN e.init = c.init
  ELSE ~e.empty /\ Contains(c.candidates, e.init)

Gated(c, e) ==
  IF GateVerifies(c, e)
  THEN [(IF Confirmed(c) THEN c ELSE Confirm(c, e.init)) EXCEPT
          !.seen = @ + 1]
  ELSE [(IF ~Confirmed(c) /\ e.empty THEN WithCandidate(c, e.init) ELSE c) EXCEPT
          !.seen = @ + 1]

-----------------------------------------------------------------------------
(* Devices.                                                                  *)

DeviceRows(ds, addr) == {i \in DOMAIN ds : ds[i].addr = addr}
DeviceId(ds, addr) == ds[CHOOSE i \in DeviceRows(ds, addr) : TRUE].id

WithDevice(t, addr) ==
  IF DeviceRows(t.devices, addr) # {} THEN t
  ELSE [t EXCEPT !.devices =
                   Append(@, [addr |-> addr, id |-> t.nextId, conn |-> None,
                              linked |-> None, rssi |-> FALSE]),
                 !.nextId = @ + 1]

DeviceUpdated(t, addr, f(_)) ==
  [t EXCEPT !.devices = [i \in DOMAIN @ |->
                           IF @[i].addr = addr THEN f(@[i]) ELSE @[i]]]

\* An advertisement, or a device found out of band.
Observed(t, addr, rssi) ==
  DeviceUpdated(WithDevice(t, addr), addr,
    LAMBDA d : [d EXCEPT !.rssi = @ \/ rssi])

\* A CONNECT_IND ties an initiator and an advertiser to a connection, and
\* proposes its CRCInit.
Linked(t, e) ==
  LET t1 == WithDevice(WithDevice(Acquired(t, e.aa, TRUE), e.initiator), e.addr)
      c  == [ConnOf(t1.conns, e.aa) EXCEPT
               !.central = DeviceId(t1.devices, e.addr),
               !.peripheral = DeviceId(t1.devices, e.initiator)]
      c2 == IF Confirmed(c) THEN c ELSE WithCandidate(c, e.init)
      t2 == [t1 EXCEPT !.conns = Touched(@, c2)] IN
  DeviceUpdated(t2, e.addr, LAMBDA d : [d EXCEPT !.conn = c2.id, !.linked = e.aa])

Ingested(t, e) ==
  LET seen == Observed(t, e.addr, e.rssi) IN
  IF e.kind = "connect" /\ e.crcOk THEN Linked(seen, e) ELSE seen

-----------------------------------------------------------------------------
(* What is heard of an address, kept independently of the tables.            *)

HeardProposal(h, init) == [h EXCEPT !.proposed = @ \cup {init}]

\* Frame e arrived; old and new are the tables before and after it.
Heard(e, old, new) ==
  [aa \in Aas |->
     LET h == heardBle[aa]
         hasRow == HasConn(new.conns, aa)
         mine == e.kind \in {"data", "connect"} /\ e.aa = aa
         fresh == hasRow /\ (~HasConn(old.conns, aa)
                               \/ ConnOf(old.conns, aa).id # ConnOf(new.conns, aa).id)
         base == IF fresh \/ (HasConn(old.conns, aa) /\ ~hasRow)
                 THEN NothingHeard ELSE h IN
     IF mine /\ e.kind = "connect"
     THEN IF e.crcOk /\ hasRow THEN HeardProposal(base, e.init) ELSE base
     ELSE IF mine /\ hasRow
     THEN IF e.empty THEN HeardProposal(base, e.init)
          ELSE [base EXCEPT !.verified = @ \cup ({e.init} \cap base.proposed)]
     ELSE IF mine
     THEN [NothingHeard EXCEPT !.frames =
             (IF Cardinality(h.others) < PendingCap THEN h.frames ELSE 0) + 1]
     ELSE IF e.kind = "data" /\ ~HasConn(old.conns, e.aa) /\ ~hasRow
     THEN [base EXCEPT !.others = @ \cup {e.aa}]
     ELSE base]

-----------------------------------------------------------------------------
(* ble_registry_submit, from session_process_ble_event                       *)

SetTables(t) ==
  /\ conns' = t.conns /\ devices' = t.devices
  /\ pending' = t.pending /\ nextId' = t.nextId

\* A frame too short for a header and a CRC, or on the advertising address
\* without being an advertising PDU, touches nothing.
SubmitJunk ==
  /\ \E e \in BleEvents : e.kind = "junk"
  /\ emitted < MaxBleEvents
  /\ emitted' = emitted + 1
  /\ surface' = FALSE
  /\ UNCHANGED <<conns, devices, pending, nextId, enforce, heardBle>>

SubmitAdv(e) ==
  /\ e.kind \in {"adv", "connect"}
  /\ emitted < MaxBleEvents
  /\ emitted' = emitted + 1
  /\ surface' = (enforce => e.crcOk)
  /\ IF enforce /\ ~e.crcOk
     THEN UNCHANGED <<conns, devices, pending, nextId, heardBle>>
     ELSE LET t == Ingested(Tables, e) IN
          /\ SetTables(t)
          /\ heardBle' = Heard(e, Tables, t)
  /\ UNCHANGED enforce

SubmitData(e) ==
  /\ e.kind = "data"
  /\ emitted < MaxBleEvents
  /\ emitted' = emitted + 1
  /\ LET t == Acquired(Tables, e.aa, FALSE) IN
     IF ~HasConn(t.conns, e.aa)
     THEN SetTables(t) /\ heardBle' = Heard(e, Tables, t) /\ surface' = FALSE
     ELSE LET c == ConnOf(t.conns, e.aa)
              g == [Gated(c, e) EXCEPT !.rssi = @ \/ e.rssi]
              t2 == [t EXCEPT !.conns = Touched(@, g)] IN
          /\ SetTables(t2)
          /\ heardBle' = Heard(e, Tables, t2)
          /\ surface' = GateVerifies(c, e)
  /\ UNCHANGED enforce

\* ble_registry_add_device: found out of band.
AddDevice(addr) ==
  /\ SetTables(Observed(Tables, addr, FALSE))
  /\ UNCHANGED <<enforce, emitted, surface, heardBle>>

BleNext ==
  \/ SubmitJunk
  \/ \E e \in BleEvents : SubmitAdv(e) \/ SubmitData(e)
  \/ \E addr \in Addrs : AddDevice(addr)

BleSpec == BleInit /\ [][BleNext]_bleVars

-----------------------------------------------------------------------------
(* The poll thread's copies.                                                 *)

ShownConns == {i \in DOMAIN conns : enforce => Confirmed(conns[i])}

\* The connection's own signal, else that of the devices it joins.
RssiValid(c) ==
  \/ c.rssi
  \/ \E i \in DOMAIN devices :
       devices[i].rssi /\ devices[i].id \in {c.central, c.peripheral} \ {None}

-----------------------------------------------------------------------------
(* Correctness *)

\* An access address has one row at most and is then not tallied; ids are given
\* once; a connection joins devices that are in the table, two or none; a
\* device is linked to the connection of its address, or that row was evicted.
Ids == [i \in DOMAIN conns |-> conns[i].id] \o [i \in DOMAIN devices |-> devices[i].id]

TablesAgree ==
  /\ IsInjective([i \in DOMAIN conns |-> conns[i].aa])
  /\ IsInjective([i \in DOMAIN devices |-> devices[i].addr])
  /\ IsInjective([i \in DOMAIN pending |-> pending[i].key])
  /\ \A i \in DOMAIN pending : ~HasConn(conns, pending[i].key)
  /\ IsInjective(Ids) /\ \A i \in DOMAIN Ids : Ids[i] \in 1 .. nextId - 1
  /\ \A i \in DOMAIN conns :
       LET c == conns[i]  known == {devices[k].id : k \in DOMAIN devices} IN
       /\ (c.central = None) <=> (c.peripheral = None)
       /\ {c.central, c.peripheral} \ {None} \subseteq known
  /\ \A k \in DOMAIN devices : \A i \in DOMAIN conns :
       conns[i].id = devices[k].conn =>
         conns[i].aa = devices[k].linked /\ conns[i].central # None

\* Two frames prove a CRCInit: one proposed it and another verified under it,
\* both since the connection has its row.  With enforcement on, the poll shows
\* nothing else.
ShownAreProven ==
  /\ \A i \in DOMAIN conns :
       Confirmed(conns[i]) => conns[i].init \in heardBle[conns[i].aa].verified
  /\ \A i \in DOMAIN conns : ToSet(conns[i].candidates)
                               \subseteq heardBle[conns[i].aa].proposed
  /\ enforce => \A i \in ShownConns : Confirmed(conns[i])

\* "Frames an AA must accumulate before it earns a connection slot": as long as
\* fewer than PendingCap other addresses are tallied between two frames of an
\* address, none of its frames is forgotten.
NothingForgotten ==
  \A aa \in Aas :
    ~HasConn(conns, aa) /\ Cardinality(heardBle[aa].others) < PendingCap =>
      CountOf(pending, aa) >= heardBle[aa].frames

\* "LRU victim eviction preserves confirmed connections": one leaves the table
\* only when every row is confirmed, and then it is the one not used longest.
ProvenStay ==
  [][\A i \in DOMAIN conns :
       Confirmed(conns[i]) /\ ~HasConn(conns', conns[i].aa) =>
         i = 1 /\ \A j \in DOMAIN conns : Confirmed(conns[j])]_bleVars
=============================================================================
