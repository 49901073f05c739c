---------------------------- MODULE BredrRegistry ----------------------------
(* The tables of the BR/EDR registry (bredr_registry.c): the connections, one *)
(* per LAP, and the device rows of their members.  What a connection's link   *)
(* does with a packet is the subject of BredrLink: of its outcome only the    *)
(* role the packet is counted for, if any, and whether it is the newest of    *)
(* the link matter here, and what each allows is left open.  Memory does not  *)
(* run out.                                                                   *)
EXTENDS FirstSightTally, Functions, FiniteSets

CONSTANTS
  Laps,          \* the LAPs heard
  LtAddrs,       \* the LT_ADDRs of peripherals
  LapPendingCap, \* BREDR_REGISTRY_PENDING_CAP
  Thresholds,    \* the promote_thresholds of the configuration
  ClkModulus,    \* 2^32 in the code: how many values a receive clock has
  LapStarts,     \* when packets start, in slots
  MaxLapEvents   \* bound of the model: events submitted

ASSUME BredrRegistryAssumption ==
  /\ LtAddrs \subseteq Nat
  /\ LapPendingCap \in Nat \ {0}
  /\ Thresholds \subseteq Nat \ {0}
  /\ ClkModulus \in Nat \ {0}
  /\ LapStarts \subseteq 0 .. (ClkModulus \div 2) - 1
  /\ MaxLapEvents \in Nat

Central == 255
Role == {Central} \cup LtAddrs
NoRole == -1
NoId == 0
NoBase == -1

VARIABLES
  lapConns, members, lapPending, lapNextId,
  threshold,  \* cfg.promote_threshold
  clkBase,    \* clk_base_1600, or NoBase
  lapEvents,  \* bredr_frames_emitted
  touched     \* the id in the snapshot handed to the callback; NoId: none

lapVars == <<lapConns, members, lapPending, lapNextId, threshold, clkBase,
             lapEvents, touched>>

LapInit ==
  /\ lapConns = <<>>
  /\ members = <<>>
  /\ lapPending = <<>>
  /\ lapNextId = 1
  /\ threshold \in Thresholds
  /\ clkBase = NoBase
  /\ lapEvents = 0
  /\ touched = NoId

-----------------------------------------------------------------------------
(* Connections and member rows: operators on a record of the tables.         *)

LapTables == [conns |-> lapConns, members |-> members, nextId |-> lapNextId]

LapRows(cs, lap) == {i \in DOMAIN cs : cs[i].lap = lap}
IndexOfLap(cs, lap) == CHOOSE i \in LapRows(cs, lap) : TRUE

WithConn(t, lap) ==
  IF LapRows(t.conns, lap) # {} THEN t
  ELSE [t EXCEPT !.conns = Append(@, [lap |-> lap, id |-> t.nextId,
                                      packets |-> [r \in Role |-> 0],
                                      device |-> [r \in Role |-> NoId],
                                      first |-> 0, last |-> 0, total |-> 0]),
                 !.nextId = @ + 1]

MemberRows(ms, id, role) == {k \in DOMAIN ms : ms[k].conn = id /\ ms[k].role = role}

\* device_ensure, and the link from the connection to the row.
\* Mutant: the row is looked up by its role alone.
WithMember_AnyConn(t, i, role) ==
  LET c == t.conns[i]
      rows == {k \in DOMAIN t.members : t.members[k].role = role}
      t1 == IF rows # {} THEN t
            ELSE [t EXCEPT !.members = Append(@, [id |-> t.nextId, conn |-> c.id,
                                                  role |-> role, lap |-> c.lap]),
                           !.nextId = @ + 1]
      row == CHOOSE k \in DOMAIN t1.members : t1.members[k].role = role IN
  [t1 EXCEPT !.conns[i].device[role] = t1.members[row].id]
WithMember(t, i, role) ==
  LET c == t.conns[i]
      t1 == IF MemberRows(t.members, c.id, role) # {} THEN t
            ELSE [t EXCEPT !.members = Append(@, [id |-> t.nextId, conn |-> c.id,
                                                  role |-> role, lap |-> c.lap]),
                           !.nextId = @ + 1]
      row == CHOOSE k \in MemberRows(t1.members, c.id, role) : TRUE IN
  [t1 EXCEPT !.conns[i].device[role] = t1.members[row].id]

\* The rows are materialized for every role that has packets; one packet adds
\* at most one such role.
WithMembers(t, i, role) == IF role = NoRole THEN t ELSE WithMember(t, i, role)

\* bredr_link_add_packet, as far as the registry looks at the link.
LinkAdds(c, clk, newest, role) ==
  [c EXCEPT !.total = @ + 1,
            !.first = IF c.total = 0 THEN clk ELSE @,
            !.last = IF newest THEN clk ELSE @,
            !.packets = [r \in Role |-> IF r = role THEN @[r] + 1 ELSE @[r]]]

RxClkOf(start) == start % ClkModulus

-----------------------------------------------------------------------------
(* bredr_registry_submit, from session_process_bredr_event                   *)

\* What the link may make of a packet: the first is the newest, an old one is
\* not routed.
Outcome(cs, lap, clk) ==
  {o \in [newest : BOOLEAN, role : Role \cup {NoRole}] :
     /\ ~o.newest => o.role = NoRole
     /\ o.newest <=> \/ LapRows(cs, lap) = {}
                     \/ cs[IndexOfLap(cs, lap)].last <= clk}

SubmitLap(lap, start) ==
  /\ lapEvents < MaxLapEvents
  /\ lapEvents' = lapEvents + 1
  /\ clkBase' = IF clkBase = NoBase THEN RxClkOf(start) ELSE clkBase
  /\ LET known == LapRows(lapConns, lap) # {}
         tally == IF known THEN lapPending ELSE Bumped(lapPending, lap, LapPendingCap) IN
     IF ~known /\ CountOf(tally, lap) < threshold
     THEN /\ lapPending' = tally
          /\ touched' = NoId
          /\ UNCHANGED <<lapConns, members, lapNextId>>
     ELSE \E o \in Outcome(lapConns, lap, RxClkOf(start)) :
          LET t1 == WithConn(LapTables, lap)
              i == IndexOfLap(t1.conns, lap)
              t2 == [t1 EXCEPT !.conns[i] = LinkAdds(@, RxClkOf(start), o.newest, o.role)]
              t3 == WithMembers(t2, i, o.role) IN
          /\ lapPending' = Untallied(tally, lap)
          /\ lapConns' = t3.conns /\ members' = t3.members /\ lapNextId' = t3.nextId
          /\ touched' = t3.conns[i].id
  /\ UNCHANGED threshold

\* bredr_registry_add_device: a row that belongs to no connection.
AddStandalone(lap) ==
  /\ IF \E k \in MemberRows(members, NoId, Central) : members[k].lap = lap
     THEN UNCHANGED <<members, lapNextId>>
     ELSE /\ members' = Append(members, [id |-> lapNextId, conn |-> NoId,
                                         role |-> Central, lap |-> lap])
          /\ lapNextId' = lapNextId + 1
  /\ UNCHANGED <<lapConns, lapPending, threshold, clkBase, lapEvents, touched>>

LapNext ==
  \E lap \in Laps :
    \/ \E start \in LapStarts : SubmitLap(lap, start)
    \/ AddStandalone(lap)

LapSpec == LapInit /\ [][LapNext]_lapVars

-----------------------------------------------------------------------------
(* The poll thread's copies.                                                 *)

Owners(m) == {i \in DOMAIN lapConns : lapConns[i].id = m.conn}

\* bredr_registry_get_devices: a member row takes what it shows from its
\* connection's link, and is passed over without one.
ShownMembers ==
  {k \in DOMAIN members : members[k].conn # NoId => Owners(members[k]) # {}}
ShownPackets(k) ==
  lapConns[CHOOSE i \in Owners(members[k]) : TRUE].packets[members[k].role]

\* clk_to_ms, relative to the first packet's wall-clock time and in slots: the
\* difference of two clocks read as a signed number.
\* Mutant: read as an unsigned one.
SinceBase_Unsigned(clk) == (clk - clkBase) % ClkModulus
SinceBase(clk) ==
  LET d == (clk - clkBase) % ClkModulus IN
  IF d >= ClkModulus \div 2 THEN d - ClkModulus ELSE d

-----------------------------------------------------------------------------
(* Correctness *)

LapIds == [i \in DOMAIN lapConns |-> lapConns[i].id]
            \o [k \in DOMAIN members |-> members[k].id]

\* A LAP has one connection, and a connection's member has one row: exactly the
\* members that sent packets have one, each side names the other, and the poll
\* never has to pass over a row or show a member without packets.
MembersAgree ==
  /\ IsInjective([i \in DOMAIN lapConns |-> lapConns[i].lap])
  /\ IsInjective(LapIds) /\ \A i \in DOMAIN LapIds : LapIds[i] \in 1 .. lapNextId - 1
  /\ \A i \in DOMAIN lapConns : \A r \in Role :
       LET c == lapConns[i]  rows == MemberRows(members, c.id, r) IN
       IF c.packets[r] = 0 THEN rows = {} /\ c.device[r] = NoId
       ELSE \E k \in rows : rows = {k} /\ c.device[r] = members[k].id
                                       /\ members[k].lap = c.lap
  /\ ShownMembers = DOMAIN members
  /\ \A k \in DOMAIN members : members[k].conn # NoId => ShownPackets(k) > 0
  /\ \A p \in DOMAIN lapPending :
       /\ LapRows(lapConns, lapPending[p].key) = {}
       /\ lapPending[p].count < threshold

\* Packets reach the registry out of order, the first one received need not be
\* the first sent: shown times still run forward, for less than half the range
\* of the receive clock.
TimesRunForward ==
  \A i \in DOMAIN lapConns :
    SinceBase(lapConns[i].first) <= SinceBase(lapConns[i].last)

=============================================================================
