----------------------------- MODULE DeviceList -----------------------------
(***************************************************************************)
(* The device table of the graphical application: every poll of the        *)
(* registries replaces its rows, in place where it can, and keeps the      *)
(* history of each device across polls, sorts and clears.                  *)
(***************************************************************************)
EXTENDS Integers, Sequences, FiniteSets

CONSTANTS
  Entities,   \* what polls report, in their order: the fixed part of each entity
  Readings,   \* per entity, what one poll says of it: rssi, and the packets since
  Sorts,      \* the columns and directions the user can sort by
  MaxSeriesPoints,   \* kMaxSeriesPoints
  MaxSteps    \* bound: polls, clears and sorts together

NoRssi == -999   \* kRssiSentinel
Central == 255
NotAMember == -2

VARIABLES
  rows,      \* m_rows
  rowById,   \* m_rowById
  prev,      \* m_prevPackets
  sort,      \* m_sortRoleName and m_sortOrder
  total,     \* the packet counters of the registries
  heard,     \* history: per row, what the polls said since it joined the table
  steps

deviceVars == <<rows, rowById, prev, sort, total, heard, steps>>

IdsOf(s) == {s[k].id : k \in DOMAIN s}

\* The positions in P in the order of R: the p-th has p - 1 of them before it.
Arranged(P, R) ==
  [p \in 1 .. Cardinality(P) |->
     CHOOSE k \in P : Cardinality({j \in P : <<j, k>> \in R}) = p - 1]

\* The elements of s at the positions in P, as they follow each other in s.
Picked(s, P) ==
  LET order == Arranged(P, {w \in P \X P : w[1] < w[2]})
  IN [p \in DOMAIN order |-> s[order[p]]]

\* Those of s whose devices are among ids
Among(s, ids) == Picked(s, {k \in DOMAIN s : s[k].id \in ids})

-----------------------------------------------------------------------------
(* The order of the rows *)

\* isPiconetConnection, isPiconetMember, treeRank
IsConnection(r) == r.br /\ r.kind = "connection" /\ r.ltSlot = -1
IsMember(r) == r.br /\ r.groupId # 0 /\ r.ltSlot >= 0
Grouped(r) == IsConnection(r) \/ IsMember(r)

\* Ids are unique; a piconet has one LAP, and at most one connection, central and
\* peripheral of each LT_ADDR.
Entity == [id : Int, br : BOOLEAN, kind : STRING, groupId : Int, ltSlot : Int,
           lap : Int, type : Int, label : Int]

ASSUME DeviceListAssumption ==
  /\ Entities \in Seq(Entity)
  /\ \A j, k \in DOMAIN Entities :
       /\ Entities[j].id = Entities[k].id => j = k
       /\ Grouped(Entities[j]) /\ Grouped(Entities[k])
            /\ Entities[j].groupId = Entities[k].groupId =>
            /\ Entities[j].lap = Entities[k].lap
            /\ Entities[j].ltSlot = Entities[k].ltSlot => j = k
  /\ Readings \subseteq [IdsOf(Entities) -> [rssi : Int, packets : Nat]]
  /\ \A by \in Sorts : by.asc \in BOOLEAN
  /\ MaxSeriesPoints \in Nat \ {0} /\ MaxSteps \in Nat

TreeRank(r) == IF IsConnection(r) THEN 0 ELSE IF r.ltSlot = Central THEN 1 ELSE 2

\* The first difference of two lists of keys decides.
Precedes(keys) ==
  \E k \in DOMAIN keys :
    keys[k][1] < keys[k][2] /\ \A j \in 1 .. k - 1 : keys[j][1] = keys[j][2]

\* cmpInt and cmpStr: the two sides of a comparison, in the direction asked for
Directed(asc, a, b) == IF asc THEN <<a, b>> ELSE <<b, a>>

\* A piconet: the connection, the central, the peripherals by LT_ADDR, whatever
\* the direction.
WithinGroup(asc, a, b) ==
  Precedes(<< <<TreeRank(a), TreeRank(b)>>, <<a.ltSlot, b.ltSlot>>,
              Directed(asc, a.label, b.label)>>)

ByIdentifier(asc, a, b) ==
  IF a.br # b.br THEN a.br = asc     \* "BR/EDR" < "LE"
  ELSE IF a.br /\ Grouped(a) /\ Grouped(b)
       THEN IF a.groupId # b.groupId
            THEN Precedes(<<Directed(asc, a.lap, b.lap),
                            Directed(asc, a.groupId, b.groupId)>>)
            ELSE WithinGroup(asc, a, b)
  ELSE IF a.br /\ Grouped(a) # Grouped(b) THEN Grouped(a)
  ELSE Precedes(<<Directed(asc, a.type, b.type), Directed(asc, a.label, b.label)>>)

\* lessThan
LessThan(by, a, b) ==
  CASE by.role = "rssi" ->
         a.rssi # NoRssi /\ (b.rssi = NoRssi \/ Precedes(<<Directed(by.asc, a.rssi, b.rssi)>>))
    [] by.role = "identifier" -> ByIdentifier(by.asc, a, b)
    [] by.role = "packetRate" -> Precedes(<<Directed(by.asc, a.rate, b.rate)>>)
    [] OTHER -> FALSE

\* std::stable_sort: a row comes after the smaller ones and the earlier equal ones.
Before(by, s) ==
  {w \in (DOMAIN s) \X (DOMAIN s) :
     \/ LessThan(by, s[w[1]], s[w[2]])
     \/ w[1] < w[2] /\ ~LessThan(by, s[w[2]], s[w[1]])}

StableSorted(by, s) ==
  LET order == Arranged(DOMAIN s, Before(by, s)) IN [p \in DOMAIN s |-> s[order[p]]]

\* assignTreeFlags
WithTreeFlags(s) ==
  [k \in DOMAIN s |->
     [s[k] EXCEPT
        !.isLastChild = IsMember(s[k]) /\ \A j \in k + 1 .. Len(s) :
                          ~(IsMember(s[j]) /\ s[j].groupId = s[k].groupId),
        !.hasChildren = IsConnection(s[k]) /\ \E j \in DOMAIN s :
                          IsMember(s[j]) /\ s[j].groupId = s[k].groupId]]

\* rebuildLookup
Lookup(s) == [id \in IdsOf(s) |-> CHOOSE k \in DOMAIN s : s[k].id = id]

-----------------------------------------------------------------------------
(* setRows *)

\* backend_session_poll_entities: the four snapshots one after the other, in
\* the order of the ids.
Polled(seen, reading, counts) ==
  LET entity == Among(Entities, seen)
  IN [k \in DOMAIN entity |->
        [entity |-> entity[k], rssi |-> reading[entity[k].id].rssi,
         packets |-> counts[entity[k].id]]]

LastOf(s, n) == SubSeq(s, IF Len(s) > n THEN Len(s) - n + 1 ELSE 1, Len(s))

SeriesOf(id) == IF \E k \in DOMAIN rows : rows[k].id = id
                THEN rows[CHOOSE k \in DOMAIN rows : rows[k].id = id].series ELSE <<>>

RateOf(id, packets) == IF id \in DOMAIN prev /\ packets >= prev[id] THEN packets - prev[id] ELSE 0

\* A row from what a poll says of a device and what the table remembers of it
FreshRow(e) ==
  LET id == e.entity.id
      points == IF e.rssi = NoRssi THEN SeriesOf(id)
                ELSE LastOf(Append(SeriesOf(id), e.rssi), MaxSeriesPoints)
  IN [id |-> id, br |-> e.entity.br, kind |-> e.entity.kind, groupId |-> e.entity.groupId,
      ltSlot |-> e.entity.ltSlot, lap |-> e.entity.lap, type |-> e.entity.type,
      label |-> e.entity.label, rssi |-> e.rssi, packets |-> e.packets,
      rate |-> RateOf(id, e.packets), series |-> points,
      isLastChild |-> FALSE, hasChildren |-> FALSE]

\* The rows a poll asks for, sorted as the last ones were
NextRows(poll) ==
  WithTreeFlags(StableSorted(sort, [k \in DOMAIN poll |-> FreshRow(poll[k])]))

SameSet(next) == Len(next) = Len(rows) /\ IdsOf(next) \subseteq IdsOf(rows)

\* Mutant: a survivor keeps the payload of the last poll.
Survivors_Stale(next) == Among(rows, IdsOf(next))

\* The departed rows are removed and the others refreshed where they are.
Survivors(next) ==
  LET kept == Among(rows, IdsOf(next))
  IN [k \in DOMAIN kept |-> next[CHOOSE j \in DOMAIN next : next[j].id = kept[k].id]]

SurvivorsOrdered(next) ==
  LET old == Survivors(next)
      again == Among(next, IdsOf(old))
  IN [k \in DOMAIN again |-> again[k].id] = [k \in DOMAIN old |-> old[k].id]

\* The walk over the next rows meets a survivor once it met those before it.
Met(old, next) ==
  {i \in DOMAIN old :
     \A j, k \in 1 .. i : j < k => Lookup(next)[old[j].id] < Lookup(next)[old[k].id]}

\* The survivors met stay the rows they are, each other row is inserted at its
\* place, and survivors not met are left at the end.
InsertArrivals(old, next) ==
  LET met == Cardinality(Met(old, next))
  IN [p \in DOMAIN next |->
        IF \E k \in 1 .. met : old[k].id = next[p].id
        THEN old[CHOOSE k \in 1 .. met : old[k].id = next[p].id] ELSE next[p]]
     \o SubSeq(old, met + 1, Len(old))

Written(poll) ==
  [id \in DOMAIN prev \cup {poll[k].entity.id : k \in DOMAIN poll} |->
     IF \E k \in DOMAIN poll : poll[k].entity.id = id
     THEN poll[CHOOSE k \in DOMAIN poll : poll[k].entity.id = id].packets ELSE prev[id]]

\* m_prevPackets: written for every row, and pruned when the membership changed.
Remembered(poll) ==
  LET ids == {poll[k].entity.id : k \in DOMAIN poll}
      all == Written(poll)
      same == Cardinality(ids) = Len(rows) /\ ids \subseteq IdsOf(rows)
  IN IF same THEN all ELSE [id \in ids |-> all[id]]

SetRows ==
  \E seen \in SUBSET IdsOf(Entities), reading \in Readings :
    LET counts == [id \in DOMAIN total |-> total[id] + reading[id].packets]
        poll == Polled(seen, reading, counts)
        next == NextRows(poll)
    IN /\ rows' = IF ~SameSet(next) /\ SurvivorsOrdered(next)
                  THEN InsertArrivals(Survivors(next), next) ELSE next
       /\ rowById' = Lookup(rows')
       /\ prev' = Remembered(poll)
       /\ heard' = [id \in seen |->
                      Append(IF id \in DOMAIN heard THEN heard[id] ELSE <<>>,
                             [rssi |-> reading[id].rssi, packets |-> counts[id]])]
       /\ total' = counts
       /\ UNCHANGED sort

\* A new capture starts: the session's entities and counters are new as well.
Clear ==
  /\ rows # <<>> \/ prev # <<>>
  /\ rows' = <<>> /\ rowById' = <<>> /\ prev' = <<>> /\ heard' = <<>>
  /\ total' = [id \in DOMAIN total |-> 0]
  /\ UNCHANGED sort

\* Mutant: the rows are sorted and the lookup is not rebuilt.
Resorted_Lookup(s) == rowById

\* maybeResort rebuilds the lookup when a row moved.
Resorted(s) == IF \E k \in DOMAIN s : s[k].id # rows[k].id THEN Lookup(s) ELSE rowById

\* sortBy, setSortRoleName, setSortOrder, and maybeResort
SortBy ==
  \E by \in Sorts \ {sort} :
    /\ sort' = by
    /\ rows' = WithTreeFlags(StableSorted(by, rows))
    /\ rowById' = Resorted(rows')
    /\ UNCHANGED <<prev, total, heard>>

DeviceInit ==
  /\ rows = <<>> /\ rowById = <<>> /\ prev = <<>> /\ heard = <<>>
  /\ sort = [role |-> "identifier", asc |-> TRUE]
  /\ total = [id \in IdsOf(Entities) |-> 0]
  /\ steps = 0

DeviceNext ==
  /\ steps < MaxSteps /\ steps' = steps + 1
  /\ SetRows \/ Clear \/ SortBy

DeviceSpec == DeviceInit /\ [][DeviceNext]_deviceVars

-----------------------------------------------------------------------------
(* Properties *)

\* Sorted by identifier, a piconet is one block of rows: its connection when there
\* is one, then the central, then the peripherals by LT_ADDR; and whatever the
\* column, exactly the last member shown is drawn as the last.
PiconetsAreTrees ==
  /\ sort.role = "identifier" =>
       \A j, k \in DOMAIN rows : j < k /\ Grouped(rows[j]) /\ Grouped(rows[k])
                                   /\ rows[j].groupId = rows[k].groupId =>
         /\ \A i \in j .. k : Grouped(rows[i]) /\ rows[i].groupId = rows[k].groupId
         /\ IsMember(rows[k])
         /\ IsMember(rows[j]) => rows[j].ltSlot = Central \/ rows[j].ltSlot < rows[k].ltSlot
  /\ \A k \in DOMAIN rows : IsMember(rows[k]) =>
       (rows[k].isLastChild <=> ~\E j \in k + 1 .. Len(rows) :
          IsMember(rows[j]) /\ rows[j].groupId = rows[k].groupId)

\* Whichever way a poll updated the table - in place, by single removals and
\* inserts, or as a whole - the table is in the order of the column, without an
\* inversion, each device is found at its row, and nothing is remembered of
\* devices that left; and piconets are shown as trees.
TableIsOrdered ==
  /\ \A j, k \in DOMAIN rows : j < k => ~LessThan(sort, rows[k], rows[j]) /\ rows[j].id # rows[k].id
  /\ rowById = Lookup(rows)
  /\ DOMAIN prev = IdsOf(rows)
  /\ PiconetsAreTrees

\* The history of a row is its own: the chart shows the readings of that device
\* since it joined the table, the newest of them, and the rate is what it
\* received since the poll before, however the rows moved in between.
HistoryFollowsDevice ==
  /\ IdsOf(rows) = DOMAIN heard
  /\ \A k \in DOMAIN rows :
       LET all == heard[rows[k].id]
           valid == Picked([j \in DOMAIN all |-> all[j].rssi],
                           {j \in DOMAIN all : all[j].rssi # NoRssi})
           n == Len(all)
       IN /\ rows[k].series = LastOf(valid, MaxSeriesPoints)
          /\ rows[k].rssi = all[n].rssi
          /\ rows[k].rate = IF n = 1 THEN 0 ELSE all[n].packets - all[n - 1].packets
=============================================================================
