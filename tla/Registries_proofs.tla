-------------------------- MODULE Registries_proofs --------------------------
(***************************************************************************)
(* Proofs about the registries.                                            *)
(*                                                                         *)
(* BredrRegistry: its connections, member rows and tally agree, and its    *)
(* times run forward, for every set of LAPs, LT_ADDRs and thresholds.      *)
(* RssiTracker: the mean its rows show is that of one source and one       *)
(* window.  BleRegistry: its tables agree, what it shows is proven by      *)
(* frames, and no first sight is forgotten early, for every set of         *)
(* addresses and every capacity and threshold.  The tally of first sights, *)
(* which both registries keep, comes first.                                *)
(***************************************************************************)
EXTENDS BredrRegistry, RssiTracker, BleRegistry, SequenceTheorems,
        FiniteSetTheorems, WellFoundedInduction, TLAPS

-----------------------------------------------------------------------------
(* The tally of first sights *)

LEMMA RemoveAtIs ==
  ASSUME NEW S, NEW s \in Seq(S), NEW k \in 1 .. Len(s)
  PROVE  /\ RemoveAt(s, k) \in Seq(S)
         /\ Len(RemoveAt(s, k)) = Len(s) - 1
         /\ \A i \in 1 .. Len(s) - 1 :
              RemoveAt(s, k)[i] = IF i < k THEN s[i] ELSE s[i + 1]
<1>1. Len(s) \in Nat /\ \A i \in 1 .. Len(s) : s[i] \in S
  BY LenProperties, ElementOfSeq
<1> DEFINE a == SubSeq(s, 1, k - 1)  b == SubSeq(s, k + 1, Len(s))
<1>2. a \in Seq(S) /\ Len(a) = k - 1 /\ \A i \in 1 .. k - 1 : a[i] = s[i]
  BY <1>1, SubSeqProperties
<1>3. /\ b \in Seq(S) /\ Len(b) = Len(s) - k
      /\ \A i \in 1 .. Len(s) - k : b[i] = s[k + i]
  BY <1>1, SubSeqProperties
<1>4. RemoveAt(s, k) = a \o b
  BY DEF RemoveAt
<1> HIDE DEF a, b
<1>5. /\ a \o b \in Seq(S) /\ Len(a \o b) = Len(a) + Len(b)
      /\ \A i \in 1 .. Len(a) + Len(b) :
           (a \o b)[i] = IF i <= Len(a) THEN a[i] ELSE b[i - Len(a)]
  BY <1>2, <1>3, ConcatProperties
<1>6. ASSUME NEW i \in 1 .. Len(s) - 1
      PROVE  (a \o b)[i] = IF i < k THEN s[i] ELSE s[i + 1]
  <2>1. CASE i < k
    BY <1>1, <1>2, <1>3, <1>5, <2>1
  <2>2. CASE ~(i < k)
    <3>1. i - (k - 1) \in 1 .. Len(s) - k /\ k + (i - (k - 1)) = i + 1
      BY <1>1, <2>2
    <3>2. b[i - (k - 1)] = s[i + 1]
      BY <1>3, <3>1
    <3>3. QED BY <1>1, <1>2, <1>3, <1>5, <2>2, <3>2
  <2>3. QED BY <2>1, <2>2
<1>7. QED BY <1>1, <1>2, <1>3, <1>4, <1>5, <1>6

\* A tally of some keys, each tallied once.
Row(K) == [key : K, count : Nat \ {0}]
Tally(K) == Seq(Row(K))
OncePerKey(ps) == \A i, j \in DOMAIN ps : ps[i].key = ps[j].key => i = j

LEMMA PlaceIs ==
  ASSUME NEW K, NEW ps \in Tally(K), NEW key, RowsOf(ps, key) # {}
  PROVE  /\ PlaceOf(ps, key) \in 1 .. Len(ps)
         /\ ps[PlaceOf(ps, key)].key = key
         /\ CountOf(ps, key) = ps[PlaceOf(ps, key)].count
         /\ CountOf(ps, key) \in Nat \ {0}
<1>1. PlaceOf(ps, key) \in RowsOf(ps, key)
  BY DEF PlaceOf
<1>2. PlaceOf(ps, key) \in 1 .. Len(ps) /\ ps[PlaceOf(ps, key)].key = key
  BY <1>1, LenProperties DEF RowsOf, Tally
<1>3. ps[PlaceOf(ps, key)] \in Row(K)
  BY <1>2, ElementOfSeq DEF Tally
<1>4. QED BY <1>2, <1>3 DEF CountOf, Row

LEMMA CountIs ==
  ASSUME NEW K, NEW ps \in Tally(K), OncePerKey(ps), NEW i \in 1 .. Len(ps)
  PROVE  CountOf(ps, ps[i].key) = ps[i].count
<1>1. DOMAIN ps = 1 .. Len(ps)
  BY LenProperties DEF Tally
<1>2. i \in RowsOf(ps, ps[i].key)
  BY <1>1 DEF RowsOf
<1>3. PlaceOf(ps, ps[i].key) = i
  BY <1>1, <1>2, PlaceIs DEF OncePerKey
<1>4. QED BY <1>2, <1>3 DEF CountOf

LEMMA UntalliedFacts ==
  ASSUME NEW K, NEW ps \in Tally(K), OncePerKey(ps), NEW key
  PROVE  LET u == Untallied(ps, key) IN
         /\ u \in Tally(K) /\ OncePerKey(u) /\ Len(u) <= Len(ps)
         /\ RowsOf(u, key) = {}
         /\ \A i \in DOMAIN u : u[i].key # key /\ \E j \in DOMAIN ps : u[i] = ps[j]
<1> DEFINE u == Untallied(ps, key)
<1>1. Len(ps) \in Nat /\ DOMAIN ps = 1 .. Len(ps)
  BY LenProperties DEF Tally
<1>2. CASE RowsOf(ps, key) = {}
  BY <1>1, <1>2 DEF Untallied, RowsOf
<1>3. CASE RowsOf(ps, key) # {}
  <2> DEFINE k == PlaceOf(ps, key)
  <2>1. k \in 1 .. Len(ps) /\ ps[k].key = key
    BY <1>3, PlaceIs
  <2>2. u = RemoveAt(ps, k)
    BY <1>3 DEF Untallied
  <2> HIDE DEF k, u
  <2>3. /\ u \in Tally(K) /\ Len(u) = Len(ps) - 1
        /\ \A i \in 1 .. Len(ps) - 1 : u[i] = IF i < k THEN ps[i] ELSE ps[i + 1]
    BY <2>1, <2>2, RemoveAtIs DEF Tally
  <2>4. DOMAIN u = 1 .. Len(ps) - 1
    BY <2>3, LenProperties DEF Tally
  <2> DEFINE from(i) == IF i < k THEN i ELSE i + 1
  <2>5. ASSUME NEW i \in DOMAIN u
        PROVE  from(i) \in DOMAIN ps /\ from(i) # k /\ u[i] = ps[from(i)]
    BY <1>1, <2>1, <2>3, <2>4
  <2>6. ASSUME NEW i \in DOMAIN u PROVE u[i].key # key
    BY <1>1, <2>1, <2>5 DEF OncePerKey
  <2>7. ASSUME NEW i \in DOMAIN u, NEW j \in DOMAIN u, u[i].key = u[j].key
        PROVE  i = j
    <3>1. from(i) = from(j)
      BY <2>5, <2>7 DEF OncePerKey
    <3>2. QED BY <1>1, <2>1, <2>4, <3>1
  <2>8. RowsOf(u, key) = {}
    BY <2>6 DEF RowsOf
  <2>9. QED BY <1>1, <2>3, <2>5, <2>6, <2>7, <2>8 DEF OncePerKey, u
<1>4. QED BY <1>2, <1>3

LEMMA AppendedOnce ==
  ASSUME NEW K, NEW ps \in Tally(K), OncePerKey(ps), NEW row \in Row(K),
         \A i \in DOMAIN ps : ps[i].key # row.key
  PROVE  LET u == Append(ps, row) IN
         /\ u \in Tally(K) /\ OncePerKey(u) /\ Len(u) = Len(ps) + 1
         /\ \A i \in DOMAIN u : u[i] = row \/ \E j \in DOMAIN ps : u[i] = ps[j]
<1> DEFINE u == Append(ps, row)
<1>1. Len(ps) \in Nat /\ DOMAIN ps = 1 .. Len(ps)
  BY LenProperties DEF Tally
<1>2. /\ u \in Tally(K) /\ Len(u) = Len(ps) + 1
      /\ \A i \in 1 .. Len(ps) : u[i] = ps[i]
      /\ u[Len(ps) + 1] = row
  BY AppendProperties DEF Tally
<1> HIDE DEF u
<1>3. DOMAIN u = 1 .. Len(ps) + 1
  BY <1>2, LenProperties DEF Tally
<1>4. ASSUME NEW i \in DOMAIN u, NEW j \in DOMAIN u, u[i].key = u[j].key
      PROVE  i = j
  BY <1>1, <1>2, <1>3, <1>4 DEF OncePerKey
<1>5. QED BY <1>1, <1>2, <1>3, <1>4 DEF OncePerKey, u

LEMMA TailOnce ==
  ASSUME NEW K, NEW ps \in Tally(K), OncePerKey(ps), ps # <<>>
  PROVE  LET u == Tail(ps) IN
         /\ u \in Tally(K) /\ OncePerKey(u) /\ Len(u) = Len(ps) - 1
         /\ \A i \in DOMAIN u : i + 1 \in DOMAIN ps /\ u[i] = ps[i + 1]
<1> DEFINE u == Tail(ps)
<1>1. Len(ps) \in Nat /\ DOMAIN ps = 1 .. Len(ps)
  BY LenProperties DEF Tally
<1>2. /\ u \in Tally(K) /\ Len(u) = Len(ps) - 1
      /\ \A i \in 1 .. Len(u) : u[i] = ps[i + 1]
  BY HeadTailProperties DEF Tally
<1> HIDE DEF u
<1>3. DOMAIN u = 1 .. Len(ps) - 1
  BY <1>2, LenProperties DEF Tally
<1>4. \A i \in DOMAIN u : i + 1 \in DOMAIN ps /\ u[i] = ps[i + 1]
  BY <1>1, <1>2, <1>3
<1>5. ASSUME NEW i \in DOMAIN u, NEW j \in DOMAIN u, u[i].key = u[j].key
      PROVE  i = j
  <2>1. i + 1 = j + 1
    BY <1>4, <1>5 DEF OncePerKey
  <2>2. QED BY <1>3, <2>1
<1>6. QED BY <1>2, <1>4, <1>5 DEF OncePerKey, u

\* The key heard is tallied once more, at the end; the others are as they were.
LEMMA BumpedFacts ==
  ASSUME NEW K, NEW ps \in Tally(K), OncePerKey(ps), NEW key \in K,
         NEW cap \in Nat \ {0}
  PROVE  LET u == Bumped(ps, key, cap) IN
         /\ u \in Tally(K) /\ OncePerKey(u) /\ u # <<>>
         /\ CountOf(u, key) = CountOf(ps, key) + 1
         /\ \A i \in DOMAIN u : u[i].key # key => \E j \in DOMAIN ps : u[i] = ps[j]
<1> DEFINE full == CountOf(ps, key) = 0 /\ Len(ps) >= cap
           room == IF full THEN Tail(ps) ELSE Untallied(ps, key)
           row == [key |-> key, count |-> CountOf(ps, key) + 1]
           u == Bumped(ps, key, cap)
<1>1. Len(ps) \in Nat /\ DOMAIN ps = 1 .. Len(ps)
  BY LenProperties DEF Tally
<1>2. CountOf(ps, key) \in Nat
  BY PlaceIs DEF CountOf
<1>3. u = Append(room, row)
  BY DEF Bumped
<1>4. row \in Row(K) /\ row.key = key /\ row.count = CountOf(ps, key) + 1
  BY <1>2
     DEF Row
<1>5. room \in Tally(K) /\ OncePerKey(room) /\ \A i \in DOMAIN room : /\ room[i].key # key
                                                    /\ \E j \in DOMAIN ps : room[i] = ps[j]
  <2>1. CASE full
    <3>1. RowsOf(ps, key) = {}
      BY <2>1, PlaceIs
    <3>2. ps # <<>>
      BY <2>1, EmptySeq
    <3>3. room = Tail(ps)
      BY <2>1
    <3>4. \A i \in DOMAIN ps : ps[i].key # key
      BY <3>1 DEF RowsOf
    <3>5. /\ Tail(ps) \in Tally(K) /\ OncePerKey(Tail(ps))
          /\ \A i \in DOMAIN Tail(ps) : \E j \in DOMAIN ps : Tail(ps)[i] = ps[j]
      BY <3>2, TailOnce
    <3>6. QED BY <3>3, <3>4, <3>5
  <2>2. CASE ~full
    <3>1. room = Untallied(ps, key)
      BY <2>2
    <3> DEFINE v == Untallied(ps, key)
    <3>2. /\ v \in Tally(K) /\ OncePerKey(v)
          /\ \A i \in DOMAIN v : v[i].key # key /\ \E j \in DOMAIN ps : v[i] = ps[j]
      BY UntalliedFacts
    <3> HIDE DEF room, v
    <3>3. QED BY <3>1, <3>2 DEF v
  <2>3. QED BY <2>1, <2>2
<1> HIDE DEF room, row, u
<1>6. /\ u \in Tally(K) /\ OncePerKey(u) /\ Len(u) = Len(room) + 1
      /\ \A i \in DOMAIN u : u[i] = row \/ \E j \in DOMAIN room : u[i] = room[j]
  BY <1>3, <1>4, <1>5, AppendedOnce
<1>7. u[Len(u)] = row /\ Len(u) \in 1 .. Len(u)
  <2>1. Len(room) \in Nat
    BY <1>5, LenProperties DEF Tally
  <2>2. u[Len(room) + 1] = row
    BY <1>3, <1>4, <1>5, AppendProperties DEF Tally
  <2>3. QED BY <1>6, <2>1, <2>2
<1>8. CountOf(u, key) = CountOf(ps, key) + 1
  BY <1>4, <1>6, <1>7, CountIs
<1>9. u # <<>>
  BY <1>7
<1>10. ASSUME NEW i \in DOMAIN u, u[i].key # key
       PROVE  \E j \in DOMAIN ps : u[i] = ps[j]
  BY <1>4, <1>5, <1>6, <1>10
<1>11. QED BY <1>6, <1>8, <1>9, <1>10 DEF u

-----------------------------------------------------------------------------
(* The tables *)

LapConn ==
  [lap : Laps, id : Nat, packets : [Role -> Nat], device : [Role -> Nat],
   first : Nat, last : Nat, total : Nat]
Member == [id : Nat, conn : Nat, role : Role, lap : Laps]
TableTypes == [conns : Seq(LapConn), members : Seq(Member), nextId : Nat \ {0}]

\* Ids are given once, to a connection or to a row, and a LAP has one connection.
IdsAgree(t) ==
  /\ \A i, j \in DOMAIN t.conns :
       t.conns[i].lap = t.conns[j].lap \/ t.conns[i].id = t.conns[j].id => i = j
  /\ \A k, m \in DOMAIN t.members : t.members[k].id = t.members[m].id => k = m
  /\ \A i \in DOMAIN t.conns : \A k \in DOMAIN t.members :
       t.conns[i].id # t.members[k].id
  /\ \A i \in DOMAIN t.conns : t.conns[i].id \in 1 .. t.nextId - 1
  /\ \A k \in DOMAIN t.members : t.members[k].id \in 1 .. t.nextId - 1

HasOneRow(t, c, r) ==
  \E k \in MemberRows(t.members, c.id, r) :
    /\ MemberRows(t.members, c.id, r) = {k}
    /\ c.device[r] = t.members[k].id /\ t.members[k].lap = c.lap

HasNoRow(t, c, r) == MemberRows(t.members, c.id, r) = {} /\ c.device[r] = NoId

Paired(t, i, r) ==
  IF t.conns[i].packets[r] = 0 THEN HasNoRow(t, t.conns[i], r)
  ELSE HasOneRow(t, t.conns[i], r)

\* A member's row belongs to a connection that counted packets of the member.
Owned(t) ==
  \A k \in DOMAIN t.members : t.members[k].conn # NoId =>
    \E i \in DOMAIN t.conns : /\ t.conns[i].id = t.members[k].conn
                              /\ t.conns[i].packets[t.members[k].role] > 0

Sound(t) ==
  /\ t \in TableTypes /\ IdsAgree(t) /\ Owned(t)
  /\ \A i \in DOMAIN t.conns : \A r \in Role : Paired(t, i, r)

\* The same, but for the row that connection i may still lack for role r.
SoundBut(t, i, r) ==
  /\ t \in TableTypes /\ IdsAgree(t) /\ Owned(t)
  /\ \A j \in DOMAIN t.conns : \A q \in Role : j # i \/ q # r => Paired(t, j, q)
  /\ i \in DOMAIN t.conns /\ r \in Role
  /\ t.conns[i].packets[r] > 0
  /\ HasNoRow(t, t.conns[i], r) \/ HasOneRow(t, t.conns[i], r)

LEMMA IndexOfLapIs ==
  ASSUME NEW cs, NEW lap, LapRows(cs, lap) # {}
  PROVE  IndexOfLap(cs, lap) \in DOMAIN cs /\ cs[IndexOfLap(cs, lap)].lap = lap
<1>1. IndexOfLap(cs, lap) \in LapRows(cs, lap)
  BY DEF IndexOfLap
<1>2. QED BY <1>1 DEF LapRows

LEMMA SeqDomain ==
  ASSUME NEW S, NEW s \in Seq(S)
  PROVE  /\ Len(s) \in Nat /\ DOMAIN s = 1 .. Len(s)
         /\ \A i \in DOMAIN s : s[i] \in S
BY LenProperties, ElementOfSeq

NewLapConn(lap, id) ==
  [lap |-> lap, id |-> id, packets |-> [r \in Role |-> 0],
   device |-> [r \in Role |-> NoId], first |-> 0, last |-> 0, total |-> 0]

\* A new connection has no rows, as its id is new.
LEMMA WithConnFacts ==
  ASSUME NEW t, Sound(t), NEW lap \in Laps
  PROVE  LET u == WithConn(t, lap)  i == IndexOfLap(u.conns, lap) IN
         /\ Sound(u) /\ i \in DOMAIN u.conns /\ u.conns[i].lap = lap
         /\ DOMAIN t.conns \subseteq DOMAIN u.conns
         /\ \A j \in DOMAIN u.conns :
              \/ j \in DOMAIN t.conns /\ u.conns[j] = t.conns[j]
              \/ j = i /\ u.conns[j].total = 0 /\ LapRows(t.conns, lap) = {}
         /\ LapRows(t.conns, lap) # {} => u = t
<1> DEFINE u == WithConn(t, lap)  i == IndexOfLap(u.conns, lap)
           c == NewLapConn(lap, t.nextId)
<1>0. /\ t.conns \in Seq(LapConn) /\ t.members \in Seq(Member) /\ t.nextId \in Nat \ {0}
      /\ t \in TableTypes
  BY DEF Sound, TableTypes
<1>1. CASE LapRows(t.conns, lap) # {}
  <2>1. u = t
    BY <1>1 DEF WithConn
  <2>2. QED BY <1>1, <2>1, IndexOfLapIs
<1>2. CASE LapRows(t.conns, lap) = {}
  <2> DEFINE n == Len(t.conns) + 1
  <2>1. u = [t EXCEPT !.conns = Append(t.conns, c), !.nextId = t.nextId + 1]
    BY <1>2 DEF WithConn, NewLapConn
  <2>2. c \in LapConn /\ c.lap = lap /\ c.id = t.nextId /\ c.total = 0
    BY <1>0 DEF LapConn, NewLapConn, NoId
  <2>c. \A r \in Role : c.packets[r] = 0 /\ c.device[r] = NoId
    BY DEF NewLapConn
  <2> HIDE DEF c
  <2>3. /\ u.conns \in Seq(LapConn) /\ Len(u.conns) = n
        /\ \A j \in 1 .. Len(t.conns) : u.conns[j] = t.conns[j]
        /\ u.conns[n] = c
    <3>1. u.conns = Append(t.conns, c)
      BY <1>0, <2>1 DEF TableTypes
    <3>2. QED BY <1>0, <2>2, <3>1, AppendProperties
  <2>4. u.members = t.members /\ u.nextId = t.nextId + 1 /\ u \in TableTypes
    <3> DEFINE cs == Append(t.conns, c)  next == t.nextId + 1
    <3>1. u = [t EXCEPT !.conns = cs, !.nextId = next]
      BY <2>1
    <3>2. cs \in Seq(LapConn) /\ next \in Nat \ {0}
      BY <1>0, <2>2, AppendProperties
    <3> HIDE DEF cs, next
    <3>3. u \in TableTypes /\ u.members = t.members /\ u.nextId = next
      BY <1>0, <3>1, <3>2 DEF TableTypes
    <3>4. QED BY <3>3 DEF next
  <2> HIDE DEF u
  <2>5. /\ DOMAIN u.conns = 1 .. n /\ DOMAIN t.conns = 1 .. Len(t.conns)
        /\ Len(t.conns) \in Nat /\ n \in 1 .. n /\ n \notin 1 .. Len(t.conns)
    BY <1>0, <2>3, SeqDomain
  <2> DEFINE m == Len(t.conns)
  <2>6. \A j \in DOMAIN u.conns : j \in DOMAIN t.conns \/ j = n
    BY <2>5
  <2>7. \A j \in DOMAIN t.conns : j \in DOMAIN u.conns /\ u.conns[j] = t.conns[j] /\ j # n
    BY <2>3, <2>5
  <2>8. n \in DOMAIN u.conns
    BY <2>5
  <2> HIDE DEF n, m
  <2>9. /\ \A j \in DOMAIN t.conns : t.conns[j].lap # lap /\ t.conns[j].id < t.nextId
        /\ \A k \in DOMAIN t.members : t.members[k].id < t.nextId
    BY <1>0, <1>2 DEF LapRows, Sound, IdsAgree
  <2>10. IdsAgree(u)
    <3>1. \A j, k \in DOMAIN u.conns :
            u.conns[j].lap = u.conns[k].lap \/ u.conns[j].id = u.conns[k].id => j = k
      <4>1. \A j, k \in DOMAIN t.conns :
              t.conns[j].lap = t.conns[k].lap \/ t.conns[j].id = t.conns[k].id => j = k
        BY DEF Sound, IdsAgree
      <4>2. \A j \in DOMAIN t.conns : t.conns[j].lap # lap /\ t.conns[j].id # t.nextId
        <5>1. ASSUME NEW j \in DOMAIN t.conns
              PROVE  t.conns[j].id # t.nextId
          <6>1. t.conns[j].id < t.nextId
            BY <2>9
          <6>2. t.conns[j].id \in 1 .. t.nextId - 1
            BY DEF Sound, IdsAgree
          <6>3. QED BY <1>0, <6>2
        <5>2. QED BY <2>9, <5>1
      <4>3. u.conns[n].lap = lap /\ u.conns[n].id = t.nextId
        BY <2>2, <2>3
      <4>4. ASSUME NEW j \in DOMAIN u.conns, NEW k \in DOMAIN u.conns,
                   u.conns[j].lap = u.conns[k].lap \/ u.conns[j].id = u.conns[k].id
            PROVE  j = k
        <5>1. CASE j \in DOMAIN t.conns /\ k \in DOMAIN t.conns
          <6>1. u.conns[j] = t.conns[j] /\ u.conns[k] = t.conns[k]
            BY <2>7, <5>1
          <6>2. QED BY <4>1, <4>4, <5>1, <6>1
        <5>2. CASE j \in DOMAIN t.conns /\ k = n
          <6>1. u.conns[j] = t.conns[j]
            BY <2>7, <5>2
          <6>2. QED BY <4>2, <4>3, <4>4, <5>2, <6>1
        <5>3. CASE j = n /\ k \in DOMAIN t.conns
          <6>1. u.conns[k] = t.conns[k]
            BY <2>7, <5>3
          <6>2. QED BY <4>2, <4>3, <4>4, <5>3, <6>1
        <5>4. CASE j = n /\ k = n
          BY <5>4
        <5>5. QED BY <2>6, <5>1, <5>2, <5>3, <5>4
      <4>5. QED BY <4>4
    <3>2. \A j \in DOMAIN u.conns : u.conns[j].id \in 1 .. u.nextId - 1
      <4>1. ASSUME NEW j \in DOMAIN t.conns
            PROVE  u.conns[j].id \in 1 .. u.nextId - 1
        <5>1. t.conns[j].id \in 1 .. t.nextId - 1
          BY DEF Sound, IdsAgree
        <5>2. u.conns[j] = t.conns[j] /\ u.nextId = t.nextId + 1
          BY <2>4, <2>7
        <5>3. QED BY <1>0, <5>1, <5>2
      <4>2. u.conns[n].id \in 1 .. u.nextId - 1
        BY <1>0, <2>2, <2>3, <2>4
      <4>3. QED BY <2>6, <4>1, <4>2
    <3>3. \A j \in DOMAIN u.conns : \A k \in DOMAIN u.members :
            u.conns[j].id # u.members[k].id
      <4>1. ASSUME NEW j \in DOMAIN u.conns, NEW k \in DOMAIN u.members
            PROVE  u.conns[j].id # u.members[k].id
        <5>1. CASE j = n
          <6>1. t.members[k].id < t.nextId /\ u.conns[j].id = t.nextId
            BY <2>2, <2>3, <2>4, <2>9, <4>1, <5>1
          <6>2. QED BY <1>0, <2>4, <6>1
        <5>2. CASE j \in DOMAIN t.conns
          BY <2>4, <2>7, <4>1, <5>2 DEF Sound, IdsAgree
        <5>3. QED BY <2>6, <5>1, <5>2
      <4>2. QED BY <4>1
    <3>4. \A k \in DOMAIN u.members : u.members[k].id \in 1 .. u.nextId - 1
      BY <1>0, <2>4 DEF Sound, IdsAgree
    <3>5. QED BY <2>4, <3>1, <3>2, <3>3, <3>4 DEF Sound, IdsAgree
  <2>11. Owned(u)
    BY <2>4, <2>7 DEF Sound, Owned
  <2>12. ASSUME NEW j \in DOMAIN u.conns, NEW r \in Role PROVE Paired(u, j, r)
    <3>1. CASE j \in DOMAIN t.conns
      <4>1. Paired(t, j, r) /\ u.conns[j] = t.conns[j]
        BY <2>7, <3>1 DEF Sound
      <4>2. QED BY <2>4, <4>1 DEF Paired, HasNoRow, HasOneRow
    <3>2. CASE j = n
      <4>1. \A k \in DOMAIN t.members : t.members[k].conn # t.nextId
        <5>1. \A k \in DOMAIN t.members :
                t.members[k].conn # NoId => t.members[k].conn < t.nextId
          BY <2>9 DEF Sound, Owned
        <5>2. QED BY <1>0, <5>1 DEF NoId
      <4>2. MemberRows(u.members, c.id, r) = {}
        BY <2>2, <2>4, <4>1 DEF MemberRows
      <4>3. QED BY <2>3, <2>c, <3>2, <4>2 DEF Paired, HasNoRow
    <3>3. QED BY <2>6, <3>1, <3>2
  <2>13. i = n
    <3>1. n \in LapRows(u.conns, lap)
      BY <2>2, <2>3, <2>8 DEF LapRows
    <3>2. i \in DOMAIN u.conns /\ u.conns[i].lap = lap
      BY <3>1, IndexOfLapIs
    <3>3. QED BY <2>2, <2>3, <2>8, <2>10, <3>2 DEF IdsAgree
  <2>14. Sound(u)
    BY <2>4, <2>10, <2>11, <2>12 DEF Sound
  <2>15. \A j \in DOMAIN u.conns : \/ j \in DOMAIN t.conns /\ u.conns[j] = t.conns[j]
                                   \/ j = i /\ u.conns[j].total = 0
    BY <2>2, <2>3, <2>6, <2>7, <2>13
  <2> HIDE DEF i
  <2>16. QED BY <1>2, <2>2, <2>3, <2>7, <2>8, <2>13, <2>14, <2>15 DEF u, i
<1>3. QED BY <1>1, <1>2

\* A packet counts for a role whose row is still to be made.
LEMMA LinkAddsFacts ==
  ASSUME NEW c \in LapConn, NEW clk \in Nat, NEW newest \in BOOLEAN,
         NEW role \in Role \cup {NoRole}
  PROVE  LET d == LinkAdds(c, clk, newest, role) IN
         /\ d \in LapConn /\ d.lap = c.lap /\ d.id = c.id /\ d.device = c.device
         /\ d.total = c.total + 1
         /\ d.first = IF c.total = 0 THEN clk ELSE c.first
         /\ d.last = IF newest THEN clk ELSE c.last
         /\ \A r \in Role : d.packets[r] = IF r = role THEN c.packets[r] + 1 ELSE c.packets[r]
<1> DEFINE first == IF c.total = 0 THEN clk ELSE c.first
           last == IF newest THEN clk ELSE c.last
           n == c.total + 1
           ps == [r \in Role |-> IF r = role THEN c.packets[r] + 1 ELSE c.packets[r]]
           d == LinkAdds(c, clk, newest, role)
<1>1. first \in Nat /\ last \in Nat /\ n \in Nat /\ ps \in [Role -> Nat]
  BY DEF LapConn
<1>2. d = [c EXCEPT !.total = n, !.first = first, !.last = last, !.packets = ps]
  BY DEF LinkAdds
<1>3. \A r \in Role : ps[r] = IF r = role THEN c.packets[r] + 1 ELSE c.packets[r]
  OBVIOUS
<1> HIDE DEF first, last, n, ps, d
<1>4. /\ d \in LapConn /\ d.lap = c.lap /\ d.id = c.id /\ d.device = c.device
      /\ d.total = n /\ d.first = first /\ d.last = last /\ d.packets = ps
  BY <1>1, <1>2 DEF LapConn
<1>5. QED BY <1>3, <1>4 DEF first, last, n, d

LEMMA RoleAssumption == LtAddrs \subseteq Nat /\ NoRole \notin Role /\ NoId = 0
BY BredrRegistryAssumption DEF NoRole, Role, Central, NoId

\* The tables with another connection at index i.
WithLink(t, i, d) == [t EXCEPT !.conns[i] = d]

LEMMA PacketFacts ==
  ASSUME NEW t, Sound(t), NEW i \in DOMAIN t.conns, NEW d \in LapConn,
         NEW role \in Role \cup {NoRole},
         d.lap = t.conns[i].lap, d.id = t.conns[i].id, d.device = t.conns[i].device,
         \A r \in Role : d.packets[r] = IF r = role THEN t.conns[i].packets[r] + 1
                                        ELSE t.conns[i].packets[r]
  PROVE  LET u == WithLink(t, i, d) IN
         /\ IF role = NoRole THEN Sound(u) ELSE SoundBut(u, i, role)
         /\ DOMAIN u.conns = DOMAIN t.conns
         /\ \A j \in DOMAIN u.conns : u.conns[j] = IF j = i THEN d ELSE t.conns[j]
<1> DEFINE u == WithLink(t, i, d)
<1>0. t.conns \in Seq(LapConn) /\ t \in TableTypes
  BY DEF Sound, TableTypes
<1>1. /\ u.conns = [t.conns EXCEPT ![i] = d] /\ u.members = t.members
      /\ u.nextId = t.nextId /\ u \in TableTypes
  <2> DEFINE cs == [t.conns EXCEPT ![i] = d]
  <2>1. cs \in Seq(LapConn)
    BY <1>0, SeqDomain, ExceptSeq
  <2>2. u = [t EXCEPT !.conns = cs]
    BY <1>0 DEF TableTypes, WithLink
  <2> HIDE DEF cs
  <2>3. QED BY <1>0, <2>1, <2>2 DEF TableTypes, cs
<1> HIDE DEF u
<1>2. /\ DOMAIN u.conns = DOMAIN t.conns
      /\ \A j \in DOMAIN u.conns : u.conns[j] = IF j = i THEN d ELSE t.conns[j]
  BY <1>1
<1>3. IdsAgree(u)
  <2>1. \A j \in DOMAIN u.conns : /\ u.conns[j].lap = t.conns[j].lap
                                  /\ u.conns[j].id = t.conns[j].id
    BY <1>2
  <2>2. QED BY <1>1, <1>2, <2>1 DEF Sound, IdsAgree
<1>4. \A j \in DOMAIN u.conns : \A r \in Role :
        /\ t.conns[j].packets[r] \in Nat
        /\ u.conns[j].packets[r] = t.conns[j].packets[r] \/
             (j = i /\ r = role /\ u.conns[j].packets[r] = t.conns[j].packets[r] + 1)
  <2>1. ASSUME NEW j \in DOMAIN u.conns, NEW r \in Role
        PROVE  t.conns[j].packets[r] \in Nat
    <3>1. t.conns[j] \in LapConn
      BY <1>0, <1>2, SeqDomain
    <3>2. QED BY <3>1 DEF LapConn
  <2>2. QED BY <1>2, <2>1
<1>5. Owned(u)
  <2>1. ASSUME NEW k \in DOMAIN u.members, u.members[k].conn # NoId
        PROVE  \E j \in DOMAIN u.conns : /\ u.conns[j].id = u.members[k].conn
                                         /\ u.conns[j].packets[u.members[k].role] > 0
    <3>1. PICK j \in DOMAIN t.conns : /\ t.conns[j].id = t.members[k].conn
                                      /\ t.conns[j].packets[t.members[k].role] > 0
      BY <1>1, <2>1 DEF Sound, Owned
    <3>2. t.members[k].role \in Role
      <4>1. t.members \in Seq(Member)
        BY <1>0 DEF TableTypes
      <4>2. t.members[k] \in Member
        BY <1>1, <2>1, <4>1, SeqDomain
      <4>3. QED BY <4>2 DEF Member
    <3>3. u.conns[j].packets[t.members[k].role] > 0
      BY <1>2, <1>4, <3>1, <3>2
    <3>4. u.conns[j].id = t.conns[j].id
      BY <1>2, <3>1
    <3>5. QED BY <1>1, <1>2, <3>1, <3>3, <3>4
  <2>2. QED BY <2>1 DEF Owned
<1>6. ASSUME NEW j \in DOMAIN u.conns, NEW r \in Role
      PROVE  /\ HasNoRow(u, u.conns[j], r) <=> HasNoRow(t, t.conns[j], r)
             /\ HasOneRow(u, u.conns[j], r) <=> HasOneRow(t, t.conns[j], r)
  <2>1. /\ u.conns[j].lap = t.conns[j].lap /\ u.conns[j].id = t.conns[j].id
        /\ u.conns[j].device = t.conns[j].device
    BY <1>2
  <2>2. QED BY <1>1, <2>1 DEF HasNoRow, HasOneRow
<1>7. ASSUME NEW j \in DOMAIN u.conns, NEW r \in Role, j # i \/ r # role
      PROVE  Paired(u, j, r)
  <2>1. u.conns[j].packets[r] = t.conns[j].packets[r] /\ Paired(t, j, r)
    BY <1>2, <1>4, <1>7 DEF Sound
  <2>2. QED BY <1>6, <2>1 DEF Paired
<1>8. CASE role = NoRole
  <2>1. Sound(u)
    BY <1>1, <1>3, <1>5, <1>7, <1>8, RoleAssumption DEF Sound
  <2>2. QED BY <1>2, <1>8, <2>1 DEF u
<1>9. CASE role # NoRole
  <2>1. role \in Role /\ i \in DOMAIN u.conns
    BY <1>2, <1>9
  <2>2. u.conns[i].packets[role] > 0
    <3>1. t.conns[i].packets[role] \in Nat /\ u.conns[i].packets[role] = t.conns[i].packets[role] + 1
      BY <1>2, <1>4, <2>1
    <3>2. QED BY <3>1
  <2>3. HasNoRow(u, u.conns[i], role) \/ HasOneRow(u, u.conns[i], role)
    BY <1>6, <2>1 DEF Sound, Paired
  <2>4. SoundBut(u, i, role)
    BY <1>1, <1>3, <1>5, <1>7, <2>1, <2>2, <2>3 DEF SoundBut
  <2>5. QED BY <1>2, <1>9, <2>4 DEF u
<1>10. QED BY <1>8, <1>9

\* The missing row is made and named by the connection.
LEMMA WithMemberFacts ==
  ASSUME NEW t, NEW i, NEW role, SoundBut(t, i, role)
  PROVE  LET u == WithMember(t, i, role) IN
         /\ Sound(u) /\ DOMAIN u.conns = DOMAIN t.conns
         /\ \A j \in DOMAIN u.conns :
              /\ u.conns[j].lap = t.conns[j].lap /\ u.conns[j].first = t.conns[j].first
              /\ u.conns[j].last = t.conns[j].last /\ u.conns[j].total = t.conns[j].total
<1> DEFINE c == t.conns[i]
           rows == MemberRows(t.members, c.id, role)
           new == [id |-> t.nextId, conn |-> c.id, role |-> role, lap |-> c.lap]
           t1 == IF rows # {} THEN t
                 ELSE [t EXCEPT !.members = Append(t.members, new), !.nextId = t.nextId + 1]
           row == CHOOSE k \in MemberRows(t1.members, c.id, role) : TRUE
           id == t1.members[row].id
           u == WithMember(t, i, role)
<1>0. /\ t \in TableTypes /\ t.conns \in Seq(LapConn) /\ t.members \in Seq(Member)
      /\ t.nextId \in Nat \ {0} /\ i \in DOMAIN t.conns /\ role \in Role
      /\ c \in LapConn /\ c.id \in 1 .. t.nextId - 1
  BY SeqDomain DEF SoundBut, TableTypes, IdsAgree
<1>1. u = [t1 EXCEPT !.conns[i].device[role] = id]
  BY DEF WithMember
<1> HIDE DEF c, u
\* With the row that was made, if it had to be.
<1>2. /\ t1 \in TableTypes /\ t1.conns = t.conns /\ IdsAgree(t1) /\ Owned(t1)
      /\ \E k \in DOMAIN t1.members :
           /\ MemberRows(t1.members, c.id, role) = {k} /\ t1.members[k].lap = c.lap
      /\ \A j \in DOMAIN t.conns : \A q \in Role : j # i \/ q # role =>
           Paired(t1, j, q)
  <2>1. CASE rows # {}
    <3>1. t1 = t
      BY <2>1
    <3>2. \E k \in DOMAIN t.members : rows = {k} /\ t.members[k].lap = c.lap
      <4>1. HasOneRow(t, c, role)
        BY <2>1 DEF SoundBut, HasNoRow, c
      <4>2. QED BY <4>1 DEF HasOneRow, MemberRows
    <3>3. QED BY <3>1, <3>2 DEF SoundBut
  <2>2. CASE rows = {}
    <3> DEFINE ms == Append(t.members, new)  next == t.nextId + 1  n == Len(t.members) + 1
    <3>1. t1 = [t EXCEPT !.members = ms, !.nextId = next]
      BY <2>2
    <3>2. /\ new \in Member /\ new.id = t.nextId /\ new.conn = c.id /\ new.role = role
          /\ new.lap = c.lap
      BY <1>0 DEF LapConn, Member
    <3> HIDE DEF new, t1
    <3>3. /\ ms \in Seq(Member) /\ next \in Nat \ {0} /\ Len(ms) = n
          /\ \A k \in 1 .. Len(t.members) : ms[k] = t.members[k]
          /\ ms[n] = new
      BY <1>0, <3>2, AppendProperties
    <3>4. /\ DOMAIN ms = 1 .. n /\ DOMAIN t.members = 1 .. Len(t.members)
          /\ Len(t.members) \in Nat
      BY <1>0, <3>3, SeqDomain
    <3>5. /\ \A k \in DOMAIN ms : k \in DOMAIN t.members \/ k = n
          /\ \A k \in DOMAIN t.members : k \in DOMAIN ms /\ ms[k] = t.members[k] /\ k # n
          /\ n \in DOMAIN ms
      BY <3>3, <3>4
    <3>n. next = t.nextId + 1
      OBVIOUS
    <3> HIDE DEF ms, next, n
    <3>6. /\ t1 \in TableTypes /\ t1.conns = t.conns /\ t1.members = ms
          /\ t1.nextId = next
      BY <1>0, <3>1, <3>3 DEF TableTypes
    <3>7. IdsAgree(t1)
      <4>1. /\ \A k \in DOMAIN t.members : t.members[k].id \in 1 .. t.nextId - 1
            /\ \A j \in DOMAIN t.conns : t.conns[j].id \in 1 .. t.nextId - 1
            /\ \A k, m \in DOMAIN t.members : t.members[k].id = t.members[m].id => k = m
            /\ \A j \in DOMAIN t.conns : \A k \in DOMAIN t.members :
                 t.conns[j].id # t.members[k].id
        BY DEF SoundBut, IdsAgree
      <4>2. \A k \in DOMAIN ms : ms[k].id \in 1 .. next - 1
        <5>1. ASSUME NEW k \in DOMAIN ms PROVE ms[k].id \in 1 .. next - 1
          <6>1. CASE k = n
            BY <1>0, <3>2, <3>3, <3>n, <6>1
          <6>2. CASE k \in DOMAIN t.members
            <7>1. ms[k].id \in 1 .. t.nextId - 1
              BY <3>5, <4>1, <6>2
            <7>2. QED BY <1>0, <3>n, <7>1
          <6>3. QED BY <3>5, <6>1, <6>2
        <5>2. QED BY <5>1
      <4>3. \A j \in DOMAIN t.conns : t.conns[j].id \in 1 .. next - 1
        BY <1>0, <3>n, <4>1
      <4>4. \A k, m \in DOMAIN ms : ms[k].id = ms[m].id => k = m
        <5>1. \A k \in DOMAIN t.members : t.members[k].id # t.nextId
          BY <1>0, <4>1
        <5>2. QED BY <3>2, <3>3, <3>5, <4>1, <5>1
      <4>5. \A j \in DOMAIN t.conns : \A k \in DOMAIN ms : t.conns[j].id # ms[k].id
        <5>1. \A j \in DOMAIN t.conns : t.conns[j].id # t.nextId
          BY <1>0, <4>1
        <5>2. QED BY <3>2, <3>3, <3>5, <4>1, <5>1
      <4>6. QED BY <3>6, <4>2, <4>3, <4>4, <4>5 DEF SoundBut, IdsAgree
    <3>8. Owned(t1)
      <4>1. ASSUME NEW k \in DOMAIN ms, ms[k].conn # NoId
            PROVE  \E j \in DOMAIN t.conns : /\ t.conns[j].id = ms[k].conn
                                             /\ t.conns[j].packets[ms[k].role] > 0
        <5>1. CASE k \in DOMAIN t.members
          BY <3>5, <4>1, <5>1 DEF SoundBut, Owned
        <5>2. CASE k = n
          BY <1>0, <3>2, <3>3, <5>2 DEF SoundBut, c
        <5>3. QED BY <3>5, <4>1, <5>1, <5>2
      <4>2. QED BY <3>6, <4>1 DEF Owned
    <3>9. MemberRows(ms, c.id, role) = {n} /\ ms[n].lap = c.lap /\ n \in DOMAIN ms
      BY <2>2, <3>2, <3>3, <3>5 DEF MemberRows
    <3>10. ASSUME NEW j \in DOMAIN t.conns, NEW q \in Role, j # i \/ q # role
           PROVE  Paired(t1, j, q)
      <4>1. t.conns[j].id # c.id \/ q # role
        BY <1>0, <3>10 DEF SoundBut, IdsAgree, c
      <4>2. MemberRows(ms, t.conns[j].id, q) = MemberRows(t.members, t.conns[j].id, q)
        BY <3>2, <3>3, <3>5, <4>1 DEF MemberRows
      <4>3. \A k \in MemberRows(t.members, t.conns[j].id, q) : ms[k] = t.members[k]
        BY <3>5 DEF MemberRows
      <4>4. Paired(t, j, q)
        BY <3>10 DEF SoundBut
      <4>5. QED BY <3>6, <4>2, <4>3, <4>4 DEF Paired, HasNoRow, HasOneRow
    <3>11. QED BY <3>6, <3>7, <3>8, <3>9, <3>10
  <2>3. QED BY <2>1, <2>2
<1> HIDE DEF t1, rows
<1>3. PICK k \in DOMAIN t1.members :
        MemberRows(t1.members, c.id, role) = {k} /\ t1.members[k].lap = c.lap
  BY <1>2
<1>4. id = t1.members[k].id /\ id \in Nat
  <2>1. row = k
    BY <1>3
  <2>2. t1.members[k] \in Member
    BY <1>2, <1>3, SeqDomain DEF TableTypes
  <2>3. QED BY <2>1, <2>2 DEF Member
<1> HIDE DEF id, row
<1> DEFINE dev == [c.device EXCEPT ![role] = id]
           d == [c EXCEPT !.device = dev]
           cs == [t.conns EXCEPT ![i] = d]
<1>5. dev \in [Role -> Nat] /\ \A q \in Role : dev[q] = IF q = role THEN id ELSE c.device[q]
  BY <1>0, <1>4 DEF LapConn
<1>6. u = [t1 EXCEPT !.conns = cs]
  <2>1. t1.conns = t.conns
    BY <1>2
  <2>2. QED BY <1>0, <1>1, <1>2, <2>1 DEF c, LapConn, TableTypes
<1> HIDE DEF dev
<1>7. /\ d \in LapConn /\ d.lap = c.lap /\ d.id = c.id /\ d.packets = c.packets
      /\ d.first = c.first /\ d.last = c.last /\ d.total = c.total /\ d.device = dev
  BY <1>0, <1>5 DEF LapConn
<1> HIDE DEF d
<1>8. /\ cs \in Seq(LapConn) /\ DOMAIN cs = DOMAIN t.conns
      /\ \A j \in DOMAIN cs : cs[j] = IF j = i THEN d ELSE t.conns[j]
  BY <1>0, <1>7, SeqDomain, ExceptSeq
<1> HIDE DEF cs
<1>9. /\ u \in TableTypes /\ u.conns = cs /\ u.members = t1.members /\ u.nextId = t1.nextId
  BY <1>2, <1>6, <1>8 DEF TableTypes
<1>10. ASSUME NEW j \in DOMAIN cs
       PROVE  /\ cs[j].lap = t.conns[j].lap /\ cs[j].id = t.conns[j].id
              /\ cs[j].packets = t.conns[j].packets /\ cs[j].first = t.conns[j].first
              /\ cs[j].last = t.conns[j].last /\ cs[j].total = t.conns[j].total
  BY <1>7, <1>8 DEF c
<1>11. IdsAgree(u)
  BY <1>2, <1>8, <1>9, <1>10 DEF IdsAgree
<1>12. Owned(u)
  BY <1>2, <1>8, <1>9, <1>10 DEF Owned
<1>13. ASSUME NEW j \in DOMAIN cs, NEW q \in Role PROVE Paired(u, j, q)
  <2>1. CASE j = i /\ q = role
    <3>1. /\ cs[j].packets[q] # 0 /\ cs[j].device[q] = id /\ cs[j].id = c.id
          /\ cs[j].lap = c.lap
      BY <1>0, <1>5, <1>7, <1>8, <2>1 DEF SoundBut, c
    <3>2. HasOneRow(u, cs[j], q)
      BY <1>3, <1>4, <1>9, <2>1, <3>1 DEF HasOneRow
    <3>3. QED BY <1>9, <3>1, <3>2 DEF Paired
  <2>2. CASE j # i \/ q # role
    <3>1. Paired(t1, j, q)
      BY <1>2, <1>8, <1>13, <2>2
    <3>2. /\ cs[j].device[q] = t.conns[j].device[q] /\ cs[j].packets[q] = t.conns[j].packets[q]
          /\ cs[j].id = t.conns[j].id /\ cs[j].lap = t.conns[j].lap
      BY <1>5, <1>7, <1>8, <1>10, <1>13, <2>2 DEF c
    <3>3. QED BY <1>2, <1>9, <3>1, <3>2 DEF Paired, HasOneRow, HasNoRow
  <2>3. QED BY <2>1, <2>2
<1>14. Sound(u)
  BY <1>9, <1>11, <1>12, <1>13 DEF Sound
<1>15. QED BY <1>8, <1>9, <1>10, <1>14 DEF u

-----------------------------------------------------------------------------
(* The invariant *)

\* The receive clocks of packets: less than half the range.
HalfRange == 0 .. (ClkModulus \div 2) - 1

TallyInv ==
  /\ lapPending \in Tally(Laps) /\ OncePerKey(lapPending)
  /\ \A p \in DOMAIN lapPending :
       /\ LapRows(lapConns, lapPending[p].key) = {}
       /\ lapPending[p].count < threshold

\* A connection has a packet, and its last one was not sent before its first.
Timed(c) ==
  /\ c.total > 0 /\ c.first \in HalfRange /\ c.last \in HalfRange
  /\ c.first <= c.last

TimesInv ==
  /\ clkBase \in HalfRange \cup {NoBase}
  /\ \A i \in DOMAIN lapConns : Timed(lapConns[i]) /\ clkBase # NoBase

LapInv == Sound(LapTables) /\ TallyInv /\ TimesInv

LEMMA LapAssumptions ==
  /\ LapPendingCap \in Nat \ {0} /\ ClkModulus \in Nat \ {0}
  /\ \A s \in LapStarts : s \in HalfRange /\ s \in Nat /\ RxClkOf(s) = s
<1>1. /\ LapPendingCap \in Nat \ {0} /\ ClkModulus \in Nat \ {0}
      /\ LapStarts \subseteq HalfRange
  BY BredrRegistryAssumption DEF HalfRange
<1>2. ASSUME NEW s \in LapStarts PROVE s \in HalfRange /\ s \in Nat /\ RxClkOf(s) = s
  <2>1. s \in 0 .. ClkModulus - 1
    BY <1>1 DEF HalfRange
  <2>2. s % ClkModulus = s
    BY <1>1, <2>1, Z3
  <2>3. QED BY <1>1, <2>1, <2>2 DEF RxClkOf
<1>3. QED BY <1>1, <1>2

LEMMA LapStart == LapInit => LapInv
<1> SUFFICES ASSUME LapInit PROVE LapInv
  OBVIOUS
<1>1. /\ lapConns = <<>> /\ members = <<>> /\ lapPending = <<>> /\ lapNextId = 1
      /\ clkBase = NoBase
  BY DEF LapInit
<1>2. LapTables \in TableTypes
  BY <1>1 DEF LapTables, TableTypes
<1>3. DOMAIN lapConns = {} /\ DOMAIN members = {} /\ DOMAIN lapPending = {}
  BY <1>1
<1>4. Sound(LapTables)
  BY <1>2, <1>3 DEF LapTables, Sound, IdsAgree, Owned
<1>5. TallyInv
  BY <1>1, <1>3 DEF TallyInv, Tally, OncePerKey
<1>6. TimesInv
  BY <1>1, <1>3 DEF TimesInv
<1>7. QED BY <1>4, <1>5, <1>6 DEF LapInv

LEMMA LinkTimed ==
  ASSUME NEW c, NEW d, NEW clk \in HalfRange, NEW newest \in BOOLEAN,
         c.total \in Nat,
         d.total = c.total + 1,
         d.first = IF c.total = 0 THEN clk ELSE c.first,
         d.last = IF newest THEN clk ELSE c.last,
         \/ c.total = 0 /\ newest
         \/ Timed(c) /\ (newest <=> c.last <= clk)
  PROVE  Timed(d)
<1>1. CASE c.total = 0 /\ newest
  BY <1>1 DEF Timed, HalfRange
<1>2. CASE Timed(c) /\ (newest <=> c.last <= clk)
  <2>1. c.first \in HalfRange /\ c.last \in HalfRange /\ c.first <= c.last /\ c.total # 0
    BY <1>2 DEF Timed
  <2>2. CASE newest
    BY <1>2, <2>1, <2>2 DEF Timed, HalfRange
  <2>3. CASE ~newest
    BY <1>2, <2>1, <2>3 DEF Timed, HalfRange
  <2>4. QED BY <2>2, <2>3
<1>3. QED BY <1>1, <1>2

\* A packet of a LAP that is not yet to have a connection.
LEMMA TalliedKeeps ==
  ASSUME LapInv, NEW lap \in Laps, LapRows(lapConns, lap) = {},
         CountOf(Bumped(lapPending, lap, LapPendingCap), lap) < threshold,
         lapPending' = Bumped(lapPending, lap, LapPendingCap),
         UNCHANGED <<lapConns, members, lapNextId, threshold>>,
         clkBase' \in HalfRange
  PROVE  LapInv'
<1> DEFINE u == Bumped(lapPending, lap, LapPendingCap)
<1>1. /\ lapPending \in Tally(Laps) /\ OncePerKey(lapPending)
      /\ \A p \in DOMAIN lapPending :
           /\ LapRows(lapConns, lapPending[p].key) = {}
           /\ lapPending[p].count < threshold
  BY DEF LapInv, TallyInv
<1>2. /\ u \in Tally(Laps) /\ OncePerKey(u)
      /\ \A i \in DOMAIN u : u[i].key # lap => \E j \in DOMAIN lapPending : u[i] = lapPending[j]
  BY <1>1, LapAssumptions, BumpedFacts
<1>3. CountOf(u, lap) < threshold
  OBVIOUS
<1>a. lapPending' = u
  OBVIOUS
<1> HIDE DEF u
<1>4. ASSUME NEW p \in DOMAIN u
      PROVE  LapRows(lapConns, u[p].key) = {} /\ u[p].count < threshold
  <2>1. CASE u[p].key = lap
    <3>1. CountOf(u, u[p].key) = u[p].count
      BY <1>2, <1>4, SeqDomain, CountIs DEF Tally
    <3>2. QED BY <1>3, <2>1, <3>1
  <2>2. CASE u[p].key # lap
    BY <1>1, <1>2, <2>2
  <2>3. QED BY <2>1, <2>2
<1>5. TallyInv'
  BY <1>a, <1>2, <1>4 DEF TallyInv
<1>6. Sound(LapTables)'
  <2>1. LapTables' = LapTables
    BY DEF LapTables
  <2>2. Sound(LapTables)
    BY DEF LapInv
  <2>3. QED BY <2>1, <2>2
<1>7. TimesInv'
  <2>1. NoBase \notin HalfRange
    BY DEF NoBase, HalfRange
  <2>2. QED BY <2>1 DEF LapInv, TimesInv
<1>8. QED BY <1>5, <1>6, <1>7 DEF LapInv

\* A packet of a LAP that has a connection, or now gets one.
LEMMA RoutedKeeps ==
  ASSUME LapInv, NEW lap \in Laps, NEW clk \in HalfRange, clk \in Nat, NEW tally,
         tally = IF LapRows(lapConns, lap) # {} THEN lapPending
                 ELSE Bumped(lapPending, lap, LapPendingCap),
         NEW o \in Outcome(lapConns, lap, clk),
         LET t1 == WithConn(LapTables, lap)
             i == IndexOfLap(t1.conns, lap)
             t2 == [t1 EXCEPT !.conns[i] = LinkAdds(@, clk, o.newest, o.role)]
             t3 == WithMembers(t2, i, o.role)
         IN lapConns' = t3.conns /\ members' = t3.members /\ lapNextId' = t3.nextId,
         lapPending' = Untallied(tally, lap),
         threshold' = threshold, clkBase' \in HalfRange
  PROVE  LapInv'
<1> DEFINE t1 == WithConn(LapTables, lap)
           i == IndexOfLap(t1.conns, lap)
           c == t1.conns[i]
           d == LinkAdds(c, clk, o.newest, o.role)
           t2 == WithLink(t1, i, d)
           t3 == WithMembers(t2, i, o.role)
<1>1. lapConns' = t3.conns /\ members' = t3.members /\ lapNextId' = t3.nextId
  <2>1. t2 = [t1 EXCEPT !.conns[i] = LinkAdds(@, clk, o.newest, o.role)]
    BY DEF WithLink
  <2>2. QED BY <2>1
<1>2. /\ Sound(t1) /\ i \in DOMAIN t1.conns /\ c.lap = lap
      /\ \A j \in DOMAIN t1.conns :
           \/ j \in DOMAIN lapConns /\ t1.conns[j] = lapConns[j]
           \/ j = i /\ t1.conns[j].total = 0 /\ LapRows(lapConns, lap) = {}
      /\ LapRows(lapConns, lap) # {} => t1 = LapTables
  <2>1. LapTables.conns = lapConns
    BY DEF LapTables
  <2>2. Sound(LapTables)
    BY DEF LapInv
  <2> DEFINE t == LapTables
  <2> HIDE DEF t
  <2>3. Sound(t) /\ t.conns = lapConns /\ t1 = WithConn(t, lap)
    BY <2>1, <2>2 DEF t
  <2>4. /\ Sound(WithConn(t, lap))
        /\ IndexOfLap(WithConn(t, lap).conns, lap) \in DOMAIN WithConn(t, lap).conns
        /\ WithConn(t, lap).conns[IndexOfLap(WithConn(t, lap).conns, lap)].lap = lap
        /\ \A j \in DOMAIN WithConn(t, lap).conns :
             \/ j \in DOMAIN t.conns /\ WithConn(t, lap).conns[j] = t.conns[j]
             \/ /\ j = IndexOfLap(WithConn(t, lap).conns, lap)
                /\ WithConn(t, lap).conns[j].total = 0 /\ LapRows(t.conns, lap) = {}
        /\ LapRows(t.conns, lap) # {} => WithConn(t, lap) = t
    <3>1. \A x : Sound(x) =>
            LET u == WithConn(x, lap)  k == IndexOfLap(u.conns, lap) IN
            /\ Sound(u) /\ k \in DOMAIN u.conns /\ u.conns[k].lap = lap
            /\ DOMAIN x.conns \subseteq DOMAIN u.conns
            /\ \A j \in DOMAIN u.conns :
                 \/ j \in DOMAIN x.conns /\ u.conns[j] = x.conns[j]
                 \/ j = k /\ u.conns[j].total = 0 /\ LapRows(x.conns, lap) = {}
            /\ LapRows(x.conns, lap) # {} => u = x
      BY WithConnFacts
    <3>2. Sound(t)
      BY <2>3
    <3>3. QED BY <3>1, <3>2, Zenon
  <2>5. QED BY <2>3, <2>4 DEF t
<1>3. /\ o.newest \in BOOLEAN /\ o.role \in Role \cup {NoRole}
      /\ o.newest <=> \/ LapRows(lapConns, lap) = {}
                      \/ lapConns[IndexOfLap(lapConns, lap)].last <= clk
  BY DEF Outcome
<1> HIDE DEF t1, i
<1>4. c \in LapConn /\ c.total \in Nat
  <2>1. t1.conns \in Seq(LapConn)
    BY <1>2 DEF Sound, TableTypes
  <2>2. c \in LapConn
    BY <1>2, <2>1, SeqDomain
  <2>3. QED BY <2>2 DEF LapConn
<1>5. /\ d \in LapConn /\ d.lap = c.lap /\ d.id = c.id /\ d.device = c.device
      /\ d.total = c.total + 1
      /\ d.first = IF c.total = 0 THEN clk ELSE c.first
      /\ d.last = IF o.newest THEN clk ELSE c.last
      /\ \A r \in Role : d.packets[r] = IF r = o.role THEN c.packets[r] + 1 ELSE c.packets[r]
  BY <1>3, <1>4, LinkAddsFacts
<1> HIDE DEF d
<1>6. /\ IF o.role = NoRole THEN Sound(t2) ELSE SoundBut(t2, i, o.role)
      /\ DOMAIN t2.conns = DOMAIN t1.conns
      /\ \A j \in DOMAIN t2.conns : t2.conns[j] = IF j = i THEN d ELSE t1.conns[j]
  <2>1. /\ Sound(t1) /\ i \in DOMAIN t1.conns /\ d \in LapConn
        /\ o.role \in Role \cup {NoRole}
        /\ d.lap = t1.conns[i].lap /\ d.id = t1.conns[i].id
        /\ d.device = t1.conns[i].device
        /\ \A r \in Role : d.packets[r] = IF r = o.role THEN t1.conns[i].packets[r] + 1
                                           ELSE t1.conns[i].packets[r]
    BY <1>2, <1>3, <1>5
  <2> HIDE DEF c
  <2>2. QED BY <2>1, PacketFacts
<1> HIDE DEF t2
<1>7. /\ Sound(t3) /\ DOMAIN t3.conns = DOMAIN t2.conns
      /\ \A j \in DOMAIN t3.conns :
           /\ t3.conns[j].lap = t2.conns[j].lap /\ t3.conns[j].first = t2.conns[j].first
           /\ t3.conns[j].last = t2.conns[j].last /\ t3.conns[j].total = t2.conns[j].total
  <2>1. CASE o.role = NoRole
    BY <1>6, <2>1 DEF WithMembers
  <2>2. CASE o.role # NoRole
    <3>1. t3 = WithMember(t2, i, o.role)
      BY <2>2 DEF WithMembers
    <3>2. QED BY <1>6, <2>2, <3>1, WithMemberFacts
  <2>3. QED BY <2>1, <2>2
<1> HIDE DEF t3
<1>8. Timed(d)
  <2>1. CASE c.total = 0 /\ LapRows(lapConns, lap) = {}
    <3>1. o.newest
      BY <1>3, <2>1
    <3>2. QED BY <1>3, <1>4, <1>5, <2>1, <3>1, LinkTimed
  <2>2. CASE i \in DOMAIN lapConns /\ c = lapConns[i]
    <3>1. i \in LapRows(lapConns, lap)
      BY <1>2, <2>2 DEF LapRows
    <3>2. t1.conns = lapConns
      BY <1>2, <3>1 DEF LapTables
    <3>3. o.newest <=> c.last <= clk
      BY <1>3, <3>1, <3>2, <2>2 DEF i
    <3>4. Timed(c)
      BY <2>2 DEF LapInv, TimesInv
    <3>5. QED BY <1>3, <1>4, <1>5, <3>3, <3>4, LinkTimed
  <2>3. QED BY <1>2, <2>1, <2>2
<1>9. TimesInv'
  <2>1. ASSUME NEW j \in DOMAIN t3.conns PROVE Timed(t3.conns[j])
    <3>1. Timed(t2.conns[j])
      BY <1>2, <1>6, <1>7, <1>8, <2>1 DEF LapInv, TimesInv
    <3>2. QED BY <1>7, <2>1, <3>1 DEF Timed
  <2>2. NoBase \notin HalfRange
    BY DEF NoBase, HalfRange
  <2>3. QED BY <1>1, <2>1, <2>2 DEF TimesInv
<1>10. Sound(LapTables)'
  <2>1. t3 \in TableTypes
    BY <1>7 DEF Sound
  <2>2. LapTables' = t3
    BY <1>1, <2>1 DEF LapTables, TableTypes
  <2>3. QED BY <1>7, <2>2
<1>11. TallyInv'
  <2> DEFINE u == Untallied(tally, lap)
  <2>1. /\ lapPending \in Tally(Laps) /\ OncePerKey(lapPending)
        /\ \A p \in DOMAIN lapPending :
             /\ LapRows(lapConns, lapPending[p].key) = {}
             /\ lapPending[p].count < threshold
    BY DEF LapInv, TallyInv
  <2>2. /\ tally \in Tally(Laps) /\ OncePerKey(tally)
        /\ \A p \in DOMAIN tally : tally[p].key # lap =>
             \E j \in DOMAIN lapPending : tally[p] = lapPending[j]
    <3>1. CASE LapRows(lapConns, lap) # {}
      BY <2>1, <3>1
    <3>2. CASE LapRows(lapConns, lap) = {}
      <4>1. tally = Bumped(lapPending, lap, LapPendingCap)
        BY <3>2
      <4>2. QED BY <2>1, <4>1, LapAssumptions, BumpedFacts
    <3>3. QED BY <3>1, <3>2
  <2>3. /\ u \in Tally(Laps) /\ OncePerKey(u)
        /\ \A p \in DOMAIN u : u[p].key # lap /\ \E j \in DOMAIN tally : u[p] = tally[j]
    BY <2>2, UntalliedFacts
  <2>4. lapPending' = u
    OBVIOUS
  <2> HIDE DEF u
  <2>5. ASSUME NEW p \in DOMAIN u
        PROVE  LapRows(t3.conns, u[p].key) = {} /\ u[p].count < threshold
    <3>1. PICK j \in DOMAIN lapPending : u[p] = lapPending[j]
      BY <2>2, <2>3, <2>5
    <3>2. LapRows(lapConns, u[p].key) = {} /\ u[p].key # lap /\ u[p].count < threshold
      BY <2>1, <2>3, <2>5, <3>1
    <3>3. ASSUME NEW k \in DOMAIN t3.conns PROVE t3.conns[k].lap # u[p].key
      <4>1. t3.conns[k].lap = t1.conns[k].lap /\ k \in DOMAIN t1.conns
        BY <1>5, <1>6, <1>7, <3>3
      <4>2. QED BY <1>2, <3>2, <4>1 DEF LapRows
    <3>4. QED BY <3>2, <3>3 DEF LapRows
  <2>6. QED BY <1>1, <2>3, <2>4, <2>5 DEF TallyInv
<1>12. QED BY <1>9, <1>10, <1>11 DEF LapInv

\* A row of a LAP without a connection belongs to nobody.
LEMMA StandaloneKeeps ==
  ASSUME LapInv, NEW lap \in Laps, AddStandalone(lap)
  PROVE  LapInv'
<1>1. UNCHANGED <<lapConns, lapPending, threshold, clkBase>>
  BY DEF AddStandalone
<1>2. TallyInv' /\ TimesInv'
  BY <1>1 DEF LapInv, TallyInv, TimesInv
<1>3. Sound(LapTables)
  BY DEF LapInv
<1>4. CASE UNCHANGED <<members, lapNextId>>
  <2>1. LapTables' = LapTables
    BY <1>1, <1>4 DEF LapTables
  <2>2. QED BY <1>2, <1>3, <2>1 DEF LapInv
<1> DEFINE row == [id |-> lapNextId, conn |-> NoId, role |-> Central, lap |-> lap]
           ms == Append(members, row)  n == Len(members) + 1
<1>5. CASE members' = ms /\ lapNextId' = lapNextId + 1
  <2>1. /\ lapConns \in Seq(LapConn) /\ members \in Seq(Member)
        /\ lapNextId \in Nat \ {0} /\ IdsAgree(LapTables) /\ Owned(LapTables)
        /\ \A i \in DOMAIN lapConns : \A r \in Role : Paired(LapTables, i, r)
    BY <1>3 DEF Sound, TableTypes, LapTables
  <2>2. row \in Member /\ row.id = lapNextId /\ row.conn = NoId
    BY <2>1 DEF Member, NoId, Role
  <2> HIDE DEF row
  <2>3. /\ ms \in Seq(Member) /\ Len(ms) = n
        /\ \A k \in 1 .. Len(members) : ms[k] = members[k]
        /\ ms[n] = row
    BY <2>1, <2>2, AppendProperties
  <2> HIDE DEF ms
  <2>4. /\ DOMAIN ms = 1 .. n /\ DOMAIN members = 1 .. Len(members) /\ Len(members) \in Nat
    BY <2>1, <2>3, SeqDomain
  <2>5. /\ \A k \in DOMAIN ms : k \in DOMAIN members \/ k = n
        /\ \A k \in DOMAIN members : k \in DOMAIN ms /\ ms[k] = members[k] /\ k # n
        /\ n \in DOMAIN ms
    BY <2>3, <2>4
  <2> HIDE DEF n
  <2> DEFINE t == LapTables  u == LapTables'
  <2>6. /\ u.conns = lapConns /\ u.members = ms /\ u.nextId = lapNextId + 1
        /\ u \in TableTypes
    BY <1>1, <1>5, <2>1, <2>3 DEF LapTables, TableTypes
  <2>7. t.conns = lapConns /\ t.members = members /\ t.nextId = lapNextId
    BY DEF LapTables
  <2> HIDE DEF t, u
  <2>8. /\ IdsAgree(t) /\ Owned(t)
        /\ \A i \in DOMAIN lapConns : \A r \in Role : Paired(t, i, r)
    BY <2>1 DEF t
  <2>9. /\ \A i \in DOMAIN lapConns : lapConns[i].id \in 1 .. lapNextId - 1
        /\ \A k \in DOMAIN members : members[k].id \in 1 .. lapNextId - 1
    BY <2>7, <2>8 DEF IdsAgree
  <2>10. /\ \A i \in DOMAIN lapConns :
              /\ lapConns[i].id \in 1 .. lapNextId
              /\ lapConns[i].id # lapNextId /\ lapConns[i].id # NoId
         /\ \A k \in DOMAIN members : /\ members[k].id \in 1 .. lapNextId
                                      /\ members[k].id # lapNextId
         /\ lapNextId \in 1 .. lapNextId /\ (lapNextId + 1) - 1 = lapNextId
    BY <2>1, <2>9 DEF NoId
  <2>11. IdsAgree(u)
    <3>1. \A i, j \in DOMAIN lapConns :
            lapConns[i].lap = lapConns[j].lap \/ lapConns[i].id = lapConns[j].id => i = j
      BY <2>7, <2>8 DEF IdsAgree
    <3>2. \A k, m \in DOMAIN ms : ms[k].id = ms[m].id => k = m
      <4>1. ASSUME NEW k \in DOMAIN ms, NEW m \in DOMAIN ms, ms[k].id = ms[m].id
            PROVE  k = m
        <5>1. CASE k \in DOMAIN members /\ m \in DOMAIN members
          BY <2>5, <2>7, <2>8, <4>1, <5>1 DEF IdsAgree
        <5>2. CASE k \notin DOMAIN members \/ m \notin DOMAIN members
          BY <2>2, <2>3, <2>5, <2>10, <4>1, <5>2
        <5>3. QED BY <5>1, <5>2
      <4>2. QED BY <4>1
    <3>3. \A i \in DOMAIN lapConns : \A k \in DOMAIN ms : lapConns[i].id # ms[k].id
      BY <2>2, <2>3, <2>5, <2>7, <2>8, <2>10 DEF IdsAgree
    <3>4. \A k \in DOMAIN ms : ms[k].id \in 1 .. lapNextId
      BY <2>2, <2>3, <2>5, <2>10
    <3>5. QED BY <2>6, <2>10, <3>1, <3>2, <3>3, <3>4 DEF IdsAgree
  <2>12. Owned(u)
    BY <2>2, <2>3, <2>5, <2>6, <2>7, <2>8 DEF Owned
  <2>13. ASSUME NEW i \in DOMAIN lapConns, NEW r \in Role PROVE Paired(u, i, r)
    <3>1. MemberRows(ms, lapConns[i].id, r) = MemberRows(members, lapConns[i].id, r)
      <4>1. ms[n].conn # lapConns[i].id
        BY <2>2, <2>3, <2>10, <2>13
      <4>2. QED BY <2>5, <4>1 DEF MemberRows
    <3>2. \A k \in MemberRows(members, lapConns[i].id, r) : ms[k] = members[k]
      BY <2>5 DEF MemberRows
    <3>3. Paired(t, i, r)
      BY <2>8, <2>13
    <3>4. QED BY <2>6, <2>7, <3>1, <3>2, <3>3 DEF Paired, HasOneRow, HasNoRow
  <2>14. Sound(u)
    BY <2>6, <2>11, <2>12, <2>13 DEF Sound
  <2>15. QED BY <1>2, <2>14 DEF LapInv, u
<1>6. QED BY <1>4, <1>5 DEF AddStandalone

LEMMA SubmitKeeps ==
  ASSUME LapInv, NEW lap \in Laps, NEW start \in LapStarts, SubmitLap(lap, start)
  PROVE  LapInv'
<1> DEFINE clk == RxClkOf(start)
           known == LapRows(lapConns, lap) # {}
           tally == IF known THEN lapPending ELSE Bumped(lapPending, lap, LapPendingCap)
<1>1. clk \in HalfRange /\ clk \in Nat
  BY LapAssumptions
<1>2. clkBase' \in HalfRange
  <2>1. clkBase' = IF clkBase = NoBase THEN clk ELSE clkBase
    BY DEF SubmitLap
  <2>2. clkBase \in HalfRange \cup {NoBase}
    BY DEF LapInv, TimesInv
  <2>3. QED BY <1>1, <2>1, <2>2
<1>3. threshold' = threshold
  BY DEF SubmitLap
<1>4. CASE ~known /\ CountOf(tally, lap) < threshold
  <2>1. lapPending' = tally /\ UNCHANGED <<lapConns, members, lapNextId>>
    BY <1>4 DEF SubmitLap
  <2>2. tally = Bumped(lapPending, lap, LapPendingCap)
    BY <1>4
  <2>3. QED BY <1>2, <1>3, <1>4, <2>1, <2>2, TalliedKeeps
<1>5. CASE ~(~known /\ CountOf(tally, lap) < threshold)
  <2>1. PICK o \in Outcome(lapConns, lap, clk) :
          LET t1 == WithConn(LapTables, lap)
              i == IndexOfLap(t1.conns, lap)
              t2 == [t1 EXCEPT !.conns[i] = LinkAdds(@, clk, o.newest, o.role)]
              t3 == WithMembers(t2, i, o.role) IN
          /\ lapPending' = Untallied(tally, lap)
          /\ lapConns' = t3.conns /\ members' = t3.members /\ lapNextId' = t3.nextId
    BY <1>5, Zenon DEF SubmitLap
  <2>2. tally = IF LapRows(lapConns, lap) # {} THEN lapPending
                ELSE Bumped(lapPending, lap, LapPendingCap)
    OBVIOUS
  <2> HIDE DEF clk, tally
  <2>3. QED BY <1>1, <1>2, <1>3, <2>1, <2>2, RoutedKeeps
<1>6. QED BY <1>4, <1>5

LEMMA LapStep == LapInv /\ [LapNext]_lapVars => LapInv'
<1> SUFFICES ASSUME LapInv, [LapNext]_lapVars PROVE LapInv'
  OBVIOUS
<1>1. ASSUME NEW lap \in Laps, NEW start \in LapStarts, SubmitLap(lap, start)
      PROVE  LapInv'
  BY <1>1, SubmitKeeps
<1>2. ASSUME NEW lap \in Laps, AddStandalone(lap) PROVE LapInv'
  BY <1>2, StandaloneKeeps
<1>3. CASE UNCHANGED lapVars
  <2>1. LapTables' = LapTables
    BY <1>3 DEF lapVars, LapTables
  <2>2. UNCHANGED <<lapConns, lapPending, threshold, clkBase>>
    BY <1>3 DEF lapVars
  <2>3. QED BY <2>1, <2>2 DEF LapInv, TallyInv, TimesInv
<1>4. QED BY <1>1, <1>2, <1>3 DEF LapNext

LEMMA LapInvAlways == LapSpec => []LapInv
<1>1. QED BY LapStart, LapStep, PTL DEF LapSpec

-----------------------------------------------------------------------------
(* What the invariant shows *)

\* Two lists of ids that share none, one after the other.
LEMMA ConcatUnique ==
  ASSUME NEW a \in Seq(Nat), NEW b \in Seq(Nat), NEW top,
         IsInjective(a), IsInjective(b),
         \A x \in DOMAIN a : \A y \in DOMAIN b : a[x] # b[y],
         \A x \in DOMAIN a : a[x] \in 1 .. top, \A y \in DOMAIN b : b[y] \in 1 .. top
  PROVE  IsInjective(a \o b) /\ \A i \in DOMAIN (a \o b) : (a \o b)[i] \in 1 .. top
<1> DEFINE s == a \o b  n == Len(a)
<1>1. /\ n \in Nat /\ DOMAIN a = 1 .. n
      /\ Len(b) \in Nat /\ DOMAIN b = 1 .. Len(b)
  BY SeqDomain
<1>2. /\ s \in Seq(Nat) /\ Len(s) = n + Len(b)
      /\ \A i \in 1 .. n + Len(b) : s[i] = IF i <= n THEN a[i] ELSE b[i - n]
  BY ConcatProperties
<1>3. DOMAIN s = 1 .. n + Len(b)
  BY <1>2, SeqDomain
<1> HIDE DEF s, n
<1>4. ASSUME NEW i \in DOMAIN s
      PROVE  \/ i \in DOMAIN a /\ s[i] = a[i]
             \/ i - n \in DOMAIN b /\ s[i] = b[i - n]
  <2>1. CASE i <= n
    BY <1>1, <1>2, <1>3, <2>1
  <2>2. CASE ~(i <= n)
    <3>1. i - n \in DOMAIN b
      BY <1>1, <1>3, <2>2
    <3>2. QED BY <1>2, <1>3, <2>2, <3>1
  <2>3. QED BY <2>1, <2>2
<1>5. ASSUME NEW i \in DOMAIN s, NEW j \in DOMAIN s, s[i] = s[j]
      PROVE  i = j
  <2>1. i \in Int /\ j \in Int /\ n \in Nat
    BY <1>1, <1>3
  <2>2. CASE i \in DOMAIN a /\ s[i] = a[i]
    BY <1>4, <1>5, <2>2 DEF IsInjective
  <2>3. CASE i - n \in DOMAIN b /\ s[i] = b[i - n]
    <3>1. j - n \in DOMAIN b /\ s[j] = b[j - n]
      BY <1>4, <1>5, <2>3
    <3>2. i - n = j - n
      BY <1>5, <2>3, <3>1 DEF IsInjective
    <3>3. QED BY <2>1, <3>2
  <2>4. QED BY <1>4, <2>2, <2>3
<1>6. \A i \in DOMAIN s : s[i] \in 1 .. top
  BY <1>4
<1>7. QED BY <1>5, <1>6 DEF IsInjective, s

LEMMA IdsAreUnique ==
  ASSUME LapInv
  PROVE  IsInjective(LapIds) /\ \A i \in DOMAIN LapIds : LapIds[i] \in 1 .. lapNextId - 1
<1>1. /\ lapConns \in Seq(LapConn) /\ members \in Seq(Member)
      /\ IdsAgree(LapTables)
      /\ LapTables.conns = lapConns /\ LapTables.members = members
      /\ LapTables.nextId = lapNextId
  BY DEF LapInv, Sound, TableTypes, LapTables
<1> DEFINE a == [i \in DOMAIN lapConns |-> lapConns[i].id]
           b == [k \in DOMAIN members |-> members[k].id]
<1>2. a \in Seq(Nat)
  <2>1. /\ Len(lapConns) \in Nat /\ DOMAIN lapConns = 1 .. Len(lapConns)
        /\ \A i \in DOMAIN lapConns : lapConns[i] \in LapConn
    BY <1>1, SeqDomain
  <2>2. \A c \in LapConn : c.id \in Nat
    BY DEF LapConn
  <2>3. QED BY <2>1, <2>2
<1>3. b \in Seq(Nat)
  <2>1. /\ Len(members) \in Nat /\ DOMAIN members = 1 .. Len(members)
        /\ \A k \in DOMAIN members : members[k] \in Member
    BY <1>1, SeqDomain
  <2>2. \A m \in Member : m.id \in Nat
    BY DEF Member
  <2>3. QED BY <2>1, <2>2
<1>4. /\ IsInjective(a) /\ IsInjective(b)
      /\ \A x \in DOMAIN a : \A y \in DOMAIN b : a[x] # b[y]
      /\ \A x \in DOMAIN a : a[x] \in 1 .. lapNextId - 1
      /\ \A y \in DOMAIN b : b[y] \in 1 .. lapNextId - 1
  BY <1>1 DEF IdsAgree, IsInjective
<1>5. LapIds = a \o b
  BY DEF LapIds
<1> HIDE DEF a, b
<1>6. QED BY <1>2, <1>3, <1>4, <1>5, ConcatUnique

LEMMA LapInvAgrees == LapInv => MembersAgree
<1> SUFFICES ASSUME LapInv PROVE MembersAgree
  OBVIOUS
<1>1. /\ lapConns \in Seq(LapConn) /\ members \in Seq(Member)
      /\ IdsAgree(LapTables) /\ Owned(LapTables)
      /\ \A i \in DOMAIN lapConns : \A r \in Role : Paired(LapTables, i, r)
      /\ LapTables.conns = lapConns /\ LapTables.members = members
  BY DEF LapInv, Sound, TableTypes, LapTables
<1>2. IsInjective([i \in DOMAIN lapConns |-> lapConns[i].lap])
  BY <1>1 DEF IdsAgree, IsInjective
<1>3. ASSUME NEW i \in DOMAIN lapConns, NEW r \in Role
      PROVE  LET c == lapConns[i]  rows == MemberRows(members, c.id, r) IN
             IF c.packets[r] = 0 THEN rows = {} /\ c.device[r] = NoId
             ELSE \E k \in rows : rows = {k} /\ c.device[r] = members[k].id
                                             /\ members[k].lap = c.lap
  BY <1>1, <1>3 DEF Paired, HasOneRow, HasNoRow
<1>4. ASSUME NEW k \in DOMAIN members, members[k].conn # NoId
      PROVE  Owners(members[k]) # {} /\ ShownPackets(k) > 0
  <2>1. PICK i \in DOMAIN lapConns : /\ lapConns[i].id = members[k].conn
                                     /\ lapConns[i].packets[members[k].role] > 0
    BY <1>1, <1>4 DEF Owned
  <2>2. Owners(members[k]) = {i}
    BY <1>1, <2>1 DEF IdsAgree, Owners
  <2>3. (CHOOSE j \in Owners(members[k]) : TRUE) = i
    BY <2>2
  <2>4. ShownPackets(k) = lapConns[i].packets[members[k].role]
    BY <2>3 DEF ShownPackets
  <2>5. QED BY <2>1, <2>2, <2>4
<1>5. ShownMembers = DOMAIN members
  BY <1>4 DEF ShownMembers
<1>6. \A p \in DOMAIN lapPending :
        /\ LapRows(lapConns, lapPending[p].key) = {}
        /\ lapPending[p].count < threshold
  BY DEF LapInv, TallyInv
<1>7. QED BY <1>2, <1>3, <1>4, <1>5, <1>6, IdsAreUnique DEF MembersAgree

\* Two clocks of half the range differ by less than half the range.
LEMMA SinceBaseIs ==
  ASSUME NEW x \in HalfRange, clkBase \in HalfRange
  PROVE  SinceBase(x) = x - clkBase
<1>1. ClkModulus \in Nat \ {0}
  BY LapAssumptions
<1> DEFINE m == ClkModulus
<1>2. PICK h \in Nat : h = m \div 2
  BY <1>1
<1>3. 2 * h <= m /\ m \in Nat \ {0}
  BY <1>1, <1>2, Z3
<1>4. x \in 0 .. h - 1 /\ clkBase \in 0 .. h - 1
  BY <1>2 DEF HalfRange
<1>5. PICK y \in Int : y = x - clkBase
  BY <1>4
<1>6. y < h /\ y > -h
  BY <1>4, <1>5
<1>7. CASE y >= 0
  <2>1. y % m = y
    BY <1>3, <1>6, <1>7, Z3
  <2>2. ~(y >= h)
    BY <1>6
  <2>3. QED BY <1>2, <1>5, <2>1, <2>2 DEF SinceBase
<1>8. CASE y < 0
  <2>1. y + m \in 0 .. m - 1 /\ y + m >= h
    BY <1>2, <1>3, <1>6, <1>8
  <2>2. y % m = y + m
    BY <1>3, <1>8, <2>1, Z3
  <2>3. (y + m) - m = y
    BY <1>3
  <2>4. SinceBase(x) = y
    BY <1>2, <1>5, <2>1, <2>2, <2>3 DEF SinceBase
  <2>5. QED BY <1>5, <2>4
<1>9. QED BY <1>7, <1>8

LEMMA LapInvTimed == LapInv => TimesRunForward
<1> SUFFICES ASSUME LapInv, NEW i \in DOMAIN lapConns
             PROVE  SinceBase(lapConns[i].first) <= SinceBase(lapConns[i].last)
  BY DEF TimesRunForward
<1>1. /\ clkBase \in HalfRange
      /\ lapConns[i].first \in HalfRange /\ lapConns[i].last \in HalfRange
      /\ lapConns[i].first <= lapConns[i].last
  BY DEF LapInv, TimesInv, Timed
<1>2. /\ SinceBase(lapConns[i].first) = lapConns[i].first - clkBase
      /\ SinceBase(lapConns[i].last) = lapConns[i].last - clkBase
  BY <1>1, SinceBaseIs
<1>3. QED BY <1>1, <1>2 DEF HalfRange

\* A LAP has one connection and a member that sent packets one row, found from
\* the connection as the connection is from the row (bredr_registry_submit,
\* bredr_registry_add_device); the poll passes over no row, and only LAPs
\* without a connection are tallied, below the threshold.
THEOREM RowsAgreeWithConnections == LapSpec => []MembersAgree
<1>1. QED BY LapInvAlways, LapInvAgrees, PTL

\* The times shown for a connection run forward whatever order packets are
\* submitted in and whichever of them came first (clk_to_ms), as long as the
\* receive clock stays below half its range.
THEOREM ShownTimesRunForward == LapSpec => []TimesRunForward
<1>1. QED BY LapInvAlways, LapInvTimed, PTL

-----------------------------------------------------------------------------
(* The tracker of signal strengths *)

LEMMA RssiSizes == Depth \in Nat \ {0} /\ RssiWindow \in Nat /\ Ticks \subseteq Nat
BY RssiAssumption

\* A set of naturals has a least element.
LEMMA LeastNat ==
  ASSUME NEW T \in SUBSET Nat, T # {}
  PROVE  \E x \in T : \A y \in T : x <= y
<1> DEFINE Below(n) == {y \in T : y <= n}
           Family == {Below(n) : n \in T}
<1>1. \A n \in T : Below(n) \in FiniteSubsetsOf(Nat)
  BY FS_BoundedSetOfNaturals DEF FiniteSubsetsOf
<1>2. PICK S \in Family : \A U \in Family : ~ (<<U, S>> \in StrictSubsetOrdering(Nat))
  <2>1. Family \subseteq FiniteSubsetsOf(Nat) /\ Family # {}
    BY <1>1
  <2> HIDE DEF Family
  <2>2. QED BY <2>1, WFMin, FS_StrictSubsetOrderingWellFounded
<1>3. PICK n \in T : S = Below(n)
  BY <1>2
<1>4. ASSUME NEW y \in T, ~ (n <= y) PROVE FALSE
  <2>1. Below(y) \subseteq S /\ n \notin Below(y) /\ n \in S
    <3>1. n \in Nat /\ y \in Nat /\ y < n
      BY <1>4
    <3>2. \A z \in T : z <= y => z <= n
      BY <3>1
    <3>3. Below(y) \subseteq Below(n) /\ n \notin Below(y) /\ n \in Below(n)
      <4>1. Below(y) \subseteq Below(n)
        BY <3>2
      <4>2. n \notin Below(y)
        BY <1>4
      <4>3. n \in Below(n)
        BY <3>1
      <4>4. QED BY <4>1, <4>2, <4>3
    <3> HIDE DEF Below
    <3>4. QED BY <1>3, <3>3
  <2>2. <<Below(y), S>> \in StrictSubsetOrdering(Nat)
    BY <2>1, <1>1, <1>3 DEF StrictSubsetOrdering, FiniteSubsetsOf
  <2>3. QED BY <1>2, <2>2
<1>5. QED BY <1>4

Frame == [at : Ticks, source : Sources]

\* The ring holds the frames added last, the latest one just behind the head.
RssiInv ==
  /\ tracker \in [frames : [0 .. Depth - 1 -> Frame \cup {NoFrame}],
                  head : 0 .. Depth - 1, count : Nat]
  /\ added \in Seq(Frame)
  /\ tracker.count = IF Len(added) < Depth THEN Len(added) ELSE Depth
  /\ \A i \in 0 .. tracker.count - 1 :
       tracker.frames[SlotOf(i)] = added[Len(added) - i]

LEMMA SlotIs ==
  ASSUME NEW h \in 0 .. Depth - 1, NEW i \in 0 .. Depth - 1
  PROVE  (h + Depth - 1 - i) % Depth = IF i < h THEN h - 1 - i ELSE h + Depth - 1 - i
<1>1. PICK x \in 0 .. 2 * Depth - 1 : x = h + Depth - 1 - i
  BY RssiSizes
<1>2. x % Depth = IF x < Depth THEN x ELSE x - Depth
  BY RssiSizes, Z3
<1>3. CASE i < h
  <2>1. ~(x < Depth) /\ x - Depth = h - 1 - i
    BY RssiSizes, <1>1, <1>3
  <2>2. QED BY <1>1, <1>2, <1>3, <2>1
<1>4. CASE ~(i < h)
  <2>1. x < Depth
    BY RssiSizes, <1>1, <1>4
  <2>2. QED BY <1>1, <1>2, <1>4, <2>1
<1>5. QED BY <1>3, <1>4

LEMMA HeadIs ==
  ASSUME NEW h \in 0 .. Depth - 1
  PROVE  (h + 1) % Depth = IF h = Depth - 1 THEN 0 ELSE h + 1
<1>1. PICK x \in 0 .. 2 * Depth - 1 : x = h + 1
  BY RssiSizes
<1>2. x % Depth = IF x < Depth THEN x ELSE x - Depth
  BY RssiSizes, Z3
<1>3. QED BY RssiSizes, <1>1, <1>2

LEMMA RssiStart == RssiInit => RssiInv
<1> SUFFICES ASSUME RssiInit PROVE RssiInv
  OBVIOUS
<1>1. added = <<>> /\ Len(added) = 0 /\ added \in Seq(Frame)
  BY DEF RssiInit
<1>2. /\ tracker.count = 0
      /\ tracker \in [frames : [0 .. Depth - 1 -> Frame \cup {NoFrame}],
                       head : 0 .. Depth - 1, count : Nat]
  BY RssiSizes DEF RssiInit
<1>3. QED BY RssiSizes, <1>1, <1>2 DEF RssiInv

\* A frame more: each slot is one frame further back.
LEMMA TrackerAddKeeps ==
  ASSUME RssiInv, NEW f \in Frame, TrackerAdd(f)
  PROVE  RssiInv'
<1> DEFINE n == Len(added)  h == tracker.head  c == tracker.count
<1>1. /\ h \in 0 .. Depth - 1 /\ c \in Nat /\ n \in Nat /\ added \in Seq(Frame)
      /\ tracker.frames \in [0 .. Depth - 1 -> Frame \cup {NoFrame}]
      /\ c = IF n < Depth THEN n ELSE Depth
  BY LenProperties DEF RssiInv
<1>2. /\ added' = Append(added, f) /\ added' \in Seq(Frame) /\ Len(added') = n + 1
      /\ added'[n + 1] = f /\ \A i \in 1 .. n : added'[i] = added[i]
  BY <1>1, AppendProperties DEF TrackerAdd
<1>3. /\ tracker' \in [frames : [0 .. Depth - 1 -> Frame \cup {NoFrame}],
                        head : 0 .. Depth - 1, count : Nat]
      /\ tracker'.frames = [tracker.frames EXCEPT ![h] = f]
      /\ tracker'.head = IF h = Depth - 1 THEN 0 ELSE h + 1
      /\ tracker'.count = IF c < Depth THEN c + 1 ELSE c
  <2> DEFINE fs == [tracker.frames EXCEPT ![h] = f]  g == (h + 1) % Depth
             k == IF c < Depth THEN c + 1 ELSE c
  <2>1. tracker' = [frames |-> fs, head |-> g, count |-> k]
    BY DEF TrackerAdd
  <2>2. g = IF h = Depth - 1 THEN 0 ELSE h + 1
    BY <1>1, HeadIs
  <2>3. /\ fs \in [0 .. Depth - 1 -> Frame \cup {NoFrame}] /\ g \in 0 .. Depth - 1
        /\ k \in Nat
    BY RssiSizes, <1>1, <2>2
  <2> HIDE DEF fs, g, k
  <2>4. /\ tracker' \in [frames : [0 .. Depth - 1 -> Frame \cup {NoFrame}],
                          head : 0 .. Depth - 1, count : Nat]
        /\ tracker'.frames = fs /\ tracker'.head = g /\ tracker'.count = k
    BY <2>1, <2>3
  <2>5. QED BY <2>2, <2>4 DEF fs, g, k
<1>4. tracker'.count = IF Len(added') < Depth THEN Len(added') ELSE Depth
  BY RssiSizes, <1>1, <1>2, <1>3
<1>5. /\ tracker'.count <= Depth /\ tracker'.count <= c + 1 /\ tracker'.head \in 0 .. Depth - 1
      /\ tracker'.count \in Nat
  BY RssiSizes, <1>1, <1>3
<1>6. ASSUME NEW i \in 0 .. tracker'.count - 1
      PROVE  tracker'.frames[SlotOf(i)'] = added'[Len(added') - i]
  <2>1. i \in 0 .. Depth - 1
    BY RssiSizes, <1>5
  <2>2. SlotOf(i)' = IF i < tracker'.head THEN tracker'.head - 1 - i
                     ELSE tracker'.head + Depth - 1 - i
    BY <1>5, <2>1, SlotIs DEF SlotOf
  <2>3. CASE i = 0
    <3>1. SlotOf(i)' = h
      BY RssiSizes, <1>1, <1>3, <2>2, <2>3
    <3>2. tracker'.frames[h] = f
      BY <1>1, <1>3
    <3>3. added'[Len(added') - i] = f
      <4>1. Len(added') - i = n + 1
        BY <1>1, <1>2, <2>3
      <4>2. QED BY <1>2, <4>1
    <3>4. QED BY <3>1, <3>2, <3>3
  <2>4. CASE i # 0
    <3>1. PICK j \in 0 .. Depth - 2 : j = i - 1
      BY RssiSizes, <2>1, <2>4
    <3>2. j \in 0 .. Depth - 1 /\ j \in 0 .. c - 1
      BY RssiSizes, <1>1, <1>5, <2>4, <3>1
    <3>3. SlotOf(j) = IF j < h THEN h - 1 - j ELSE h + Depth - 1 - j
      BY <1>1, <3>2, SlotIs DEF SlotOf
    <3>4. SlotOf(i)' = SlotOf(j) /\ SlotOf(j) # h /\ SlotOf(j) \in 0 .. Depth - 1
      <4> DEFINE s == SlotOf(j)  t == SlotOf(i)'  g == tracker'.head
      <4>1. g = IF h = Depth - 1 THEN 0 ELSE h + 1
        BY <1>3
      <4>2. s = IF j < h THEN h - 1 - j ELSE h + Depth - 1 - j
        BY <3>3
      <4>3. t = IF j + 1 < g THEN g - 1 - (j + 1) ELSE g + Depth - 1 - (j + 1)
        BY <2>2, <3>1
      <4> HIDE DEF s, t, g
      <4>4. t = s /\ s # h /\ s \in 0 .. Depth - 1
        <5>1. Depth \in Nat /\ h \in 0 .. Depth - 1 /\ j \in 0 .. Depth - 2
          BY RssiSizes, <1>1
        <5> HIDE DEF h
        <5>2. CASE h = Depth - 1
          BY <4>1, <4>2, <4>3, <5>1, <5>2
        <5>3. CASE h # Depth - 1 /\ j < h
          BY <4>1, <4>2, <4>3, <5>1, <5>3
        <5>4. CASE h # Depth - 1 /\ ~(j < h)
          BY <4>1, <4>2, <4>3, <5>1, <5>4
        <5>5. QED BY <5>2, <5>3, <5>4
      <4>5. QED BY <4>4 DEF s, t
    <3>5. tracker.frames[SlotOf(j)] = added[n - j]
      BY <3>2 DEF RssiInv
    <3>6. n - j \in 1 .. n /\ Len(added') - i = n - j
      BY RssiSizes, <1>1, <1>2, <3>1, <3>2
    <3>7. QED BY <1>1, <1>2, <1>3, <3>4, <3>5, <3>6
  <2>5. QED BY <2>3, <2>4
<1>7. QED BY <1>2, <1>3, <1>4, <1>6 DEF RssiInv

LEMMA RssiStep == RssiInv /\ [RssiNext]_rssiVars => RssiInv'
<1> SUFFICES ASSUME RssiInv, [RssiNext]_rssiVars PROVE RssiInv'
  OBVIOUS
<1>1. CASE RssiNext
  <2>1. PICK at \in Ticks, source \in Sources : TrackerAdd([at |-> at, source |-> source])
    BY <1>1 DEF RssiNext
  <2>2. [at |-> at, source |-> source] \in Frame
    BY DEF Frame
  <2>3. QED BY <2>1, <2>2, TrackerAddKeeps
<1>2. CASE UNCHANGED rssiVars
  BY <1>2 DEF rssiVars, RssiInv, SlotOf
<1>3. QED BY <1>1, <1>2

\* Where the scan ends.
LEMMA ScanEndIs ==
  ASSUME tracker.count \in Nat
  PROVE  /\ ScanEnd \in 0 .. tracker.count
         /\ ScanEnd = tracker.count \/ (Same(ScanEnd) /\ Outside(ScanEnd))
         /\ \A i \in 0 .. ScanEnd - 1 : ~(Same(i) /\ Outside(i))
<1> DEFINE c == tracker.count
           T == {n \in 0 .. c : n = c \/ (Same(n) /\ Outside(n))}
<1>1. T \in SUBSET Nat /\ c \in T
  OBVIOUS
<1>2. PICK n \in T : \A m \in T : n <= m
  BY <1>1, LeastNat
<1>3. \A i \in 0 .. n - 1 : ~(Same(i) /\ Outside(i))
  <2>1. SUFFICES ASSUME NEW i \in 0 .. n - 1, Same(i) /\ Outside(i) PROVE FALSE
    OBVIOUS
  <2>2. i \in T
    BY <2>1
  <2>3. QED BY <1>2, <2>2
<1>4. \E k \in 0 .. c : /\ k = c \/ (Same(k) /\ Outside(k))
                       /\ \A i \in 0 .. k - 1 : ~(Same(i) /\ Outside(i))
  BY <1>2, <1>3
<1>5. QED BY <1>4 DEF ScanEnd

LEMMA RssiInvMeans == RssiInv => MeanOfWindow
<1> SUFFICES ASSUME RssiInv, added # <<>>
             PROVE  /\ 0 \in Averaged /\ Averaged \subseteq InWindow
                    /\ InOrder => Averaged = InWindow
  BY DEF MeanOfWindow
<1> DEFINE n == Len(added)  c == tracker.count  frame(i) == tracker.frames[SlotOf(i)]
<1>1. /\ n \in Nat \ {0} /\ c \in Nat \ {0} /\ c <= n /\ added \in Seq(Frame)
      /\ \A i \in 0 .. c - 1 : frame(i) = added[n - i]
  BY RssiSizes, LenProperties, EmptySeq DEF RssiInv
<1>2. /\ KeptFrames \in Seq(Frame) /\ Len(KeptFrames) = c
      /\ \A j \in 1 .. c : KeptFrames[j] = added[n - c + j]
  <2>1. PICK lo \in 1 .. n + 1 : lo = n - c + 1 /\ n \in lo - 1 .. n
    BY <1>1
  <2>2. KeptFrames = SubSeq(added, lo, n)
    BY <2>1 DEF KeptFrames
  <2>3. /\ KeptFrames \in Seq(Frame) /\ Len(KeptFrames) = n - lo + 1
        /\ \A j \in 1 .. n - lo + 1 : KeptFrames[j] = added[lo + j - 1]
    <3>1. added \in Seq(Frame) /\ lo \in 1 .. Len(added) + 1 /\ n \in lo - 1 .. Len(added)
      BY <1>1, <2>1
    <3>2. lo <= n + 1 /\ n \in Int /\ lo \in Int
      BY <1>1, <2>1
    <3> HIDE DEF n
    <3>3. Len(SubSeq(added, lo, n)) = IF lo <= n THEN n - lo + 1 ELSE 0
      BY <3>1, SubSeqProperties
    <3>4. /\ SubSeq(added, lo, n) \in Seq(Frame)
          /\ \A j \in 1 .. n - lo + 1 : SubSeq(added, lo, n)[j] = added[lo + j - 1]
      BY <3>1, SubSeqProperties
    <3>5. Len(SubSeq(added, lo, n)) = n - lo + 1
      BY <3>2, <3>3
    <3>6. QED BY <2>2, <3>4, <3>5
  <2>4. n - lo + 1 = c
    BY <1>1, <2>1
  <2>5. \A j \in 1 .. c : lo + j - 1 = n - c + j
    BY <1>1, <2>1
  <2>6. QED BY <2>3, <2>4, <2>5
<1>3. \A i \in 0 .. c - 1 : /\ KeptFrames[c - i] = frame(i) /\ frame(i) \in Frame
                            /\ c - i \in DOMAIN KeptFrames
  <2>1. ASSUME NEW i \in 0 .. c - 1
        PROVE  KeptFrames[c - i] = frame(i) /\ frame(i) \in Frame /\ c - i \in DOMAIN KeptFrames
    <3>1. PICK j \in 1 .. c : j = c - i
      <4>1. c - i \in 1 .. c
        BY <1>1
      <4>2. QED BY <4>1
    <3>2. KeptFrames[j] = added[n - i] /\ n - i \in 1 .. n
      <4>1. KeptFrames[j] = added[n - c + j] /\ n - c + j = n - i
        BY <1>1, <1>2, <3>1
      <4>2. QED BY <1>1, <4>1
    <3>3. DOMAIN KeptFrames = 1 .. c /\ KeptFrames[j] \in Frame
      BY <1>2, LenProperties, ElementOfSeq
    <3>4. QED BY <1>1, <3>1, <3>2, <3>3
  <2>2. QED BY <2>1
<1> HIDE DEF frame, c
<1>4. Last(KeptFrames) = frame(0) /\ LatestFrame = frame(0)
  BY <1>1, <1>2, <1>3 DEF Last, LatestFrame, frame
<1>5. \A i \in 0 .. c - 1 :
        /\ Same(i) <=> frame(i).source = frame(0).source
        /\ Outside(i) <=> frame(i).at < frame(0).at - RssiWindow
        /\ frame(i).at \in Nat /\ frame(0).at \in Nat /\ frame(i).source \in Sources
  <2>1. ASSUME NEW i \in 0 .. c - 1
        PROVE  /\ Same(i) <=> frame(i).source = frame(0).source
               /\ Outside(i) <=> frame(i).at < frame(0).at - RssiWindow
    BY <1>4 DEF Same, Outside, frame
  <2>2. 0 \in 0 .. c - 1
    BY <1>1
  <2>3. \A i \in 0 .. c - 1 : frame(i).at \in Nat /\ frame(i).source \in Sources
    BY <1>3, RssiSizes DEF Frame
  <2>4. QED BY <2>1, <2>2, <2>3
<1>6. InWindow = {i \in 0 .. c - 1 : Same(i) /\ ~Outside(i)}
  <2>1. ASSUME NEW i \in 0 .. c - 1
        PROVE  /\ KeptFrames[c - i].source = Last(KeptFrames).source <=> Same(i)
               /\ KeptFrames[c - i].at >= Last(KeptFrames).at - RssiWindow <=> ~Outside(i)
    BY <1>3, <1>4, <1>5, RssiSizes
  <2>2. InWindow = {i \in 0 .. c - 1 : /\ KeptFrames[c - i].source = Last(KeptFrames).source
                                       /\ KeptFrames[c - i].at >= Last(KeptFrames).at - RssiWindow}
    BY <1>2 DEF InWindow
  <2>3. QED BY <2>1, <2>2
<1>7. /\ ScanEnd \in 0 .. c /\ (ScanEnd = c \/ (Same(ScanEnd) /\ Outside(ScanEnd)))
      /\ \A i \in 0 .. ScanEnd - 1 : ~(Same(i) /\ Outside(i))
  BY <1>1, ScanEndIs DEF c
<1>8. 0 \in Averaged
  <2>1. Same(0) /\ ~Outside(0) /\ 0 \in 0 .. c - 1
    BY <1>1, <1>5, RssiSizes
  <2>2. ScanEnd # 0
    BY <1>1, <1>7, <2>1
  <2>3. QED BY <1>1, <1>7, <2>1, <2>2 DEF Averaged
<1>9. Averaged \subseteq InWindow
  BY <1>1, <1>6, <1>7 DEF Averaged
<1>10. ASSUME InOrder PROVE InWindow \subseteq Averaged
  <2> SUFFICES ASSUME NEW i \in 0 .. c - 1, Same(i), ~Outside(i), i \notin Averaged
               PROVE  FALSE
    BY <1>6
  <2>1. ScanEnd \in 0 .. c - 1 /\ ScanEnd < i /\ Same(ScanEnd) /\ Outside(ScanEnd)
    BY <1>1, <1>7 DEF Averaged
  <2>2. PICK e \in 0 .. c - 1 : e = ScanEnd
    BY <2>1
  <2>3. /\ c - i \in DOMAIN KeptFrames /\ c - e \in DOMAIN KeptFrames /\ c - i < c - e
        /\ KeptFrames[c - i] = frame(i) /\ KeptFrames[c - e] = frame(e)
    BY <1>1, <1>3, <2>1, <2>2
  <2>4. frame(i).source = frame(e).source /\ frame(i).source \in Sources
    BY <1>5, <2>1, <2>2
  <2>5. frame(i).at <= frame(e).at
    BY <1>10, <2>3, <2>4 DEF InOrder
  <2>6. frame(e).at < frame(0).at - RssiWindow /\ ~(frame(i).at < frame(0).at - RssiWindow)
    BY <1>5, <2>1, <2>2
  <2>7. QED BY <1>5, <2>2, <2>5, <2>6, RssiSizes
<1>11. QED BY <1>8, <1>9, <1>10

\* The mean of a tracker is over the latest frame and only over frames of its
\* source and window; over all of them when each source's frames came in the
\* order of their times (rssi_tracker_add, rssi_tracker_average).
THEOREM MeanIsOfWindow == RssiSpec => []MeanOfWindow
<1>1. QED BY RssiStart, RssiStep, RssiInvMeans, PTL DEF RssiSpec
-----------------------------------------------------------------------------
(* Types of the tables of the BLE registry *)

ConnRow ==
  [aa : Aas, id : Nat, state : {"collecting", "confirmed"},
   init : Inits \cup {None}, candidates : Seq(Inits), seen : Nat,
   central : Nat, peripheral : Nat, rssi : BOOLEAN]
DeviceRow ==
  [addr : Addrs, id : Nat, conn : Nat, linked : Aas \cup {None}, rssi : BOOLEAN]
BleTables ==
  [conns : Seq(ConnRow), devices : Seq(DeviceRow), pending : Tally(Aas),
   nextId : Nat \ {0}]

LEMMA Bounds ==
  /\ ConnsMax \in Nat \ {0} /\ PendingCap \in Nat \ {0}
  /\ Threshold \in Nat \ {0} /\ MaxCandidates \in Nat \ {0}
BY BleRegistryAssumption

LEMMA EventTypes ==
  ASSUME NEW e \in BleEvents
  PROVE  /\ e.kind \in {"data", "connect"} => e.aa \in Aas /\ e.init \in Inits
         /\ e.kind \in {"adv", "connect"} => e.addr \in Addrs
         /\ e.kind = "connect" => e.initiator \in Addrs
BY BleRegistryAssumption

-----------------------------------------------------------------------------
(* Tables as sets of rows: a table is kept in the order of use, and what     *)
(* relates it to the others does not depend on that order.                   *)

OncePerAa(cs) == \A i, j \in DOMAIN cs : cs[i].aa = cs[j].aa => i = j

LEMMA RowIn ==
  ASSUME NEW cs, NEW aa
  PROVE  /\ HasConn(cs, aa) <=> \E r \in ToSet(cs) : r.aa = aa
         /\ HasConn(cs, aa) => /\ IndexOf(cs, aa) \in DOMAIN cs
                               /\ ConnOf(cs, aa) \in ToSet(cs)
                               /\ ConnOf(cs, aa).aa = aa
<1>1. HasConn(cs, aa) <=> \E r \in ToSet(cs) : r.aa = aa
  BY DEF HasConn, RowOf, ToSet
<1>2. ASSUME HasConn(cs, aa)
      PROVE  /\ IndexOf(cs, aa) \in DOMAIN cs /\ ConnOf(cs, aa) \in ToSet(cs)
             /\ ConnOf(cs, aa).aa = aa
  <2>1. IndexOf(cs, aa) \in RowOf(cs, aa)
    BY <1>2 DEF HasConn, IndexOf
  <2>2. IndexOf(cs, aa) \in DOMAIN cs /\ cs[IndexOf(cs, aa)].aa = aa
    BY <2>1 DEF RowOf
  <2>3. QED BY <2>2 DEF ConnOf, ToSet
<1>3. QED BY <1>1, <1>2

LEMMA ConnOfRow ==
  ASSUME NEW cs, OncePerAa(cs), NEW r \in ToSet(cs)
  PROVE  HasConn(cs, r.aa) /\ ConnOf(cs, r.aa) = r
<1>1. HasConn(cs, r.aa) /\ ConnOf(cs, r.aa) \in ToSet(cs) /\ ConnOf(cs, r.aa).aa = r.aa
  BY RowIn
<1>2. QED BY <1>1 DEF ToSet, OncePerAa

LEMMA AppendedSet ==
  ASSUME NEW S, NEW s \in Seq(S), NEW x \in S
  PROVE  /\ Append(s, x) \in Seq(S) /\ Len(Append(s, x)) = Len(s) + 1
         /\ ToSet(Append(s, x)) = ToSet(s) \cup {x}
<1> DEFINE u == Append(s, x)  n == Len(s) + 1
<1>1. u \in Seq(S) /\ Len(u) = n /\ (\A i \in 1 .. Len(s) : u[i] = s[i]) /\ u[n] = x
  BY AppendProperties
<1> HIDE DEF u
<1>2. Len(s) \in Nat /\ DOMAIN s = 1 .. Len(s) /\ DOMAIN u = 1 .. n
  BY <1>1, SeqDomain
<1>3. /\ \A i \in DOMAIN u : i \in DOMAIN s \/ i = n
      /\ \A i \in DOMAIN s : i \in DOMAIN u /\ u[i] = s[i]
      /\ n \in DOMAIN u
  BY <1>1, <1>2
<1> HIDE DEF n
<1>4. ToSet(u) = ToSet(s) \cup {x}
  BY <1>1, <1>3 DEF ToSet
<1>5. QED BY <1>1, <1>4 DEF u, n

LEMMA RemovedSet ==
  ASSUME NEW cs \in Seq(ConnRow), OncePerAa(cs), NEW k \in DOMAIN cs
  PROVE  LET u == RemoveAt(cs, k) IN
         /\ u \in Seq(ConnRow) /\ OncePerAa(u) /\ Len(u) = Len(cs) - 1
         /\ ToSet(u) = ToSet(cs) \ {cs[k]}
         /\ \A r \in ToSet(u) : r.aa # cs[k].aa
<1> DEFINE u == RemoveAt(cs, k)
<1>1. Len(cs) \in Nat /\ DOMAIN cs = 1 .. Len(cs)
  BY SeqDomain
<1>2. /\ u \in Seq(ConnRow) /\ Len(u) = Len(cs) - 1
      /\ \A i \in 1 .. Len(cs) - 1 : u[i] = IF i < k THEN cs[i] ELSE cs[i + 1]
  BY <1>1, RemoveAtIs
<1>3. DOMAIN u = 1 .. Len(cs) - 1
  BY <1>2, SeqDomain
<1> DEFINE from(i) == IF i < k THEN i ELSE i + 1
           back(j) == IF j < k THEN j ELSE j - 1
<1> HIDE DEF u
<1>4. ASSUME NEW i \in DOMAIN u
      PROVE  from(i) \in DOMAIN cs /\ from(i) # k /\ u[i] = cs[from(i)]
  BY <1>1, <1>2, <1>3
<1>5. ASSUME NEW j \in DOMAIN cs, j # k
      PROVE  back(j) \in DOMAIN u /\ u[back(j)] = cs[j]
  <2>1. CASE j < k
    BY <1>1, <1>2, <1>3, <2>1
  <2>2. CASE ~(j < k)
    <3>1. j - 1 \in 1 .. Len(cs) - 1 /\ ~(j - 1 < k) /\ (j - 1) + 1 = j
      BY <1>1, <1>5, <2>2
    <3>2. QED BY <1>2, <1>3, <2>2, <3>1
  <2>3. QED BY <2>1, <2>2
<1>6. ASSUME NEW i \in DOMAIN u, NEW j \in DOMAIN u, u[i].aa = u[j].aa
      PROVE  i = j
  <2>1. from(i) = from(j)
    BY <1>4, <1>6 DEF OncePerAa
  <2>2. QED BY <1>1, <1>3, <2>1
<1>7. ASSUME NEW i \in DOMAIN u PROVE u[i].aa # cs[k].aa
  BY <1>4 DEF OncePerAa
<1> HIDE DEF from, back
<1>8. ToSet(u) = ToSet(cs) \ {cs[k]}
  BY <1>4, <1>5, <1>7 DEF ToSet
<1>9. QED BY <1>2, <1>6, <1>7, <1>8 DEF OncePerAa, ToSet, u

LEMMA AppendedOncePerAa ==
  ASSUME NEW cs \in Seq(ConnRow), OncePerAa(cs), NEW c \in ConnRow,
         \A r \in ToSet(cs) : r.aa # c.aa
  PROVE  OncePerAa(Append(cs, c))
<1> DEFINE u == Append(cs, c)  n == Len(cs) + 1
<1>1. u \in Seq(ConnRow) /\ Len(u) = n /\ (\A i \in 1 .. Len(cs) : u[i] = cs[i]) /\ u[n] = c
  BY AppendProperties
<1> HIDE DEF u
<1>2. Len(cs) \in Nat /\ DOMAIN cs = 1 .. Len(cs) /\ DOMAIN u = 1 .. n
  BY <1>1, SeqDomain
<1>3. \A i \in DOMAIN u : i = n \/ (i \in DOMAIN cs /\ u[i] = cs[i] /\ u[i].aa # c.aa)
  BY <1>1, <1>2 DEF ToSet
<1>4. QED BY <1>1, <1>3 DEF OncePerAa, u

\* The row used last stands for the one it was.
LEMMA TouchedSet ==
  ASSUME NEW cs \in Seq(ConnRow), OncePerAa(cs), NEW c \in ConnRow, HasConn(cs, c.aa)
  PROVE  LET u == Touched(cs, c) IN
         /\ u \in Seq(ConnRow) /\ OncePerAa(u) /\ Len(u) = Len(cs)
         /\ ToSet(u) = {r \in ToSet(cs) : r.aa # c.aa} \cup {c}
<1> DEFINE k == IndexOf(cs, c.aa)  v == RemoveAt(cs, k)  u == Append(v, c)
<1>1. k \in DOMAIN cs /\ cs[k].aa = c.aa
  BY RowIn DEF ConnOf
<1> HIDE DEF k
<1>2. /\ v \in Seq(ConnRow) /\ OncePerAa(v) /\ Len(v) = Len(cs) - 1
      /\ ToSet(v) = ToSet(cs) \ {cs[k]}
      /\ \A r \in ToSet(v) : r.aa # cs[k].aa
  BY <1>1, RemovedSet
<1> HIDE DEF v
<1>3. ToSet(v) = {r \in ToSet(cs) : r.aa # c.aa}
  BY <1>1, <1>2 DEF ToSet
<1>4. u \in Seq(ConnRow) /\ Len(u) = Len(v) + 1 /\ ToSet(u) = ToSet(v) \cup {c}
  BY <1>2, AppendedSet
<1>5. OncePerAa(u)
  BY <1>1, <1>2, AppendedOncePerAa
<1>6. Len(u) = Len(cs)
  BY <1>2, <1>4, SeqDomain
<1>7. QED BY <1>3, <1>4, <1>5, <1>6 DEF Touched, k, v

-----------------------------------------------------------------------------
(* The victim of an eviction *)

\* There is a weakest row among those not confirmed: without candidates if there
\* is such, of those one with the fewest packets, of those the oldest.
LEMMA WeakestExists ==
  ASSUME NEW cs \in Seq(ConnRow), NEW open \in SUBSET DOMAIN cs, open # {}
  PROVE  \E i \in open : \A j \in open \ {i} : Weaker(cs, i, j)
<1> DEFINE hasCand(k) == Len(cs[k].candidates) > 0
           bare == {k \in open : ~hasCand(k)}
           A == IF bare = {} THEN open ELSE bare
           Seen == {cs[k].seen : k \in A}
<1>1. DOMAIN cs \subseteq Nat
  BY SeqDomain
<1>2. \A k \in DOMAIN cs : cs[k].seen \in Nat
  <2>1. \A r \in ConnRow : r.seen \in Nat
    BY DEF ConnRow
  <2>2. QED BY <2>1, SeqDomain
<1>3. A # {} /\ A \subseteq open
  OBVIOUS
<1>4. \A i \in A : \A j \in open : (hasCand(i) => hasCand(j)) /\ (j \notin A => hasCand(j) /\ ~hasCand(i))
  OBVIOUS
<1> HIDE DEF A
<1>5. Seen \in SUBSET Nat /\ Seen # {}
  BY <1>2, <1>3
<1>6. PICK s \in Seen : \A y \in Seen : s <= y
  <2> HIDE DEF Seen
  <2>1. QED BY <1>5, LeastNat
<1> DEFINE B == {k \in A : cs[k].seen = s}
<1>7. B \in SUBSET Nat /\ B # {}
  BY <1>1, <1>3, <1>6
<1>8. PICK i \in B : \A y \in B : i <= y
  <2> HIDE DEF B
  <2>1. QED BY <1>7, LeastNat
<1>9. ASSUME NEW j \in open \ {i} PROVE Weaker(cs, i, j)
  <2>1. i \in A /\ i \in open /\ cs[i].seen = s
    BY <1>3, <1>8
  <2>2. CASE j \notin A
    <3>1. hasCand(j) /\ ~hasCand(i)
      BY <1>4, <1>9, <2>1, <2>2
    <3>2. QED BY <3>1 DEF Weaker
  <2>3. CASE j \in A
    <3>1. hasCand(i) = hasCand(j)
      BY <1>4, <1>9, <2>1, <2>3
    <3>2. s <= cs[j].seen /\ s \in Nat /\ cs[j].seen \in Nat
      BY <1>2, <1>5, <1>6, <1>9, <2>3
    <3>3. CASE cs[j].seen # s
      <4>1. s < cs[j].seen
        BY <3>2, <3>3
      <4>2. QED BY <2>1, <3>1, <3>3, <4>1 DEF Weaker
    <3>4. CASE cs[j].seen = s
      <4>1. i <= j /\ i \in Nat /\ j \in Nat /\ i # j
        BY <1>1, <1>3, <1>8, <1>9, <2>3, <3>4
      <4>2. i < j
        BY <4>1
      <4>3. QED BY <2>1, <3>1, <3>4, <4>2 DEF Weaker
    <3>5. QED BY <3>3, <3>4
  <2>4. QED BY <2>2, <2>3
<1>10. QED BY <1>3, <1>8, <1>9

LEMMA VictimIs ==
  ASSUME NEW cs \in Seq(ConnRow), Len(cs) > 0
  PROVE  /\ Victim(cs) \in DOMAIN cs
         /\ Confirmed(cs[Victim(cs)]) =>
              Victim(cs) = 1 /\ \A j \in DOMAIN cs : Confirmed(cs[j])
<1> DEFINE open == {i \in DOMAIN cs : ~Confirmed(cs[i])}
<1>1. 1 \in DOMAIN cs
  BY SeqDomain
<1>2. CASE open = {}
  BY <1>1, <1>2 DEF Victim
<1>3. CASE open # {}
  <2>1. Victim(cs) = CHOOSE i \in open : \A j \in open \ {i} : Weaker(cs, i, j)
    BY <1>3 DEF Victim
  <2>2. open \in SUBSET DOMAIN cs
    OBVIOUS
  <2> HIDE DEF open
  <2>3. Victim(cs) \in open
    BY <1>3, <2>1, <2>2, WeakestExists
  <2>4. QED BY <2>3 DEF open
<1>4. QED BY <1>2, <1>3

-----------------------------------------------------------------------------
(* Tables that agree *)

KnownIds(t) == {t.devices[k].id : k \in DOMAIN t.devices}

\* An address has one row, and an id is given once.
IdsOnce(t) ==
  /\ OncePerAa(t.conns)
  /\ \A r, s \in ToSet(t.conns) : r.id = s.id => r = s
  /\ \A k, m \in DOMAIN t.devices :
       t.devices[k].addr = t.devices[m].addr \/ t.devices[k].id = t.devices[m].id => k = m
  /\ \A r \in ToSet(t.conns) : r.id \in 1 .. t.nextId - 1 /\ r.id \notin KnownIds(t)
  /\ \A k \in DOMAIN t.devices : /\ t.devices[k].id \in 1 .. t.nextId - 1
                                 /\ t.devices[k].conn < t.nextId

\* A connection joins two known devices or none; a device is linked to the row
\* it names, if that is still there.
JoinedRow(c, known) ==
  /\ (c.central = None) <=> (c.peripheral = None)
  /\ {c.central, c.peripheral} \ {None} \subseteq known
Joined(t) ==
  /\ \A r \in ToSet(t.conns) : JoinedRow(r, KnownIds(t))
  /\ \A k \in DOMAIN t.devices : \A r \in ToSet(t.conns) :
       r.id = t.devices[k].conn => r.aa = t.devices[k].linked /\ r.central # None

\* Addresses without a row are tallied, each once and below the threshold.
TalliedRight(ps, cs) ==
  /\ OncePerKey(ps)
  /\ \A p \in DOMAIN ps : /\ ps[p].count < Threshold
                          /\ \A r \in ToSet(cs) : r.aa # ps[p].key

BleSound(t) ==
  t \in BleTables /\ IdsOnce(t) /\ Joined(t) /\ TalliedRight(t.pending, t.conns)

LEMMA TableFields ==
  ASSUME NEW t \in BleTables
  PROVE  /\ t.conns \in Seq(ConnRow) /\ t.devices \in Seq(DeviceRow)
         /\ t.pending \in Tally(Aas) /\ t.nextId \in Nat \ {0}
BY DEF BleTables

LEMMA RowFields ==
  ASSUME NEW c \in ConnRow
  PROVE  /\ c.aa \in Aas /\ c.id \in Nat /\ c.state \in {"collecting", "confirmed"}
         /\ c.init \in Inits \cup {None} /\ c.candidates \in Seq(Inits) /\ c.seen \in Nat
         /\ c.central \in Nat /\ c.peripheral \in Nat /\ c.rssi \in BOOLEAN
BY DEF ConnRow

LEMMA RowTypes ==
  ASSUME NEW t \in BleTables
  PROVE  /\ ToSet(t.conns) \subseteq ConnRow
         /\ \A k \in DOMAIN t.devices : t.devices[k] \in DeviceRow
<1>1. t.conns \in Seq(ConnRow) /\ t.devices \in Seq(DeviceRow)
  BY TableFields
<1>2. \A i \in DOMAIN t.conns : t.conns[i] \in ConnRow
  BY <1>1, SeqDomain
<1>3. \A k \in DOMAIN t.devices : t.devices[k] \in DeviceRow
  BY <1>1, SeqDomain
<1>4. QED BY <1>2, <1>3 DEF ToSet

LEMMA PendingChanged ==
  ASSUME NEW t, BleSound(t), NEW q \in Tally(Aas), TalliedRight(q, t.conns)
  PROVE  LET u == [t EXCEPT !.pending = q] IN
         /\ BleSound(u) /\ u.conns = t.conns /\ u.devices = t.devices
         /\ u.pending = q /\ u.nextId = t.nextId
<1> DEFINE u == [t EXCEPT !.pending = q]
<1>1. t \in BleTables
  BY DEF BleSound
<1>2. /\ u \in BleTables /\ u.conns = t.conns /\ u.devices = t.devices
      /\ u.pending = q /\ u.nextId = t.nextId
  BY <1>1 DEF BleTables
<1> HIDE DEF u
<1>3. KnownIds(u) = KnownIds(t)
  BY <1>2 DEF KnownIds
<1>4. IdsOnce(u) /\ Joined(u)
  BY <1>2, <1>3 DEF BleSound, IdsOnce, Joined
<1>5. BleSound(u)
  BY <1>2, <1>4 DEF BleSound
<1>6. QED BY <1>2, <1>5 DEF u

LEMMA NewConnFacts ==
  ASSUME NEW aa \in Aas, NEW id \in Nat
  PROVE  LET c == NewConn(aa, id) IN
         /\ c \in ConnRow /\ c.aa = aa /\ c.id = id
         /\ c.central = None /\ c.peripheral = None
         /\ ~Confirmed(c) /\ c.candidates = <<>>
BY DEF NewConn, ConnRow, None, Confirmed

\* Who leaves a full table for a new row: one not confirmed, if there is one.
LeavesRightly(r, cs) ==
  Confirmed(r) => r = cs[1] /\ \A s \in ToSet(cs) : Confirmed(s)

LEMMA CreatedFacts ==
  ASSUME NEW t, BleSound(t), NEW aa \in Aas, ~HasConn(t.conns, aa),
         \A p \in DOMAIN t.pending : t.pending[p].key # aa
  PROVE  LET u == Created(t, aa) IN
         /\ BleSound(u) /\ u.devices = t.devices /\ u.pending = t.pending
         /\ NewConn(aa, t.nextId) \in ToSet(u.conns)
         /\ ToSet(u.conns) \subseteq ToSet(t.conns) \cup {NewConn(aa, t.nextId)}
         /\ \A r \in ToSet(t.conns) \ ToSet(u.conns) : LeavesRightly(r, t.conns)
<1> DEFINE cs == t.conns
           kept == IF Len(cs) < ConnsMax THEN cs ELSE RemoveAt(cs, Victim(cs))
           new == NewConn(aa, t.nextId)
           grown == Append(kept, new)
           next == t.nextId + 1
           u == Created(t, aa)
<1>0. /\ t \in BleTables /\ cs \in Seq(ConnRow) /\ t.devices \in Seq(DeviceRow)
      /\ t.pending \in Tally(Aas) /\ t.nextId \in Nat \ {0} /\ OncePerAa(cs)
      /\ ToSet(cs) \subseteq ConnRow
  BY TableFields, RowTypes DEF BleSound, IdsOnce
<1>1. /\ kept \in Seq(ConnRow) /\ OncePerAa(kept) /\ ToSet(kept) \subseteq ToSet(cs)
      /\ \A r \in ToSet(cs) \ ToSet(kept) : LeavesRightly(r, cs)
  <2>1. CASE Len(cs) < ConnsMax
    BY <1>0, <2>1
  <2>2. CASE ~(Len(cs) < ConnsMax)
    <3>1. Len(cs) > 0
      BY <1>0, <2>2, SeqDomain, Bounds
    <3>2. /\ Victim(cs) \in DOMAIN cs
          /\ Confirmed(cs[Victim(cs)]) =>
               Victim(cs) = 1 /\ \A j \in DOMAIN cs : Confirmed(cs[j])
      BY <1>0, <3>1, VictimIs
    <3> DEFINE v == Victim(cs)  rest == RemoveAt(cs, v)
    <3>3. LeavesRightly(cs[v], cs)
      BY <3>2 DEF LeavesRightly, ToSet
    <3>4. kept = rest
      BY <2>2
    <3> HIDE DEF v
    <3>5. /\ rest \in Seq(ConnRow) /\ OncePerAa(rest)
          /\ ToSet(rest) = ToSet(cs) \ {cs[v]}
      BY <1>0, <3>2, RemovedSet DEF v
    <3> HIDE DEF kept, rest
    <3>6. QED BY <3>3, <3>4, <3>5
  <2>3. QED BY <2>1, <2>2
<1>2. /\ new \in ConnRow /\ new.aa = aa /\ new.id = t.nextId
      /\ new.central = None /\ new.peripheral = None
  BY <1>0, NewConnFacts
<1>3. u = [t EXCEPT !.conns = grown, !.nextId = next]
  BY <1>0 DEF Created
<1> HIDE DEF kept, new
<1>4. grown \in Seq(ConnRow) /\ ToSet(grown) = ToSet(kept) \cup {new}
  BY <1>1, <1>2, AppendedSet
<1>5. next \in Nat \ {0} /\ next - 1 = t.nextId /\ t.nextId \in 1 .. t.nextId
  BY <1>0
<1>6. \A r \in ToSet(cs) : r.aa # aa
  BY RowIn
<1>7. OncePerAa(grown)
  BY <1>1, <1>2, <1>6, AppendedOncePerAa
<1> HIDE DEF grown, next, u
<1>8. /\ u \in BleTables /\ u.conns = grown /\ u.nextId = next
      /\ u.devices = t.devices /\ u.pending = t.pending
  BY <1>0, <1>3, <1>4, <1>5 DEF BleTables
<1>9. KnownIds(u) = KnownIds(t)
  BY <1>8 DEF KnownIds
<1> DEFINE known == KnownIds(t)
<1>10. /\ \A r \in ToSet(cs) : r.id \in 1 .. t.nextId /\ r.id # t.nextId /\ r.id \notin known
       /\ \A k \in DOMAIN t.devices : /\ t.devices[k].id \in 1 .. t.nextId
                                      /\ t.devices[k].id # t.nextId
                                      /\ t.devices[k].conn # t.nextId
                                      /\ t.devices[k].conn < next
  <2>1. /\ \A r \in ToSet(cs) : r.id \in 1 .. t.nextId - 1 /\ r.id \notin known
        /\ \A k \in DOMAIN t.devices : /\ t.devices[k].id \in 1 .. t.nextId - 1
                                       /\ t.devices[k].conn < t.nextId
    BY DEF BleSound, IdsOnce
  <2>2. \A x \in 1 .. t.nextId - 1 : x \in 1 .. t.nextId /\ x # t.nextId
    BY <1>0
  <2>3. \A k \in DOMAIN t.devices : t.devices[k].conn \in Nat
    <3>1. \A d \in DeviceRow : d.conn \in Nat
      BY DEF DeviceRow
    <3>2. QED BY <1>0, <3>1, SeqDomain
  <2>4. \A x \in Nat : x < t.nextId => x # t.nextId /\ x < next
    BY <1>0 DEF next
  <2> HIDE DEF known
  <2>5. QED BY <2>1, <2>2, <2>3, <2>4
<1>11. t.nextId \notin known
  BY <1>10 DEF KnownIds
<1> HIDE DEF known
<1>12. IdsOnce(u)
  <2>1. \A r, s \in ToSet(grown) : r.id = s.id => r = s
    BY <1>1, <1>2, <1>4, <1>10 DEF BleSound, IdsOnce
  <2>2. \A r \in ToSet(grown) : r.id \in 1 .. next - 1 /\ r.id \notin known
    BY <1>1, <1>2, <1>4, <1>5, <1>10, <1>11
  <2>3. \A k, m \in DOMAIN t.devices :
          t.devices[k].addr = t.devices[m].addr \/ t.devices[k].id = t.devices[m].id => k = m
    BY DEF BleSound, IdsOnce
  <2>4. QED BY <1>5, <1>7, <1>8, <1>9, <1>10, <2>1, <2>2, <2>3 DEF IdsOnce, known
<1>13. Joined(u)
  <2>1. /\ \A r \in ToSet(cs) : JoinedRow(r, known)
        /\ \A k \in DOMAIN t.devices : \A r \in ToSet(cs) :
             r.id = t.devices[k].conn => r.aa = t.devices[k].linked /\ r.central # None
    BY DEF BleSound, Joined, known
  <2>2. JoinedRow(new, known)
    BY <1>2 DEF JoinedRow
  <2>3. \A r \in ToSet(grown) : JoinedRow(r, known)
    BY <1>1, <1>4, <2>1, <2>2
  <2>4. \A k \in DOMAIN t.devices : new.id # t.devices[k].conn
    BY <1>2, <1>10
  <2>5. \A k \in DOMAIN t.devices : \A r \in ToSet(grown) :
          r.id = t.devices[k].conn => r.aa = t.devices[k].linked /\ r.central # None
    BY <1>1, <1>4, <2>1, <2>4
  <2>6. QED BY <1>8, <1>9, <2>3, <2>5 DEF Joined, known
<1>14. TalliedRight(t.pending, grown)
  BY <1>1, <1>2, <1>4 DEF BleSound, TalliedRight
<1>15. BleSound(u)
  BY <1>8, <1>12, <1>13, <1>14 DEF BleSound
<1>16. QED BY <1>1, <1>4, <1>8, <1>15 DEF u, new

\* The tally once an address without a row was heard, or claimed its row.
HeardTally(t, aa, force) ==
  IF force THEN t.pending ELSE Bumped(t.pending, aa, PendingCap)

LEMMA AcquiredFacts ==
  ASSUME NEW t, BleSound(t), NEW aa \in Aas, NEW force \in BOOLEAN
  PROVE  LET u == Acquired(t, aa, force)  ps == HeardTally(t, aa, force) IN
         /\ BleSound(u) /\ u.devices = t.devices
         /\ HasConn(t.conns, aa) => u = t
         /\ force => HasConn(u.conns, aa)
         /\ ~HasConn(u.conns, aa) => u.conns = t.conns /\ u.pending = ps
         /\ ~HasConn(t.conns, aa) /\ HasConn(u.conns, aa) =>
              /\ u.pending = Untallied(ps, aa)
              /\ force \/ CountOf(ps, aa) >= Threshold
              /\ NewConn(aa, t.nextId) \in ToSet(u.conns)
              /\ ToSet(u.conns) \subseteq ToSet(t.conns) \cup {NewConn(aa, t.nextId)}
              /\ \A r \in ToSet(t.conns) \ ToSet(u.conns) : LeavesRightly(r, t.conns)
<1> DEFINE u == Acquired(t, aa, force)  ps == HeardTally(t, aa, force)
<1>1. CASE HasConn(t.conns, aa)
  <2>1. u = t
    BY <1>1 DEF Acquired
  <2>2. QED BY <1>1, <2>1
<1>2. CASE ~HasConn(t.conns, aa)
  <2>1. /\ t.pending \in Tally(Aas) /\ OncePerKey(t.pending)
        /\ \A p \in DOMAIN t.pending :
             /\ t.pending[p].count < Threshold
             /\ \A r \in ToSet(t.conns) : r.aa # t.pending[p].key
    BY TableFields DEF BleSound, TalliedRight
  <2>2. /\ ps \in Tally(Aas) /\ OncePerKey(ps)
        /\ \A p \in DOMAIN ps : ps[p].key # aa => \E j \in DOMAIN t.pending : ps[p] = t.pending[j]
    <3>1. CASE force
      BY <2>1, <3>1 DEF HeardTally
    <3>2. CASE ~force
      <4>1. ps = Bumped(t.pending, aa, PendingCap)
        BY <3>2 DEF HeardTally
      <4>2. QED BY <2>1, <4>1, Bounds, BumpedFacts
    <3>3. QED BY <3>1, <3>2
  <2>3. u = IF force \/ CountOf(ps, aa) >= Threshold
            THEN Created([t EXCEPT !.pending = Untallied(ps, aa)], aa)
            ELSE [t EXCEPT !.pending = ps]
    BY <1>2 DEF Acquired, HeardTally
  <2> HIDE DEF ps, u
  <2>4. \A r \in ToSet(t.conns) : r.aa # aa
    BY <1>2, RowIn
  <2>5. CASE force \/ CountOf(ps, aa) >= Threshold
    <3> DEFINE q == Untallied(ps, aa)
               v == [t EXCEPT !.pending = q]
    <3>1. /\ q \in Tally(Aas) /\ OncePerKey(q)
          /\ \A p \in DOMAIN q : q[p].key # aa /\ \E j \in DOMAIN ps : q[p] = ps[j]
      BY <2>2, UntalliedFacts
    <3> HIDE DEF q
    <3>2. TalliedRight(q, t.conns)
      BY <2>1, <2>2, <3>1 DEF TalliedRight
    <3>3. /\ BleSound(v) /\ v.conns = t.conns /\ v.devices = t.devices
          /\ v.pending = q /\ v.nextId = t.nextId
      BY <3>1, <3>2, PendingChanged
    <3>4. u = Created(v, aa)
      BY <2>3, <2>5 DEF q
    <3> HIDE DEF v
    <3>5. ~HasConn(v.conns, aa) /\ \A p \in DOMAIN v.pending : v.pending[p].key # aa
      BY <1>2, <3>1, <3>3
    <3>6. /\ BleSound(u) /\ u.devices = v.devices /\ u.pending = v.pending
          /\ NewConn(aa, v.nextId) \in ToSet(u.conns)
          /\ ToSet(u.conns) \subseteq ToSet(v.conns) \cup {NewConn(aa, v.nextId)}
          /\ \A r \in ToSet(v.conns) \ ToSet(u.conns) : LeavesRightly(r, v.conns)
      BY <3>3, <3>4, <3>5, CreatedFacts
    <3>7. HasConn(u.conns, aa)
      <4>1. NewConn(aa, v.nextId).aa = aa
        BY DEF NewConn
      <4>2. QED BY <3>6, <4>1, RowIn
    <3>8. QED BY <1>2, <2>5, <3>3, <3>6, <3>7 DEF q, u, ps
  <2>6. CASE ~(force \/ CountOf(ps, aa) >= Threshold)
    <3>1. ps = Bumped(t.pending, aa, PendingCap)
      BY <2>6 DEF HeardTally, ps
    <3>2. CountOf(ps, aa) \in Nat /\ Threshold \in Nat
      BY <2>1, <2>2, PlaceIs, Bounds DEF CountOf
    <3>3. ASSUME NEW p \in DOMAIN ps
          PROVE  /\ ps[p].count < Threshold
                 /\ \A r \in ToSet(t.conns) : r.aa # ps[p].key
      <4>1. CASE ps[p].key = aa
        <5>1. p \in 1 .. Len(ps)
          BY <2>2, <3>3, SeqDomain DEF Tally
        <5>2. CountOf(ps, ps[p].key) = ps[p].count
          BY <2>2, <5>1, CountIs
        <5>3. CountOf(ps, aa) < Threshold
          BY <2>6, <3>2
        <5>4. QED BY <2>4, <4>1, <5>2, <5>3
      <4>2. CASE ps[p].key # aa
        BY <2>1, <2>2, <3>3, <4>2
      <4>3. QED BY <4>1, <4>2
    <3>4. TalliedRight(ps, t.conns)
      BY <2>2, <3>3 DEF TalliedRight
    <3>5. u = [t EXCEPT !.pending = ps]
      BY <2>3, <2>6
    <3>6. /\ BleSound(u) /\ u.conns = t.conns /\ u.devices = t.devices
          /\ u.pending = ps
      BY <2>2, <3>4, <3>5, PendingChanged
    <3>7. QED BY <1>2, <2>6, <3>6 DEF u, ps
  <2>7. QED BY <2>5, <2>6
<1>3. QED BY <1>1, <1>2

-----------------------------------------------------------------------------
(* Devices *)

SameConns(t, u) == u.conns = t.conns /\ u.pending = t.pending

LEMMA DeviceIdKnown ==
  ASSUME NEW t, NEW addr, DeviceRows(t.devices, addr) # {}
  PROVE  DeviceId(t.devices, addr) \in KnownIds(t)
<1> DEFINE k == CHOOSE i \in DeviceRows(t.devices, addr) : TRUE
<1>1. k \in DeviceRows(t.devices, addr)
  OBVIOUS
<1>2. k \in DOMAIN t.devices
  BY <1>1 DEF DeviceRows
<1> HIDE DEF k
<1>3. t.devices[k].id \in KnownIds(t)
  BY <1>2 DEF KnownIds
<1>4. QED BY <1>3 DEF DeviceId, k

\* A device that is not yet known gets a row, at the end, and an id of its own.
LEMMA WithDeviceFacts ==
  ASSUME NEW t, BleSound(t), NEW addr \in Addrs
  PROVE  LET u == WithDevice(t, addr) IN
         /\ BleSound(u) /\ SameConns(t, u)
         /\ DeviceRows(u.devices, addr) # {}
         /\ \A a \in Addrs : DeviceRows(t.devices, a) # {} => DeviceRows(u.devices, a) # {}
<1> DEFINE ds == t.devices
           new == [addr |-> addr, id |-> t.nextId, conn |-> None, linked |-> None,
                   rssi |-> FALSE]
           grown == Append(ds, new)  n == Len(ds) + 1  next == t.nextId + 1
           u == WithDevice(t, addr)
<1>0. /\ t \in BleTables /\ t.conns \in Seq(ConnRow) /\ ds \in Seq(DeviceRow)
      /\ t.pending \in Tally(Aas) /\ t.nextId \in Nat \ {0}
      /\ ToSet(t.conns) \subseteq ConnRow
      /\ \A k \in DOMAIN ds : ds[k] \in DeviceRow
  BY TableFields, RowTypes DEF BleSound
<1>1. CASE DeviceRows(ds, addr) # {}
  <2>1. u = t
    BY <1>1 DEF WithDevice
  <2>2. QED BY <1>1, <2>1 DEF SameConns
<1>2. CASE DeviceRows(ds, addr) = {}
  <2>1. u = [t EXCEPT !.devices = grown, !.nextId = next]
    BY <1>0, <1>2 DEF WithDevice
  <2>2. /\ new \in DeviceRow /\ new.addr = addr /\ new.id = t.nextId
        /\ new.conn = None
    BY <1>0 DEF DeviceRow, None
  <2> HIDE DEF new
  <2>3. /\ grown \in Seq(DeviceRow) /\ Len(grown) = n
        /\ \A k \in 1 .. Len(ds) : grown[k] = ds[k]
        /\ grown[n] = new
    BY <1>0, <2>2, AppendProperties
  <2> HIDE DEF grown
  <2>4. DOMAIN grown = 1 .. n /\ DOMAIN ds = 1 .. Len(ds) /\ Len(ds) \in Nat
    BY <1>0, <2>3, SeqDomain
  <2>5. /\ \A k \in DOMAIN grown : k \in DOMAIN ds \/ k = n
        /\ \A k \in DOMAIN ds : k \in DOMAIN grown /\ grown[k] = ds[k] /\ k # n
        /\ n \in DOMAIN grown
    BY <2>3, <2>4
  <2>6. next \in Nat \ {0} /\ next - 1 = t.nextId /\ t.nextId \in 1 .. t.nextId /\ 0 < next
    BY <1>0
  <2> HIDE DEF n, next, u
  <2>7. /\ u \in BleTables /\ u.devices = grown /\ u.nextId = next
        /\ u.conns = t.conns /\ u.pending = t.pending
    BY <1>0, <2>1, <2>3, <2>6 DEF BleTables
  <2> DEFINE known == KnownIds(t)
  <2>8. KnownIds(u) = known \cup {t.nextId}
    BY <2>2, <2>3, <2>5, <2>7 DEF KnownIds
  <2>9. /\ \A r \in ToSet(t.conns) : r.id \in 1 .. t.nextId /\ r.id # t.nextId /\ r.id \notin known
        /\ \A k \in DOMAIN ds : /\ ds[k].id \in 1 .. t.nextId /\ ds[k].id # t.nextId
                                /\ ds[k].conn < next
    <3>1. /\ \A r \in ToSet(t.conns) : r.id \in 1 .. t.nextId - 1 /\ r.id \notin known
          /\ \A k \in DOMAIN ds : ds[k].id \in 1 .. t.nextId - 1 /\ ds[k].conn < t.nextId
      BY DEF BleSound, IdsOnce
    <3>2. \A x \in 1 .. t.nextId - 1 : x \in 1 .. t.nextId /\ x # t.nextId
      BY <1>0
    <3>3. \A k \in DOMAIN ds : ds[k].conn \in Nat
      BY <1>0 DEF DeviceRow
    <3>4. \A x \in Nat : x < t.nextId => x < next
      BY <1>0 DEF next
    <3> HIDE DEF known, ds
    <3>5. QED BY <3>1, <3>2, <3>3, <3>4
  <2> HIDE DEF known
  <2>10. IdsOnce(u)
    <3>1. \A k, m \in DOMAIN ds : ds[k].addr = ds[m].addr \/ ds[k].id = ds[m].id => k = m
      BY DEF BleSound, IdsOnce
    <3>2. \A k \in DOMAIN ds : ds[k].addr # addr
      BY <1>2 DEF DeviceRows
    <3>3. \A k, m \in DOMAIN grown :
            grown[k].addr = grown[m].addr \/ grown[k].id = grown[m].id => k = m
      <4>1. ASSUME NEW k \in DOMAIN grown, NEW m \in DOMAIN grown,
                   grown[k].addr = grown[m].addr \/ grown[k].id = grown[m].id
            PROVE  k = m
        <5>1. CASE k \in DOMAIN ds /\ m \in DOMAIN ds
          BY <2>5, <3>1, <4>1, <5>1
        <5>2. CASE k \notin DOMAIN ds \/ m \notin DOMAIN ds
          BY <2>2, <2>3, <2>5, <2>9, <3>2, <4>1, <5>2
        <5>3. QED BY <5>1, <5>2
      <4>2. QED BY <4>1
    <3>4. \A r \in ToSet(t.conns) : r.id \in 1 .. next - 1 /\ r.id \notin known \cup {t.nextId}
      BY <2>6, <2>9
    <3>5. \A k \in DOMAIN grown : grown[k].id \in 1 .. next - 1 /\ grown[k].conn < next
      BY <2>2, <2>3, <2>5, <2>6, <2>9 DEF None
    <3>6. OncePerAa(t.conns) /\ \A r, s \in ToSet(t.conns) : r.id = s.id => r = s
      BY DEF BleSound, IdsOnce
    <3>7. QED BY <2>7, <2>8, <3>3, <3>4, <3>5, <3>6 DEF IdsOnce
  <2>11. Joined(u)
    <3>1. \A r \in ToSet(t.conns) : JoinedRow(r, known)
      BY DEF BleSound, Joined, known
    <3>2. \A r \in ToSet(t.conns) : JoinedRow(r, known \cup {t.nextId})
      BY <3>1 DEF JoinedRow
    <3>3. \A k \in DOMAIN ds : \A r \in ToSet(t.conns) :
            r.id = ds[k].conn => r.aa = ds[k].linked /\ r.central # None
      BY DEF BleSound, Joined
    <3>4. \A r \in ToSet(t.conns) : r.id # None
      BY <2>9 DEF None
    <3>5. \A k \in DOMAIN grown : \A r \in ToSet(t.conns) :
            r.id = grown[k].conn => r.aa = grown[k].linked /\ r.central # None
      BY <2>2, <2>3, <2>5, <3>3, <3>4
    <3>6. QED BY <2>7, <2>8, <3>2, <3>5 DEF Joined
  <2>12. BleSound(u)
    BY <2>7, <2>10, <2>11 DEF BleSound
  <2>13. \A a \in Addrs : DeviceRows(ds, a) # {} => DeviceRows(grown, a) # {}
    BY <2>5 DEF DeviceRows
  <2>14. DeviceRows(grown, addr) # {}
    BY <2>2, <2>3, <2>5 DEF DeviceRows
  <2>15. QED BY <2>7, <2>12, <2>13, <2>14 DEF u, SameConns
<1>3. QED BY <1>1, <1>2

\* Devices that keep their addresses and ids.
WithDevices(t, ds) == [t EXCEPT !.devices = ds]

LEMMA DevicesChanged ==
  ASSUME NEW t, BleSound(t), NEW ds \in Seq(DeviceRow),
         DOMAIN ds = DOMAIN t.devices,
         \A k \in DOMAIN ds :
           /\ ds[k].addr = t.devices[k].addr /\ ds[k].id = t.devices[k].id
           /\ ds[k].conn < t.nextId
           /\ \A r \in ToSet(t.conns) :
                r.id = ds[k].conn => r.aa = ds[k].linked /\ r.central # None
  PROVE  LET u == WithDevices(t, ds) IN
         BleSound(u) /\ SameConns(t, u) /\ u.devices = ds
<1> DEFINE u == WithDevices(t, ds)
<1>1. /\ u \in BleTables /\ u.devices = ds /\ u.nextId = t.nextId
      /\ u.conns = t.conns /\ u.pending = t.pending
  BY DEF BleSound, BleTables, WithDevices
<1> HIDE DEF u
<1>2. KnownIds(u) = KnownIds(t)
  BY <1>1 DEF KnownIds
<1>3. IdsOnce(u)
  BY <1>1, <1>2 DEF BleSound, IdsOnce
<1>4. Joined(u)
  BY <1>1, <1>2 DEF BleSound, Joined
<1>5. BleSound(u)
  BY <1>1, <1>3, <1>4 DEF BleSound
<1>6. QED BY <1>1, <1>5 DEF u, SameConns

LEMMA ObservedFacts ==
  ASSUME NEW t, BleSound(t), NEW addr \in Addrs, NEW rssi
  PROVE  LET u == Observed(t, addr, rssi) IN BleSound(u) /\ SameConns(t, u)
<1> DEFINE v == WithDevice(t, addr)
           signal(d) == [d EXCEPT !.rssi = d.rssi \/ rssi]
           ds == [i \in DOMAIN v.devices |->
                    IF v.devices[i].addr = addr THEN signal(v.devices[i]) ELSE v.devices[i]]
           u == Observed(t, addr, rssi)
<1>1. BleSound(v) /\ SameConns(t, v)
  BY WithDeviceFacts
<1> HIDE DEF v
<1>2. v \in BleTables /\ v.devices \in Seq(DeviceRow)
  BY <1>1, TableFields DEF BleSound
<1>3. \A k \in DOMAIN v.devices : v.devices[k] \in DeviceRow
  BY <1>2, RowTypes
<1>4. \A d \in DeviceRow : /\ signal(d) \in DeviceRow /\ signal(d).addr = d.addr
                           /\ signal(d).id = d.id /\ signal(d).conn = d.conn
                           /\ signal(d).linked = d.linked
  BY DEF DeviceRow
<1>5. u = WithDevices(v, ds)
  BY <1>2 DEF Observed, DeviceUpdated, WithDevices, BleTables, v
<1> HIDE DEF signal
<1>6. DOMAIN ds = DOMAIN v.devices /\ ds \in Seq(DeviceRow)
  <2>1. \A k \in DOMAIN ds : ds[k] \in DeviceRow
    BY <1>3, <1>4
  <2>2. Len(v.devices) \in Nat /\ DOMAIN v.devices = 1 .. Len(v.devices)
    BY <1>2, SeqDomain
  <2>3. ds = [k \in DOMAIN ds |-> ds[k]] /\ DOMAIN ds = 1 .. Len(v.devices)
    BY <2>2
  <2> HIDE DEF ds
  <2>4. ds \in [1 .. Len(v.devices) -> DeviceRow]
    BY <2>1, <2>3
  <2>5. ds \in Seq(DeviceRow)
    BY <2>2, <2>4
  <2>6. QED BY <2>2, <2>3, <2>5
<1>7. \A k \in DOMAIN ds : /\ ds[k].addr = v.devices[k].addr /\ ds[k].id = v.devices[k].id
                           /\ ds[k].conn = v.devices[k].conn
                           /\ ds[k].linked = v.devices[k].linked
  BY <1>3, <1>4
<1> HIDE DEF ds, u
<1>8. \A k \in DOMAIN ds :
        /\ v.devices[k].conn < v.nextId
        /\ \A r \in ToSet(v.conns) :
             r.id = v.devices[k].conn => r.aa = v.devices[k].linked /\ r.central # None
  BY <1>1, <1>6 DEF BleSound, IdsOnce, Joined
<1>9. BleSound(u) /\ SameConns(v, u)
  BY <1>1, <1>5, <1>6, <1>7, <1>8, DevicesChanged
<1>10. QED BY <1>1, <1>9 DEF u, SameConns

-----------------------------------------------------------------------------
(* Rows in use *)

LEMMA TouchFacts ==
  ASSUME NEW t, BleSound(t), NEW c \in ConnRow, HasConn(t.conns, c.aa),
         c.id = ConnOf(t.conns, c.aa).id, JoinedRow(c, KnownIds(t)),
         ConnOf(t.conns, c.aa).central # None => c.central # None
  PROVE  LET u == [t EXCEPT !.conns = Touched(t.conns, c)] IN
         /\ BleSound(u) /\ u.conns = Touched(t.conns, c)
         /\ u.pending = t.pending /\ u.devices = t.devices /\ u.nextId = t.nextId
         /\ ToSet(u.conns) = {r \in ToSet(t.conns) : r.aa # c.aa} \cup {c}
         /\ OncePerAa(u.conns)
<1> DEFINE cs == Touched(t.conns, c)
           u == [t EXCEPT !.conns = cs]
           o == ConnOf(t.conns, c.aa)
<1>0. /\ t \in BleTables /\ t.conns \in Seq(ConnRow) /\ OncePerAa(t.conns)
      /\ TalliedRight(t.pending, t.conns)
  BY TableFields DEF BleSound, IdsOnce
<1>1. /\ cs \in Seq(ConnRow) /\ OncePerAa(cs)
      /\ ToSet(cs) = {r \in ToSet(t.conns) : r.aa # c.aa} \cup {c}
  BY <1>0, TouchedSet
<1>2. o \in ToSet(t.conns) /\ o.aa = c.aa /\ o.id = c.id
  BY RowIn
<1> HIDE DEF cs, o
<1>3. /\ u \in BleTables /\ u.conns = cs /\ u.pending = t.pending
      /\ u.devices = t.devices /\ u.nextId = t.nextId
  BY <1>0, <1>1 DEF BleTables
<1> HIDE DEF u
<1>4. KnownIds(u) = KnownIds(t)
  BY <1>3 DEF KnownIds
<1>5. IdsOnce(u)
  <2>1. \A r, s \in ToSet(cs) : r.id = s.id => r = s
    BY <1>1, <1>2 DEF BleSound, IdsOnce
  <2>2. \A r \in ToSet(cs) : r.id \in 1 .. t.nextId - 1 /\ r.id \notin KnownIds(t)
    BY <1>1, <1>2 DEF BleSound, IdsOnce
  <2>3. QED BY <1>1, <1>3, <1>4, <2>1, <2>2 DEF BleSound, IdsOnce
<1>6. Joined(u)
  <2>1. \A k \in DOMAIN t.devices :
          o.id = t.devices[k].conn => o.aa = t.devices[k].linked /\ o.central # None
    BY <1>2 DEF BleSound, Joined
  <2>2. \A k \in DOMAIN t.devices :
          c.id = t.devices[k].conn => c.aa = t.devices[k].linked /\ c.central # None
    BY <1>2, <2>1 DEF o
  <2>3. /\ \A r \in ToSet(t.conns) : JoinedRow(r, KnownIds(t))
        /\ \A k \in DOMAIN t.devices : \A r \in ToSet(t.conns) :
             r.id = t.devices[k].conn => r.aa = t.devices[k].linked /\ r.central # None
    BY DEF BleSound, Joined
  <2>4. \A r \in ToSet(cs) : JoinedRow(r, KnownIds(t))
    BY <1>1, <2>3
  <2>5. \A k \in DOMAIN t.devices : \A r \in ToSet(cs) :
          r.id = t.devices[k].conn => r.aa = t.devices[k].linked /\ r.central # None
    BY <1>1, <2>2, <2>3
  <2>6. QED BY <1>3, <1>4, <2>4, <2>5 DEF Joined
<1>7. TalliedRight(t.pending, cs)
  BY <1>0, <1>1, <1>2 DEF TalliedRight
<1>8. BleSound(u)
  BY <1>3, <1>5, <1>6, <1>7 DEF BleSound
<1>9. QED BY <1>1, <1>3, <1>8 DEF u, cs

LEMMA TailSet ==
  ASSUME NEW S, NEW s \in Seq(S), s # <<>>
  PROVE  Tail(s) \in Seq(S) /\ ToSet(Tail(s)) \subseteq ToSet(s)
<1> DEFINE u == Tail(s)
<1>1. /\ u \in Seq(S) /\ Len(u) = Len(s) - 1
      /\ \A i \in 1 .. Len(u) : u[i] = s[i + 1]
  BY HeadTailProperties
<1> HIDE DEF u
<1>2. Len(s) \in Nat /\ DOMAIN s = 1 .. Len(s) /\ DOMAIN u = 1 .. Len(u)
  BY <1>1, SeqDomain
<1>3. \A i \in DOMAIN u : i + 1 \in DOMAIN s /\ u[i] = s[i + 1]
  BY <1>1, <1>2
<1>4. QED BY <1>1, <1>3 DEF ToSet, u

LEMMA WithCandidateFacts ==
  ASSUME NEW c \in ConnRow, NEW init \in Inits
  PROVE  LET d == WithCandidate(c, init) IN
         /\ d \in ConnRow /\ d.aa = c.aa /\ d.id = c.id /\ d.state = c.state
         /\ d.init = c.init /\ d.seen = c.seen
         /\ d.central = c.central /\ d.peripheral = c.peripheral
         /\ ToSet(d.candidates) \subseteq ToSet(c.candidates) \cup {init}
<1> DEFINE room == IF Len(c.candidates) < MaxCandidates THEN c.candidates
                   ELSE Tail(c.candidates)
           cands == Append(room, init)
           d == WithCandidate(c, init)
<1>1. CASE Contains(c.candidates, init)
  BY <1>1 DEF WithCandidate
<1>2. CASE ~Contains(c.candidates, init)
  <2>1. c.candidates \in Seq(Inits)
    BY RowFields
  <2>2. room \in Seq(Inits) /\ ToSet(room) \subseteq ToSet(c.candidates)
    <3>1. CASE Len(c.candidates) < MaxCandidates
      BY <2>1, <3>1
    <3>2. CASE ~(Len(c.candidates) < MaxCandidates)
      <4>1. c.candidates # <<>>
        BY <3>2, Bounds
      <4>2. /\ Tail(c.candidates) \in Seq(Inits)
            /\ ToSet(Tail(c.candidates)) \subseteq ToSet(c.candidates)
        BY <2>1, <4>1, TailSet
      <4>3. QED BY <3>2, <4>2
    <3>3. QED BY <3>1, <3>2
  <2>3. d = [c EXCEPT !.candidates = cands]
    BY <1>2 DEF WithCandidate, ConnRow
  <2> HIDE DEF room, d
  <2>4. cands \in Seq(Inits) /\ ToSet(cands) = ToSet(room) \cup {init}
    BY <2>2, AppendedSet
  <2> HIDE DEF cands
  <2>5. /\ d \in ConnRow /\ d.aa = c.aa /\ d.id = c.id /\ d.state = c.state
        /\ d.init = c.init /\ d.seen = c.seen /\ d.central = c.central
        /\ d.peripheral = c.peripheral /\ d.candidates = cands
    BY <2>3, <2>4 DEF ConnRow
  <2>6. QED BY <2>2, <2>4, <2>5 DEF d
<1>3. QED BY <1>1, <1>2

\* The CRCInit of a confirmed row was verified, its candidates were proposed.
RowProven(c, proposed, verified) ==
  /\ Confirmed(c) => c.init \in verified
  /\ ToSet(c.candidates) \subseteq proposed

LEMMA ConfirmFacts ==
  ASSUME NEW c \in ConnRow, NEW init \in Inits
  PROVE  LET d == Confirm(c, init) IN
         /\ d \in ConnRow /\ d.aa = c.aa /\ d.id = c.id /\ d.init = init
         /\ d.seen = c.seen /\ d.central = c.central /\ d.peripheral = c.peripheral
         /\ d.candidates = <<>>
<1> DEFINE none == <<>>  state == "confirmed"
           d == [c EXCEPT !.state = state, !.init = init, !.candidates = none]
<1>1. none \in Seq(Inits) /\ state \in {"collecting", "confirmed"}
  OBVIOUS
<1>2. Confirm(c, init) = d
  BY DEF Confirm
<1> HIDE DEF none, state
<1>3. /\ d \in ConnRow /\ d.aa = c.aa /\ d.id = c.id /\ d.init = init
      /\ d.seen = c.seen /\ d.central = c.central /\ d.peripheral = c.peripheral
      /\ d.candidates = none
  BY <1>1 DEF ConnRow
<1>4. QED BY <1>2, <1>3 DEF none

Counted(c, rssi) == [[c EXCEPT !.seen = c.seen + 1] EXCEPT !.rssi = c.rssi \/ rssi]

LEMMA SeenFacts ==
  ASSUME NEW c \in ConnRow, NEW rssi
  PROVE  LET d == Counted(c, rssi) IN
         /\ d \in ConnRow /\ d.aa = c.aa /\ d.id = c.id /\ d.state = c.state
         /\ d.init = c.init /\ d.candidates = c.candidates
         /\ d.central = c.central /\ d.peripheral = c.peripheral
<1> DEFINE n == c.seen + 1  r == c.rssi \/ rssi
           d == [[c EXCEPT !.seen = n] EXCEPT !.rssi = r]
<1>1. n \in Nat /\ r \in BOOLEAN
  BY RowFields
<1> HIDE DEF n, r
<1>2. /\ d \in ConnRow /\ d.aa = c.aa /\ d.id = c.id /\ d.state = c.state
      /\ d.init = c.init /\ d.candidates = c.candidates
      /\ d.central = c.central /\ d.peripheral = c.peripheral
  BY <1>1 DEF ConnRow
<1>3. QED BY <1>2 DEF Counted, n, r

\* What a data frame makes of the row of its address.
GatedRow(c, e) == [Gated(c, e) EXCEPT !.rssi = @ \/ e.rssi]

LEMMA GatedFacts ==
  ASSUME NEW c \in ConnRow, NEW e, e.init \in Inits, NEW proposed, NEW verified,
         RowProven(c, proposed, verified)
  PROVE  LET d == GatedRow(c, e) IN
         /\ d \in ConnRow /\ d.aa = c.aa /\ d.id = c.id
         /\ d.central = c.central /\ d.peripheral = c.peripheral
         /\ e.empty => RowProven(d, proposed \cup {e.init}, verified)
         /\ ~e.empty => RowProven(d, proposed, verified \cup ({e.init} \cap proposed))
<1> DEFINE b == IF GateVerifies(c, e)
                THEN IF Confirmed(c) THEN c ELSE Confirm(c, e.init)
                ELSE IF ~Confirmed(c) /\ e.empty THEN WithCandidate(c, e.init) ELSE c
           d == GatedRow(c, e)
<1>1. /\ b \in ConnRow /\ b.aa = c.aa /\ b.id = c.id
      /\ b.central = c.central /\ b.peripheral = c.peripheral
      /\ e.empty => RowProven(b, proposed \cup {e.init}, verified)
      /\ ~e.empty => RowProven(b, proposed, verified \cup ({e.init} \cap proposed))
  <2>1. CASE b = c
    BY <2>1 DEF RowProven
  <2>2. CASE GateVerifies(c, e) /\ ~Confirmed(c)
    <3>1. b = Confirm(c, e.init)
      BY <2>2
    <3>2. ~e.empty /\ Contains(c.candidates, e.init)
      BY <2>2 DEF GateVerifies
    <3>3. e.init \in ToSet(c.candidates)
      <4>1. c.candidates \in Seq(Inits)
        BY RowFields
      <4>2. DOMAIN c.candidates = 1 .. Len(c.candidates)
        BY <4>1, SeqDomain
      <4>3. QED BY <3>2, <4>2 DEF Contains, ToSet
    <3> HIDE DEF b
    <3>4. /\ b \in ConnRow /\ b.aa = c.aa /\ b.id = c.id /\ b.init = e.init
          /\ b.central = c.central /\ b.peripheral = c.peripheral /\ b.candidates = <<>>
      BY <3>1, ConfirmFacts
    <3>5. ToSet(b.candidates) = {}
      BY <3>4 DEF ToSet
    <3>6. QED BY <3>2, <3>3, <3>4, <3>5 DEF RowProven
  <2>3. CASE ~GateVerifies(c, e) /\ ~Confirmed(c) /\ e.empty
    <3>1. b = WithCandidate(c, e.init)
      BY <2>3
    <3> HIDE DEF b
    <3>2. /\ b \in ConnRow /\ b.aa = c.aa /\ b.id = c.id /\ b.state = c.state
          /\ b.central = c.central /\ b.peripheral = c.peripheral
          /\ ToSet(b.candidates) \subseteq ToSet(c.candidates) \cup {e.init}
      BY <3>1, WithCandidateFacts
    <3>3. QED BY <2>3, <3>2 DEF RowProven, Confirmed
  <2>4. QED BY <2>1, <2>2, <2>3
<1>2. d = Counted(b, e.rssi)
  <2>1. Gated(c, e) = [b EXCEPT !.seen = b.seen + 1]
    BY DEF Gated
  <2> HIDE DEF b
  <2>2. [b EXCEPT !.seen = b.seen + 1].rssi = b.rssi
    BY <1>1 DEF ConnRow
  <2>3. d = [Gated(c, e) EXCEPT !.rssi = Gated(c, e).rssi \/ e.rssi]
    BY DEF GatedRow
  <2>4. QED BY <2>1, <2>2, <2>3 DEF Counted
<1> HIDE DEF b, d
<1>3. /\ d \in ConnRow /\ d.aa = b.aa /\ d.id = b.id /\ d.state = b.state
      /\ d.init = b.init /\ d.candidates = b.candidates
      /\ d.central = b.central /\ d.peripheral = b.peripheral
  BY <1>1, <1>2, SeenFacts
<1>4. QED BY <1>1, <1>3 DEF RowProven, Confirmed, d

\* A row whose members are set.
JoinRow(c, central, peripheral) ==
  [c EXCEPT !.central = central, !.peripheral = peripheral]

LEMMA JoinRowFacts ==
  ASSUME NEW c \in ConnRow, NEW x \in Nat, NEW y \in Nat
  PROVE  LET d == JoinRow(c, x, y) IN
         /\ d \in ConnRow /\ d.aa = c.aa /\ d.id = c.id /\ d.state = c.state
         /\ d.init = c.init /\ d.candidates = c.candidates
         /\ d.central = x /\ d.peripheral = y
BY DEF JoinRow, ConnRow

LinkDevice(d, id, aa) == [d EXCEPT !.conn = id, !.linked = aa]

LEMMA LinkDeviceFacts ==
  ASSUME NEW d \in DeviceRow, NEW id \in Nat, NEW aa \in Aas
  PROVE  LET f == LinkDevice(d, id, aa) IN
         /\ f \in DeviceRow /\ f.addr = d.addr /\ f.id = d.id
         /\ f.conn = id /\ f.linked = aa
<1> DEFINE f == LinkDevice(d, id, aa)
<1>1. aa \in Aas \cup {None}
  OBVIOUS
<1>2. f = [d EXCEPT !.conn = id, !.linked = aa]
  BY DEF LinkDevice
<1>3. QED BY <1>1, <1>2 DEF DeviceRow

\* Of the tables a, the row of the address joined two devices and may have
\* gained a candidate.
HasLinkedRow(u, a, e) ==
  \E d \in ConnRow :
    LET o == ConnOf(a.conns, e.aa) IN
    /\ d.aa = e.aa /\ d.id = o.id /\ d.state = o.state /\ d.init = o.init
    /\ ToSet(d.candidates) \subseteq ToSet(o.candidates) \cup {e.init}
    /\ ToSet(u.conns) = {r \in ToSet(a.conns) : r.aa # e.aa} \cup {d}

\* A CONNECT_IND gives its address a row, or finds it, and proposes a CRCInit.
LEMMA LinkedFacts ==
  ASSUME NEW t, BleSound(t), NEW e, e.aa \in Aas, e.init \in Inits,
         e.addr \in Addrs, e.initiator \in Addrs
  PROVE  /\ BleSound(Linked(t, e))
         /\ Linked(t, e).pending = Acquired(t, e.aa, TRUE).pending
         /\ HasLinkedRow(Linked(t, e), Acquired(t, e.aa, TRUE), e)
<1> DEFINE a == Acquired(t, e.aa, TRUE)
           t0 == WithDevice(a, e.initiator)
           t1 == WithDevice(t0, e.addr)
           o == ConnOf(t1.conns, e.aa)
           x == DeviceId(t1.devices, e.addr)
           y == DeviceId(t1.devices, e.initiator)
           c == JoinRow(o, x, y)
           c2 == IF Confirmed(c) THEN c ELSE WithCandidate(c, e.init)
           t2 == [t1 EXCEPT !.conns = Touched(t1.conns, c2)]
           ds == [i \in DOMAIN t2.devices |->
                    IF t2.devices[i].addr = e.addr
                    THEN LinkDevice(t2.devices[i], c2.id, e.aa) ELSE t2.devices[i]]
           u == Linked(t, e)
<1>1. BleSound(a) /\ HasConn(a.conns, e.aa)
  BY AcquiredFacts
<1> HIDE DEF a
<1>2. /\ BleSound(t0) /\ SameConns(a, t0) /\ DeviceRows(t0.devices, e.initiator) # {}
  BY <1>1, WithDeviceFacts
<1> HIDE DEF t0
<1>3. /\ BleSound(t1) /\ SameConns(a, t1) /\ DeviceRows(t1.devices, e.addr) # {}
      /\ DeviceRows(t1.devices, e.initiator) # {}
  BY <1>2, WithDeviceFacts DEF SameConns
<1>4. u = [t2 EXCEPT !.devices = ds]
  <2>1. u = DeviceUpdated(t2, e.addr, LAMBDA d : [d EXCEPT !.conn = c2.id, !.linked = e.aa])
    BY DEF Linked, JoinRow, a, t0
  <2>2. QED BY <2>1 DEF DeviceUpdated, LinkDevice
<1> HIDE DEF t1, u
<1>5. t1 \in BleTables /\ t1.conns = a.conns /\ t1.pending = a.pending
  BY <1>3 DEF BleSound, SameConns
<1>6. o \in ConnRow /\ o.aa = e.aa /\ o = ConnOf(a.conns, e.aa) /\ HasConn(t1.conns, e.aa)
  BY <1>1, <1>5, RowIn, RowTypes
<1>7. /\ x \in KnownIds(t1) /\ y \in KnownIds(t1)
      /\ x \in Nat \ {None} /\ y \in Nat \ {None}
  <2>1. x \in KnownIds(t1) /\ y \in KnownIds(t1)
    BY <1>3, DeviceIdKnown
  <2>2. \A k \in KnownIds(t1) : k \in 1 .. t1.nextId - 1
    BY <1>3 DEF BleSound, IdsOnce, KnownIds
  <2>3. QED BY <2>1, <2>2 DEF None
<1> HIDE DEF o, x, y
<1>8. /\ c \in ConnRow /\ c.aa = e.aa /\ c.id = o.id /\ c.state = o.state
      /\ c.init = o.init /\ c.candidates = o.candidates
      /\ c.central = x /\ c.peripheral = y
  BY <1>6, <1>7, JoinRowFacts
<1> HIDE DEF c
<1>9. /\ c2 \in ConnRow /\ c2.aa = e.aa /\ c2.id = o.id /\ c2.state = o.state
      /\ c2.init = o.init /\ c2.central = x /\ c2.peripheral = y
      /\ ToSet(c2.candidates) \subseteq ToSet(o.candidates) \cup {e.init}
  <2>1. CASE Confirmed(c)
    BY <1>8, <2>1
  <2>2. CASE ~Confirmed(c)
    <3>1. c2 = WithCandidate(c, e.init)
      BY <2>2
    <3> HIDE DEF c2
    <3>2. QED BY <1>8, <3>1, WithCandidateFacts
  <2>3. QED BY <2>1, <2>2
<1> HIDE DEF c2
<1>10. /\ BleSound(t2) /\ t2.pending = t1.pending /\ t2.devices = t1.devices
       /\ t2.nextId = t1.nextId
       /\ ToSet(t2.conns) = {r \in ToSet(t1.conns) : r.aa # e.aa} \cup {c2}
  <2>1. JoinedRow(c2, KnownIds(t1))
    BY <1>7, <1>9 DEF JoinedRow
  <2>2. c2.id = ConnOf(t1.conns, c2.aa).id /\ c2.central # None
    BY <1>7, <1>9 DEF o
  <2>3. BleSound(t1) /\ c2 \in ConnRow /\ c2.aa = e.aa /\ HasConn(t1.conns, c2.aa)
    BY <1>3, <1>6, <1>9
  <2>4. /\ BleSound(t2) /\ t2.pending = t1.pending /\ t2.devices = t1.devices
        /\ t2.nextId = t1.nextId
        /\ ToSet(t2.conns) = {r \in ToSet(t1.conns) : r.aa # c2.aa} \cup {c2}
    BY <2>1, <2>2, <2>3, TouchFacts
  <2>5. QED BY <2>3, <2>4
<1> HIDE DEF t2
<1>11. c2 \in ToSet(t2.conns) /\ c2.id \in Nat /\ c2.id < t2.nextId
  <2>1. c2 \in ToSet(t2.conns)
    BY <1>10
  <2>2. c2.id \in 1 .. t2.nextId - 1 /\ t2.nextId \in Nat
    BY <1>10, <2>1, TableFields DEF BleSound, IdsOnce
  <2>3. QED BY <2>1, <2>2
<1>12. DOMAIN ds = DOMAIN t2.devices /\ ds \in Seq(DeviceRow)
  <2>1. /\ t2.devices \in Seq(DeviceRow)
        /\ \A k \in DOMAIN t2.devices : t2.devices[k] \in DeviceRow
    BY <1>10, TableFields, RowTypes DEF BleSound
  <2>2. \A k \in DOMAIN ds : ds[k] \in DeviceRow
    BY <1>11, <2>1, LinkDeviceFacts
  <2>3. Len(t2.devices) \in Nat /\ DOMAIN t2.devices = 1 .. Len(t2.devices)
    BY <2>1, SeqDomain
  <2>4. ds = [k \in DOMAIN ds |-> ds[k]] /\ DOMAIN ds = 1 .. Len(t2.devices)
    BY <2>3
  <2> HIDE DEF ds
  <2>5. ds \in [1 .. Len(t2.devices) -> DeviceRow]
    BY <2>2, <2>4
  <2>6. ds \in Seq(DeviceRow)
    BY <2>3, <2>5
  <2>7. QED BY <2>3, <2>4, <2>6
<1>13. ASSUME NEW k \in DOMAIN ds
       PROVE  /\ ds[k].addr = t2.devices[k].addr /\ ds[k].id = t2.devices[k].id
              /\ ds[k].conn < t2.nextId
              /\ \A r \in ToSet(t2.conns) :
                   r.id = ds[k].conn => r.aa = ds[k].linked /\ r.central # None
  <2>1. k \in DOMAIN t2.devices /\ t2.devices[k] \in DeviceRow
    BY <1>10, <1>12, <1>13, RowTypes DEF BleSound
  <2>2. CASE t2.devices[k].addr # e.addr
    <3>1. ds[k] = t2.devices[k]
      BY <2>1, <2>2
    <3> HIDE DEF ds
    <3>2. QED BY <1>10, <2>1, <3>1 DEF BleSound, IdsOnce, Joined
  <2>3. CASE t2.devices[k].addr = e.addr
    <3>1. ds[k] = LinkDevice(t2.devices[k], c2.id, e.aa)
      BY <2>1, <2>3
    <3> HIDE DEF ds
    <3>2. /\ ds[k].addr = t2.devices[k].addr /\ ds[k].id = t2.devices[k].id
          /\ ds[k].conn = c2.id /\ ds[k].linked = e.aa
      BY <1>11, <2>1, <3>1, LinkDeviceFacts
    <3>3. \A r \in ToSet(t2.conns) : r.id = c2.id => r = c2
      BY <1>10, <1>11 DEF BleSound, IdsOnce
    <3>4. c2.central # None
      BY <1>7, <1>9
    <3>5. QED BY <1>9, <1>11, <3>2, <3>3, <3>4
  <2>4. QED BY <2>2, <2>3
<1> HIDE DEF ds
<1>14. BleSound(u) /\ SameConns(t2, u)
  <2>1. u = WithDevices(t2, ds)
    BY <1>4 DEF WithDevices
  <2>2. QED BY <1>10, <1>12, <1>13, <2>1, DevicesChanged
<1>15. ToSet(u.conns) = {r \in ToSet(a.conns) : r.aa # e.aa} \cup {c2} /\ u.pending = a.pending
  BY <1>5, <1>10, <1>14 DEF SameConns
<1>16. HasLinkedRow(u, a, e)
  BY <1>6, <1>9, <1>15 DEF HasLinkedRow
<1>17. QED BY <1>14, <1>15, <1>16 DEF a, u

-----------------------------------------------------------------------------
(* What the tally remembers of a key: where it is, and who came after it *)

Kept(ps, key, n, others) ==
  \E p \in DOMAIN ps :
    /\ ps[p].key = key /\ ps[p].count >= n
    /\ \A q \in DOMAIN ps : q > p => ps[q].key \in others

LEMMA KeptCount ==
  ASSUME NEW K, NEW ps \in Tally(K), OncePerKey(ps), NEW key, NEW n, NEW others,
         Kept(ps, key, n, others)
  PROVE  CountOf(ps, key) >= n
<1>1. PICK p \in DOMAIN ps : ps[p].key = key /\ ps[p].count >= n
  BY DEF Kept
<1>2. p \in 1 .. Len(ps)
  BY SeqDomain DEF Tally
<1>3. CountOf(ps, ps[p].key) = ps[p].count
  BY <1>2, CountIs
<1>4. QED BY <1>1, <1>3

LEMMA UntalliedKept ==
  ASSUME NEW K, NEW ps \in Tally(K), OncePerKey(ps), NEW key, NEW gone, gone # key,
         NEW n, NEW others, Kept(ps, key, n, others)
  PROVE  Kept(Untallied(ps, gone), key, n, others)
<1> DEFINE u == Untallied(ps, gone)  k == PlaceOf(ps, gone)
<1>1. Len(ps) \in Nat /\ DOMAIN ps = 1 .. Len(ps)
  BY SeqDomain DEF Tally
<1>2. CASE RowsOf(ps, gone) = {}
  BY <1>2 DEF Untallied
<1>3. CASE RowsOf(ps, gone) # {}
  <2>1. k \in 1 .. Len(ps) /\ ps[k].key = gone
    BY <1>3, PlaceIs
  <2>2. u = RemoveAt(ps, k)
    BY <1>3 DEF Untallied
  <2> HIDE DEF k, u
  <2>3. /\ u \in Tally(K) /\ Len(u) = Len(ps) - 1
        /\ \A i \in 1 .. Len(ps) - 1 : u[i] = IF i < k THEN ps[i] ELSE ps[i + 1]
    BY <2>1, <2>2, RemoveAtIs DEF Tally
  <2>4. DOMAIN u = 1 .. Len(ps) - 1
    BY <2>3, SeqDomain DEF Tally
  <2>5. PICK p \in DOMAIN ps :
          /\ ps[p].key = key /\ ps[p].count >= n
          /\ \A q \in DOMAIN ps : q > p => ps[q].key \in others
    BY DEF Kept
  <2>6. CASE p < k
    <3>1. p \in DOMAIN u /\ u[p] = ps[p]
      BY <1>1, <2>1, <2>3, <2>4, <2>5, <2>6
    <3>2. ASSUME NEW q \in DOMAIN u, q > p PROVE u[q].key \in others
      <4>1. CASE q < k
        BY <1>1, <2>3, <2>4, <2>5, <3>2, <4>1
      <4>2. CASE ~(q < k)
        <5>1. q + 1 \in DOMAIN ps /\ q + 1 > p
          BY <1>1, <2>4, <2>5, <3>2
        <5>2. u[q] = ps[q + 1]
          BY <2>3, <2>4, <4>2
        <5>3. QED BY <2>5, <5>1, <5>2
      <4>3. QED BY <4>1, <4>2
    <3>3. QED BY <2>5, <3>1, <3>2 DEF Kept, u
  <2>7. CASE p > k
    <3>1. p - 1 \in DOMAIN u /\ ~(p - 1 < k) /\ (p - 1) + 1 = p
      BY <1>1, <2>1, <2>4, <2>5, <2>7
    <3>2. u[p - 1] = ps[p]
      BY <2>3, <2>4, <3>1
    <3>3. ASSUME NEW q \in DOMAIN u, q > p - 1 PROVE u[q].key \in others
      <4>1. q + 1 \in DOMAIN ps /\ q + 1 > p /\ ~(q < k)
        BY <1>1, <2>1, <2>4, <2>5, <2>7, <3>3
      <4>2. u[q] = ps[q + 1]
        BY <2>3, <2>4, <4>1
      <4>3. QED BY <2>5, <4>1, <4>2
    <3>4. QED BY <2>5, <3>1, <3>2, <3>3 DEF Kept, u
  <2>8. p # k
    BY <2>1, <2>5
  <2>9. QED BY <1>1, <2>1, <2>5, <2>6, <2>7, <2>8
<1>4. QED BY <1>2, <1>3

LEMMA AppendKept ==
  ASSUME NEW K, NEW ps \in Tally(K), NEW row \in Row(K),
         NEW key, NEW n, NEW others, Kept(ps, key, n, others)
  PROVE  Kept(Append(ps, row), key, n, others \cup {row.key})
<1> DEFINE u == Append(ps, row)  m == Len(ps) + 1
<1>1. /\ u \in Tally(K) /\ Len(u) = m /\ (\A i \in 1 .. Len(ps) : u[i] = ps[i])
      /\ u[m] = row
  BY AppendProperties DEF Tally
<1> HIDE DEF u
<1>2. Len(ps) \in Nat /\ DOMAIN ps = 1 .. Len(ps) /\ DOMAIN u = 1 .. m
  BY <1>1, SeqDomain DEF Tally
<1>3. /\ \A q \in DOMAIN u : q = m \/ q \in DOMAIN ps
      /\ \A q \in DOMAIN ps : q \in DOMAIN u /\ u[q] = ps[q]
  BY <1>1, <1>2
<1> HIDE DEF m
<1>4. QED BY <1>1, <1>3 DEF Kept, u

\* The oldest row goes only if as many other keys came since as fill the tally.
LEMMA TailKept ==
  ASSUME NEW K, NEW ps \in Tally(K), OncePerKey(ps), ps # <<>>,
         NEW new, RowsOf(ps, new) = {},
         NEW key, NEW n, NEW others, IsFiniteSet(others), Kept(ps, key, n, others),
         Cardinality(others \cup {new}) < Len(ps)
  PROVE  Kept(Tail(ps), key, n, others)
<1> DEFINE u == Tail(ps)  m == Len(ps)
<1>1. m \in Nat /\ DOMAIN ps = 1 .. m
  BY SeqDomain DEF Tally
<1>2. /\ u \in Tally(K) /\ Len(u) = m - 1
      /\ \A i \in DOMAIN u : i + 1 \in DOMAIN ps /\ u[i] = ps[i + 1]
  BY TailOnce
<1>3. DOMAIN u = 1 .. m - 1
  BY <1>2, SeqDomain DEF Tally
<1>4. PICK p \in DOMAIN ps :
        /\ ps[p].key = key /\ ps[p].count >= n
        /\ \A q \in DOMAIN ps : q > p => ps[q].key \in others
  BY DEF Kept
<1> HIDE DEF u, m
<1>5. p # 1
  <2> SUFFICES ASSUME p = 1 PROVE FALSE
    OBVIOUS
  <2> DEFINE f == [q \in 1 .. m |-> IF q = 1 THEN new ELSE ps[q].key]
             T == others \cup {new}
  <2>1. \A q \in 1 .. m : ps[q].key # new
    BY <1>1 DEF RowsOf
  <2>2. \A q \in 1 .. m : q # 1 => ps[q].key \in others
    BY <1>1, <1>4
  <2>3. f \in [1 .. m -> T]
    BY <2>2
  <2>4. \A a, b \in 1 .. m : f[a] = f[b] => a = b
    BY <1>1, <2>1 DEF OncePerKey
  <2>5. f \in Injection(1 .. m, T)
    BY <2>3, <2>4 DEF Injection, IsInjective
  <2>6. IsFiniteSet(T) /\ Cardinality(T) \in Nat
    BY FS_AddElement, FS_CardinalityType
  <2> HIDE DEF f, T
  <2>7. Cardinality(1 .. m) <= Cardinality(T)
    BY <2>5, <2>6, FS_Injection
  <2>8. Cardinality(1 .. m) = m
    BY <1>1, FS_Interval
  <2>9. Cardinality(T) < m
    BY DEF T, m
  <2>10. QED BY <1>1, <2>6, <2>7, <2>8, <2>9
<1>6. p - 1 \in DOMAIN u /\ (p - 1) + 1 = p
  BY <1>1, <1>3, <1>4, <1>5
<1>7. u[p - 1] = ps[p]
  BY <1>2, <1>6
<1>8. ASSUME NEW q \in DOMAIN u, q > p - 1 PROVE u[q].key \in others
  <2>1. q + 1 \in DOMAIN ps /\ q + 1 > p /\ u[q] = ps[q + 1]
    BY <1>1, <1>2, <1>3, <1>4, <1>8
  <2>2. QED BY <1>4, <2>1
<1>9. QED BY <1>4, <1>6, <1>7, <1>8 DEF Kept, u

LEMMA BumpedKept ==
  ASSUME NEW K, NEW ps \in Tally(K), OncePerKey(ps), NEW new \in K,
         NEW cap \in Nat \ {0},
         NEW key, key # new, NEW n, NEW others, IsFiniteSet(others),
         Kept(ps, key, n, others), Cardinality(others \cup {new}) < cap
  PROVE  Kept(Bumped(ps, new, cap), key, n, others \cup {new})
<1> DEFINE full == CountOf(ps, new) = 0 /\ Len(ps) >= cap
           room == IF full THEN Tail(ps) ELSE Untallied(ps, new)
           row == [key |-> new, count |-> CountOf(ps, new) + 1]
<1>1. CountOf(ps, new) \in Nat
  BY PlaceIs DEF CountOf
<1>2. row \in Row(K) /\ row.key = new
  BY <1>1 DEF Row
<1>3. room \in Tally(K) /\ Kept(room, key, n, others)
  <2>1. CASE full
    <3>1. RowsOf(ps, new) = {}
      BY <2>1, PlaceIs
    <3>2. Len(ps) \in Nat /\ Cardinality(others \cup {new}) \in Nat
      BY FS_AddElement, FS_CardinalityType, SeqDomain DEF Tally
    <3>3. ps # <<>> /\ Cardinality(others \cup {new}) < Len(ps)
      BY <2>1, <3>2
    <3>4. Tail(ps) \in Tally(K) /\ Kept(Tail(ps), key, n, others)
      BY <3>1, <3>3, TailOnce, TailKept
    <3>5. room = Tail(ps)
      BY <2>1
    <3>6. QED BY <3>4, <3>5
  <2>2. CASE ~full
    <3>1. room = Untallied(ps, new)
      BY <2>2
    <3>2. Untallied(ps, new) \in Tally(K) /\ Kept(Untallied(ps, new), key, n, others)
      BY UntalliedFacts, UntalliedKept
    <3> HIDE DEF room
    <3>3. QED BY <3>1, <3>2
  <2>3. QED BY <2>1, <2>2
<1>4. Bumped(ps, new, cap) = Append(room, row)
  BY DEF Bumped
<1> HIDE DEF room, row
<1>5. QED BY <1>2, <1>3, <1>4, AppendKept

\* The key heard last has nobody after it.
LEMMA BumpedLast ==
  ASSUME NEW K, NEW ps \in Tally(K), OncePerKey(ps), NEW key \in K,
         NEW cap \in Nat \ {0}
  PROVE  Kept(Bumped(ps, key, cap), key, CountOf(ps, key) + 1, {})
<1> DEFINE room == IF CountOf(ps, key) = 0 /\ Len(ps) >= cap
                   THEN Tail(ps) ELSE Untallied(ps, key)
           row == [key |-> key, count |-> CountOf(ps, key) + 1]
           u == Bumped(ps, key, cap)
<1>1. u = Append(room, row) /\ u \in Tally(K)
  BY BumpedFacts DEF Bumped
<1>2. CountOf(ps, key) \in Nat
  BY PlaceIs DEF CountOf
<1>3. row.key = key /\ row.count = CountOf(ps, key) + 1
  OBVIOUS
<1>4. room \in Seq(Row(K)) /\ row \in Row(K)
  <2>1. CASE CountOf(ps, key) = 0 /\ Len(ps) >= cap
    <3>1. ps # <<>>
      BY <2>1
    <3>2. Tail(ps) \in Tally(K)
      BY <3>1, TailOnce
    <3>3. QED BY <1>2, <2>1, <3>2 DEF Tally, Row
  <2>2. CASE ~(CountOf(ps, key) = 0 /\ Len(ps) >= cap)
    <3>1. Untallied(ps, key) \in Tally(K)
      BY UntalliedFacts
    <3>2. room = Untallied(ps, key)
      BY <2>2
    <3> HIDE DEF room
    <3>3. QED BY <1>2, <3>1, <3>2 DEF Tally, Row
  <2>3. QED BY <2>1, <2>2
<1> HIDE DEF room, row, u
<1>5. Len(u) = Len(room) + 1 /\ u[Len(room) + 1] = row /\ Len(room) \in Nat
  BY <1>1, <1>4, AppendProperties, SeqDomain
<1>6. DOMAIN u = 1 .. Len(u)
  BY <1>1, SeqDomain DEF Tally
<1>7. Len(u) \in DOMAIN u /\ u[Len(u)] = row /\ \A q \in DOMAIN u : ~(q > Len(u))
  BY <1>5, <1>6
<1>8. QED BY <1>2, <1>3, <1>7 DEF Kept, u

-----------------------------------------------------------------------------
(* The history *)

Hearing ==
  [proposed : SUBSET Inits, verified : SUBSET Inits, frames : Nat,
   others : SUBSET Aas]

FreshRow(old, new, aa) ==
  HasConn(new.conns, aa) /\ (~HasConn(old.conns, aa)
                               \/ ConnOf(old.conns, aa).id # ConnOf(new.conns, aa).id)
\* What is known of an address whose row came or went in the step: nothing.
BaseOf(old, new, aa) ==
  IF FreshRow(old, new, aa) \/ (HasConn(old.conns, aa) /\ ~HasConn(new.conns, aa))
  THEN NothingHeard ELSE heardBle[aa]

WithOther(h, aa) == [h EXCEPT !.others = h.others \cup {aa}]
Verifies(h, init) == [h EXCEPT !.verified = h.verified \cup ({init} \cap h.proposed)]
Recounted(h) ==
  [NothingHeard EXCEPT !.frames =
     (IF Cardinality(h.others) < PendingCap THEN h.frames ELSE 0) + 1]

HeardOf(e, old, new, aa) ==
  IF e.kind \in {"data", "connect"} /\ e.aa = aa /\ e.kind = "connect"
  THEN IF e.crcOk /\ HasConn(new.conns, aa)
       THEN HeardProposal(BaseOf(old, new, aa), e.init) ELSE BaseOf(old, new, aa)
  ELSE IF e.kind \in {"data", "connect"} /\ e.aa = aa /\ HasConn(new.conns, aa)
  THEN IF e.empty THEN HeardProposal(BaseOf(old, new, aa), e.init)
       ELSE Verifies(BaseOf(old, new, aa), e.init)
  ELSE IF e.kind \in {"data", "connect"} /\ e.aa = aa
  THEN Recounted(heardBle[aa])
  ELSE IF e.kind = "data" /\ ~HasConn(old.conns, e.aa) /\ ~HasConn(new.conns, aa)
  THEN WithOther(BaseOf(old, new, aa), e.aa)
  ELSE BaseOf(old, new, aa)

LEMMA HeardIs ==
  ASSUME NEW e, NEW old, NEW new
  PROVE  /\ DOMAIN Heard(e, old, new) = Aas
         /\ \A aa \in Aas : Heard(e, old, new)[aa] = HeardOf(e, old, new, aa)
         /\ Heard(e, old, new) = [aa \in Aas |-> HeardOf(e, old, new, aa)]
<1>1. Heard(e, old, new) = [aa \in Aas |-> HeardOf(e, old, new, aa)]
  BY DEF Heard, HeardOf, BaseOf, FreshRow, WithOther, Verifies, Recounted
<1>2. QED BY <1>1

\* What is known of an address is of its type, and finite.
HearingOk(h) == h \in Hearing /\ IsFiniteSet(h.others)

LEMMA ProposalFacts ==
  ASSUME NEW h, HearingOk(h), NEW init \in Inits
  PROVE  /\ HearingOk(HeardProposal(h, init))
         /\ HeardProposal(h, init).proposed = h.proposed \cup {init}
         /\ HeardProposal(h, init).verified = h.verified
<1>0. h \in Hearing /\ IsFiniteSet(h.others)
  BY DEF HearingOk
<1> DEFINE x == h.proposed \cup {init}
<1>1. x \in SUBSET Inits
  BY <1>0 DEF Hearing
<1>2. HeardProposal(h, init) = [h EXCEPT !.proposed = x]
  BY <1>0 DEF HeardProposal, Hearing
<1> HIDE DEF x
<1>3. /\ HeardProposal(h, init) \in Hearing /\ HeardProposal(h, init).proposed = x
      /\ HeardProposal(h, init).verified = h.verified
      /\ HeardProposal(h, init).others = h.others
  BY <1>0, <1>1, <1>2 DEF Hearing
<1>4. QED BY <1>0, <1>3 DEF HearingOk, x

LEMMA VerifiesFacts ==
  ASSUME NEW h, HearingOk(h), NEW init \in Inits
  PROVE  /\ HearingOk(Verifies(h, init))
         /\ Verifies(h, init).proposed = h.proposed
         /\ Verifies(h, init).verified = h.verified \cup ({init} \cap h.proposed)
<1>0. h \in Hearing /\ IsFiniteSet(h.others)
  BY DEF HearingOk
<1> DEFINE x == h.verified \cup ({init} \cap h.proposed)
<1>1. x \in SUBSET Inits
  BY <1>0 DEF Hearing
<1>2. Verifies(h, init) = [h EXCEPT !.verified = x]
  BY DEF Verifies
<1> HIDE DEF x
<1>3. /\ Verifies(h, init) \in Hearing /\ Verifies(h, init).verified = x
      /\ Verifies(h, init).proposed = h.proposed
      /\ Verifies(h, init).others = h.others
  BY <1>0, <1>1, <1>2 DEF Hearing
<1>4. QED BY <1>0, <1>3 DEF HearingOk, x

LEMMA OtherFacts ==
  ASSUME NEW h, HearingOk(h), NEW aa \in Aas
  PROVE  /\ HearingOk(WithOther(h, aa))
         /\ WithOther(h, aa).proposed = h.proposed
         /\ WithOther(h, aa).verified = h.verified
         /\ WithOther(h, aa).frames = h.frames
         /\ WithOther(h, aa).others = h.others \cup {aa}
<1>0. h \in Hearing /\ IsFiniteSet(h.others)
  BY DEF HearingOk
<1> DEFINE x == h.others \cup {aa}
<1>1. x \in SUBSET Aas /\ IsFiniteSet(x)
  BY <1>0, FS_AddElement DEF Hearing
<1>2. WithOther(h, aa) = [h EXCEPT !.others = x]
  BY DEF WithOther
<1> HIDE DEF x
<1>3. /\ WithOther(h, aa) \in Hearing /\ WithOther(h, aa).verified = h.verified
      /\ WithOther(h, aa).proposed = h.proposed
      /\ WithOther(h, aa).frames = h.frames /\ WithOther(h, aa).others = x
  BY <1>0, <1>1, <1>2 DEF Hearing
<1>4. QED BY <1>1, <1>3 DEF HearingOk, x

LEMMA RecountedFacts ==
  ASSUME NEW h, HearingOk(h)
  PROVE  /\ HearingOk(Recounted(h)) /\ Recounted(h).others = {}
         /\ Recounted(h).frames =
              (IF Cardinality(h.others) < PendingCap THEN h.frames ELSE 0) + 1
<1>0. h \in Hearing /\ IsFiniteSet(h.others)
  BY DEF HearingOk
<1> DEFINE n == (IF Cardinality(h.others) < PendingCap THEN h.frames ELSE 0) + 1
<1>1. n \in Nat
  <2>1. h.frames \in Nat
    BY <1>0 DEF Hearing
  <2>2. QED BY <2>1
<1>2. Recounted(h) = [NothingHeard EXCEPT !.frames = n]
  BY DEF Recounted
<1> HIDE DEF n
<1>3. Recounted(h) = [proposed |-> {}, verified |-> {}, frames |-> n, others |-> {}]
  BY <1>2 DEF NothingHeard
<1>4. Recounted(h) \in Hearing /\ Recounted(h).others = {} /\ Recounted(h).frames = n
  BY <1>1, <1>3 DEF Hearing
<1>5. QED BY <1>4, FS_EmptySet DEF HearingOk, n

LEMMA NothingOk ==
  /\ HearingOk(NothingHeard) /\ NothingHeard.frames = 0
  /\ NothingHeard.proposed = {} /\ NothingHeard.verified = {} /\ NothingHeard.others = {}
BY FS_EmptySet DEF NothingHeard, Hearing, HearingOk

HearingsOk(hs) == DOMAIN hs = Aas /\ \A aa \in Aas : HearingOk(hs[aa])

LEMMA BaseOk ==
  ASSUME HearingsOk(heardBle), NEW old, NEW new, NEW aa \in Aas
  PROVE  HearingOk(BaseOf(old, new, aa))
BY NothingOk DEF HearingsOk, BaseOf

LEMMA HeardOk ==
  ASSUME HearingsOk(heardBle), NEW old, NEW new, NEW e \in BleEvents,
         e.kind \in {"data", "adv", "connect"}
  PROVE  HearingsOk(Heard(e, old, new))
<1>1. ASSUME NEW aa \in Aas PROVE HearingOk(HeardOf(e, old, new, aa))
  <2> DEFINE b == BaseOf(old, new, aa)
  <2>1. HearingOk(b) /\ HearingOk(heardBle[aa])
    BY BaseOk DEF HearingsOk
  <2>2. \A init \in Inits : HearingOk(HeardProposal(b, init)) /\ HearingOk(Verifies(b, init))
    BY <2>1, ProposalFacts, VerifiesFacts
  <2>3. \A x \in Aas : HearingOk(WithOther(b, x))
    BY <2>1, OtherFacts
  <2>4. HearingOk(Recounted(heardBle[aa]))
    BY <2>1, RecountedFacts
  <2>5. e.kind \in {"data", "connect"} => e.aa \in Aas /\ e.init \in Inits
    BY EventTypes
  <2>6. QED BY <2>1, <2>2, <2>3, <2>4, <2>5 DEF HeardOf
<1>2. QED BY <1>1, HeardIs DEF HearingsOk

-----------------------------------------------------------------------------
(* The invariant *)

\* As long as fewer others came in between than the tally has room for, it has
\* every frame of the address.
Remembers(ps, aa, h) ==
  h.frames > 0 /\ Cardinality(h.others) < PendingCap => Kept(ps, aa, h.frames, h.others)

HeardRight(t, hs) ==
  /\ HearingsOk(hs)
  /\ \A r \in ToSet(t.conns) : RowProven(r, hs[r.aa].proposed, hs[r.aa].verified)
  /\ \A aa \in Aas : ~HasConn(t.conns, aa) => Remembers(t.pending, aa, hs[aa])

BleInv == BleSound(Tables) /\ HeardRight(Tables, heardBle)

LEMMA RemembersUntallied ==
  ASSUME NEW ps \in Tally(Aas), OncePerKey(ps), NEW aa, NEW gone, gone # aa,
         NEW h, Remembers(ps, aa, h)
  PROVE  Remembers(Untallied(ps, gone), aa, h)
BY UntalliedKept DEF Remembers

LEMMA RemembersBumped ==
  ASSUME NEW ps \in Tally(Aas), OncePerKey(ps), NEW aa \in Aas, NEW new \in Aas,
         new # aa, NEW h, HearingOk(h), Remembers(ps, aa, h)
  PROVE  Remembers(Bumped(ps, new, PendingCap), aa, WithOther(h, new))
<1> DEFINE w == WithOther(h, new)
<1>1. w.frames = h.frames /\ w.others = h.others \cup {new} /\ IsFiniteSet(h.others)
  <2>1. IsFiniteSet(h.others)
    BY DEF HearingOk
  <2>2. w.frames = h.frames /\ w.others = h.others \cup {new}
    BY OtherFacts
  <2>3. QED BY <2>1, <2>2
<1> HIDE DEF w
<1>2. SUFFICES ASSUME w.frames > 0, Cardinality(w.others) < PendingCap
               PROVE  Kept(Bumped(ps, new, PendingCap), aa, w.frames, w.others)
  BY DEF Remembers, w
<1>3. Cardinality(h.others) < PendingCap
  <2>1. /\ Cardinality(h.others) \in Nat /\ Cardinality(w.others) \in Nat
        /\ Cardinality(h.others) <= Cardinality(w.others)
    <3>1. Cardinality(h.others) \in Nat /\ IsFiniteSet(w.others)
      BY <1>1, FS_CardinalityType, FS_AddElement
    <3>2. Cardinality(w.others) = IF new \in h.others THEN Cardinality(h.others)
                                  ELSE Cardinality(h.others) + 1
      BY <1>1, FS_AddElement
    <3>3. QED BY <3>1, <3>2
  <2>2. QED BY <1>2, <2>1, Bounds
<1>4. Kept(ps, aa, h.frames, h.others)
  BY <1>1, <1>2, <1>3 DEF Remembers
<1>5. QED BY <1>1, <1>2, <1>4, Bounds, BumpedKept

\* What a row rests on is known of its address, or the row is new and rests on
\* nothing.
LEMMA BaseOfRow ==
  ASSUME NEW old, NEW new, OncePerAa(old.conns), OncePerAa(new.conns),
         HeardRight(old, heardBle), NEW d \in ToSet(new.conns), NEW c,
         c.aa = d.aa, c.id = d.id,
         \/ c \in ToSet(old.conns)
         \/ ~HasConn(old.conns, c.aa) /\ ~Confirmed(c) /\ c.candidates = <<>>
  PROVE  RowProven(c, BaseOf(old, new, d.aa).proposed, BaseOf(old, new, d.aa).verified)
<1>1. HasConn(new.conns, d.aa) /\ ConnOf(new.conns, d.aa) = d
  BY ConnOfRow
<1>2. CASE c \in ToSet(old.conns)
  <2>1. HasConn(old.conns, d.aa) /\ ConnOf(old.conns, d.aa) = c
    BY <1>2, ConnOfRow
  <2>2. BaseOf(old, new, d.aa) = heardBle[d.aa]
    BY <1>1, <2>1 DEF BaseOf, FreshRow
  <2>3. QED BY <1>2, <2>2 DEF HeardRight
<1>3. CASE ~HasConn(old.conns, c.aa) /\ ~Confirmed(c) /\ c.candidates = <<>>
  <2>1. ToSet(c.candidates) = {}
    BY <1>3 DEF ToSet
  <2>2. QED BY <1>3, <2>1 DEF RowProven
<1>4. QED BY <1>2, <1>3

Concerns(e, aa) == e.kind \in {"data", "connect"} /\ e.aa = aa

\* A frame does not change what is known of rows of other addresses.
LEMMA OtherRows ==
  ASSUME NEW old, NEW new, OncePerAa(old.conns), OncePerAa(new.conns),
         HeardRight(old, heardBle), NEW e \in BleEvents,
         NEW r \in ToSet(new.conns), r \in ToSet(old.conns), r.aa \in Aas,
         ~Concerns(e, r.aa)
  PROVE  LET h == HeardOf(e, old, new, r.aa) IN RowProven(r, h.proposed, h.verified)
<1> DEFINE b == BaseOf(old, new, r.aa)
<1>1. RowProven(r, b.proposed, b.verified)
  BY BaseOfRow
<1>2. HasConn(new.conns, r.aa)
  BY RowIn
<1>3. HeardOf(e, old, new, r.aa) = b
  BY <1>2 DEF HeardOf, Concerns
<1>4. QED BY <1>1, <1>3

\* Nor does it make the tally forget other addresses.
LEMMA OtherTallied ==
  ASSUME NEW old, NEW new, BleSound(old), HeardRight(old, heardBle),
         NEW e \in BleEvents, NEW aa \in Aas, ~HasConn(new.conns, aa),
         ~Concerns(e, aa),
         LET ps == old.pending IN
         IF e.kind = "data" /\ ~HasConn(old.conns, e.aa)
         THEN LET b == Bumped(ps, e.aa, PendingCap)
              IN new.pending \in {b, Untallied(b, e.aa)}
         ELSE \/ new.pending = ps
              \/ e.kind = "connect" /\ new.pending = Untallied(ps, e.aa)
  PROVE  Remembers(new.pending, aa, HeardOf(e, old, new, aa))
<1> DEFINE b == BaseOf(old, new, aa)  h == HeardOf(e, old, new, aa)  ps == old.pending
           heardNow == e.kind = "data" /\ ~HasConn(old.conns, e.aa)
           q == Bumped(ps, e.aa, PendingCap)
<1>0. /\ ps \in Tally(Aas) /\ OncePerKey(ps) /\ HearingOk(b)
  BY TableFields, BaseOk DEF BleSound, TalliedRight, HeardRight
<1>1. h = IF heardNow THEN WithOther(b, e.aa) ELSE b
  BY DEF HeardOf, Concerns
<1>2. heardNow => e.aa \in Aas /\ e.aa # aa
  BY EventTypes DEF Concerns
<1>3. /\ heardNow => new.pending \in {q, Untallied(q, e.aa)}
      /\ ~heardNow => \/ new.pending = ps
                      \/ e.kind = "connect" /\ new.pending = Untallied(ps, e.aa)
  OBVIOUS
<1>4. Remembers(ps, aa, b)
  <2>1. CASE HasConn(old.conns, aa)
    <3>1. b = NothingHeard
      BY <2>1 DEF BaseOf
    <3>2. QED BY <3>1, NothingOk DEF Remembers
  <2>2. CASE ~HasConn(old.conns, aa)
    <3>1. b = heardBle[aa]
      BY <2>2 DEF BaseOf, FreshRow
    <3>2. QED BY <2>2, <3>1 DEF HeardRight
  <2>3. QED BY <2>1, <2>2
<1> HIDE DEF b, h, ps
<1>5. CASE heardNow
  <2>1. Remembers(q, aa, h)
    BY <1>0, <1>1, <1>2, <1>4, <1>5, RemembersBumped
  <2>2. q \in Tally(Aas) /\ OncePerKey(q)
    BY <1>0, <1>2, <1>5, BumpedFacts, Bounds
  <2> HIDE DEF q
  <2>3. Remembers(Untallied(q, e.aa), aa, h)
    BY <1>2, <1>5, <2>1, <2>2, RemembersUntallied
  <2>4. QED BY <1>3, <1>5, <2>1, <2>3 DEF h
<1>6. CASE ~heardNow
  <2>1. e.kind = "connect" => e.aa # aa
    BY DEF Concerns
  <2>2. h = b
    BY <1>1, <1>6
  <2> HIDE DEF heardNow
  <2>3. CASE new.pending = ps
    BY <1>4, <2>2, <2>3 DEF h
  <2>4. CASE e.kind = "connect" /\ new.pending = Untallied(ps, e.aa)
    BY <1>0, <1>4, <2>1, <2>2, <2>4, RemembersUntallied DEF h
  <2>5. QED BY <1>3, <1>6, <2>3, <2>4
<1>7. QED BY <1>5, <1>6

-----------------------------------------------------------------------------
(* The steps *)

LEMMA StepDone ==
  ASSUME NEW t, SetTables(t), BleSound(t), HeardRight(t, heardBle')
  PROVE  BleInv'
<1>1. t \in BleTables
  BY DEF BleSound
<1>2. Tables' = t
  BY <1>1 DEF Tables, SetTables, BleTables
<1>3. QED BY <1>2 DEF BleInv

LEMMA SameConnsKeep ==
  ASSUME NEW t, NEW u, SameConns(t, u), NEW hs, HeardRight(t, hs)
  PROVE  HeardRight(u, hs)
BY DEF SameConns, HeardRight

LEMMA KeptFewer ==
  ASSUME NEW ps \in Tally(Aas), NEW key, NEW n \in Int, NEW m \in Int, m <= n,
         NEW others, Kept(ps, key, n, others)
  PROVE  Kept(ps, key, m, others)
<1>1. PICK p \in DOMAIN ps :
        /\ ps[p].key = key /\ ps[p].count >= n
        /\ \A q \in DOMAIN ps : q > p => ps[q].key \in others
  BY DEF Kept
<1>2. ps[p] \in Row(Aas)
  BY SeqDomain DEF Tally
<1>3. ps[p].count \in Int
  BY <1>2 DEF Row
<1>4. ps[p].count >= m
  BY <1>1, <1>3
<1>5. QED BY <1>1, <1>4 DEF Kept

\* An address heard again, still without a row.
LEMMA RemembersHeard ==
  ASSUME NEW ps \in Tally(Aas), OncePerKey(ps), NEW aa \in Aas, NEW h,
         HearingOk(h), Remembers(ps, aa, h)
  PROVE  Remembers(Bumped(ps, aa, PendingCap), aa, Recounted(h))
<1> DEFINE q == Bumped(ps, aa, PendingCap)  w == Recounted(h)  c == CountOf(ps, aa)
<1>1. /\ w.others = {} /\ h.frames \in Nat
      /\ w.frames = (IF Cardinality(h.others) < PendingCap THEN h.frames ELSE 0) + 1
  BY RecountedFacts DEF HearingOk, Hearing
<1>2. Kept(q, aa, c + 1, {}) /\ q \in Tally(Aas)
  BY Bounds, BumpedLast, BumpedFacts
<1>3. c \in Nat
  BY PlaceIs DEF CountOf
<1>4. Cardinality(h.others) < PendingCap => c >= h.frames
  <2>1. CASE h.frames = 0
    BY <1>3, <2>1
  <2>2. CASE h.frames # 0
    <3>1. h.frames > 0
      BY <1>1, <2>2
    <3>2. QED BY <3>1, KeptCount DEF Remembers
  <2>3. QED BY <2>1, <2>2
<1> HIDE DEF q, w, c
<1>5. w.frames <= c + 1 /\ w.frames \in Int /\ c + 1 \in Int
  BY <1>1, <1>3, <1>4
<1>6. Kept(q, aa, w.frames, {})
  BY <1>2, <1>5, KeptFewer
<1>7. QED BY <1>1, <1>6 DEF Remembers, q, w

LEMMA TablesFields ==
  /\ Tables.conns = conns /\ Tables.devices = devices
  /\ Tables.pending = pending /\ Tables.nextId = nextId
BY DEF Tables

\* A data frame of an address that has no row, and earns none.
LEMMA TalliedDataKeeps ==
  ASSUME BleInv, NEW e \in BleEvents, e.kind = "data",
         LET t == Acquired(Tables, e.aa, FALSE) IN
         /\ ~HasConn(t.conns, e.aa)
         /\ SetTables(t) /\ heardBle' = Heard(e, Tables, t)
  PROVE  BleInv'
<1> DEFINE old == Tables  t == Acquired(old, e.aa, FALSE)  hs == Heard(e, old, t)
<1>1. BleSound(old) /\ HeardRight(old, heardBle) /\ e.aa \in Aas
  BY EventTypes DEF BleInv
<1>2. ~HasConn(t.conns, e.aa) /\ SetTables(t) /\ heardBle' = hs
  OBVIOUS
<1> HIDE DEF old
<1>3. /\ BleSound(t) /\ t.conns = old.conns
      /\ t.pending = Bumped(old.pending, e.aa, PendingCap)
      /\ ~HasConn(old.conns, e.aa)
  BY <1>1, <1>2, AcquiredFacts DEF HeardTally
<1> HIDE DEF t
<1>4. HearingsOk(hs) /\ \A aa \in Aas : hs[aa] = HeardOf(e, old, t, aa)
  BY <1>1, HeardOk, HeardIs DEF HeardRight
<1> HIDE DEF hs
<1>5. OncePerAa(t.conns) /\ t \in BleTables
  BY <1>3 DEF BleSound, IdsOnce
<1>6. ASSUME NEW r \in ToSet(t.conns)
      PROVE  RowProven(r, hs[r.aa].proposed, hs[r.aa].verified)
  <2>1. r.aa \in Aas /\ r.aa # e.aa
    BY <1>2, <1>5, <1>6, RowTypes, RowFields, RowIn
  <2>2. QED BY <1>1, <1>3, <1>4, <1>5, <1>6, <2>1, OtherRows DEF Concerns
<1>7. ASSUME NEW aa \in Aas, ~HasConn(t.conns, aa)
      PROVE  Remembers(t.pending, aa, hs[aa])
  <2>1. CASE aa = e.aa
    <3>1. HeardOf(e, old, t, aa) = Recounted(heardBle[aa])
      BY <1>2, <2>1 DEF HeardOf
    <3>2. /\ old.pending \in Tally(Aas) /\ OncePerKey(old.pending)
          /\ HearingOk(heardBle[aa]) /\ Remembers(old.pending, aa, heardBle[aa])
      BY <1>1, <1>3, <2>1, TableFields DEF BleSound, TalliedRight, HeardRight, HearingsOk
    <3>3. QED BY <1>3, <1>4, <2>1, <3>1, <3>2, RemembersHeard
  <2>2. CASE aa # e.aa
    <3>1. Remembers(t.pending, aa, HeardOf(e, old, t, aa))
      BY <1>1, <1>3, <1>7, <2>2, OtherTallied DEF Concerns
    <3>2. QED BY <1>4, <3>1
  <2>3. QED BY <2>1, <2>2
<1>8. HeardRight(t, hs)
  BY <1>4, <1>6, <1>7 DEF HeardRight
<1>9. QED BY <1>2, <1>3, <1>8, StepDone

\* The row an address is given or found to have, of a step from old.
LEMMA AcquiredRow ==
  ASSUME NEW old, BleSound(old), NEW aa \in Aas, NEW force \in BOOLEAN,
         HasConn(Acquired(old, aa, force).conns, aa)
  PROVE  LET t == Acquired(old, aa, force)  c == ConnOf(t.conns, aa) IN
         /\ c \in ConnRow /\ c \in ToSet(t.conns) /\ c.aa = aa
         /\ \/ c \in ToSet(old.conns)
            \/ ~HasConn(old.conns, c.aa) /\ ~Confirmed(c) /\ c.candidates = <<>>
         /\ \A r \in ToSet(t.conns) : r.aa # aa => r \in ToSet(old.conns)
         /\ t.pending = IF HasConn(old.conns, aa) THEN old.pending
                        ELSE Untallied(HeardTally(old, aa, force), aa)
<1> DEFINE t == Acquired(old, aa, force)  c == ConnOf(t.conns, aa)
           new == NewConn(aa, old.nextId)
<1>1. BleSound(t)
  BY AcquiredFacts
<1>2. c \in ConnRow /\ c \in ToSet(t.conns) /\ c.aa = aa
  <2>1. t \in BleTables /\ ToSet(t.conns) \subseteq ConnRow
    BY <1>1, RowTypes DEF BleSound
  <2>2. QED BY <2>1, RowIn
<1>3. CASE HasConn(old.conns, aa)
  <2>1. t = old
    BY <1>3, AcquiredFacts
  <2>2. QED BY <1>2, <1>3, <2>1
<1>4. CASE ~HasConn(old.conns, aa)
  <2>1. /\ t.pending = Untallied(HeardTally(old, aa, force), aa)
        /\ new \in ToSet(t.conns)
        /\ ToSet(t.conns) \subseteq ToSet(old.conns) \cup {new}
    BY <1>4, AcquiredFacts
  <2>2. old.nextId \in Nat
    BY TableFields DEF BleSound
  <2>3. new.aa = aa /\ ~Confirmed(new) /\ new.candidates = <<>>
    BY <2>2, NewConnFacts
  <2>4. OncePerAa(t.conns)
    BY <1>1 DEF BleSound, IdsOnce
  <2> HIDE DEF t, new
  <2>5. c = new
    BY <2>1, <2>3, <2>4, ConnOfRow
  <2>6. QED BY <1>2, <1>4, <2>1, <2>3, <2>5 DEF t
<1>5. QED BY <1>3, <1>4

\* A frame of an address with a row: the row becomes d, which rests on what was
\* known of the address and on the frame.
LEMMA RowStep ==
  ASSUME NEW old, BleSound(old), HeardRight(old, heardBle),
         NEW e \in BleEvents, e.kind \in {"data", "connect"},
         NEW force \in BOOLEAN, force <=> e.kind = "connect",
         HasConn(Acquired(old, e.aa, force).conns, e.aa),
         NEW u, BleSound(u), u.pending = Acquired(old, e.aa, force).pending,
         NEW d, d.aa = e.aa,
         ToSet(u.conns) = {r \in ToSet(Acquired(old, e.aa, force).conns) : r.aa # e.aa} \cup {d},
         LET h == HeardOf(e, old, u, e.aa) IN RowProven(d, h.proposed, h.verified)
  PROVE  HeardRight(u, Heard(e, old, u))
<1> DEFINE t == Acquired(old, e.aa, force)  hs == Heard(e, old, u)
<1>1. e.aa \in Aas
  BY EventTypes
<1>2. /\ \A r \in ToSet(t.conns) : r.aa # e.aa => r \in ToSet(old.conns)
      /\ t.pending = IF HasConn(old.conns, e.aa) THEN old.pending
                     ELSE Untallied(HeardTally(old, e.aa, force), e.aa)
  BY <1>1, AcquiredRow
<1>3. u.pending = t.pending /\ ToSet(u.conns) = {r \in ToSet(t.conns) : r.aa # e.aa} \cup {d}
  OBVIOUS
<1> HIDE DEF t
<1>4. HearingsOk(hs) /\ \A aa \in Aas : hs[aa] = HeardOf(e, old, u, aa)
  BY HeardOk, HeardIs DEF HeardRight
<1>h. LET h == HeardOf(e, old, u, e.aa) IN RowProven(d, h.proposed, h.verified)
  OBVIOUS
<1> HIDE DEF hs
<1>5. ASSUME NEW r \in ToSet(u.conns)
      PROVE  RowProven(r, hs[r.aa].proposed, hs[r.aa].verified)
  <2>1. CASE r = d
    BY <1>1, <1>4, <1>h, <2>1
  <2>2. CASE r # d
    <3>1. r.aa # e.aa /\ r \in ToSet(old.conns)
      BY <1>2, <1>3, <1>5, <2>2
    <3>2. r.aa \in Aas
      BY <3>1, RowTypes, RowFields DEF BleSound
    <3>3. OncePerAa(old.conns) /\ OncePerAa(u.conns)
      BY DEF BleSound, IdsOnce
    <3>4. QED BY <1>4, <1>5, <3>1, <3>2, <3>3, OtherRows DEF Concerns
  <2>3. QED BY <2>1, <2>2
<1>6. ASSUME NEW aa \in Aas, ~HasConn(u.conns, aa)
      PROVE  Remembers(u.pending, aa, hs[aa])
  <2>1. aa # e.aa
    BY <1>3, <1>6, RowIn
  <2>2. ~Concerns(e, aa)
    BY <2>1 DEF Concerns
  <2> DEFINE ps == old.pending  b == Bumped(ps, e.aa, PendingCap)
  <2>3. IF e.kind = "data" /\ ~HasConn(old.conns, e.aa)
        THEN u.pending \in {b, Untallied(b, e.aa)}
        ELSE \/ u.pending = ps
             \/ e.kind = "connect" /\ u.pending = Untallied(ps, e.aa)
    BY <1>2, <1>3 DEF HeardTally
  <2>4. Remembers(u.pending, aa, HeardOf(e, old, u, aa))
    BY <1>6, <2>2, <2>3, OtherTallied
  <2>5. QED BY <1>4, <2>4
<1>7. QED BY <1>4, <1>5, <1>6 DEF HeardRight, hs

LEMMA RowDataKeeps ==
  ASSUME BleInv, NEW e \in BleEvents, e.kind = "data",
         LET t == Acquired(Tables, e.aa, FALSE)
             c == ConnOf(t.conns, e.aa)
             t2 == [t EXCEPT !.conns = Touched(@, GatedRow(c, e))] IN
         /\ HasConn(t.conns, e.aa)
         /\ SetTables(t2) /\ heardBle' = Heard(e, Tables, t2)
  PROVE  BleInv'
<1> DEFINE old == Tables  t == Acquired(old, e.aa, FALSE)
           c == ConnOf(t.conns, e.aa)
           g == GatedRow(c, e)
           u == [t EXCEPT !.conns = Touched(t.conns, g)]
<1>1. /\ BleSound(old) /\ HeardRight(old, heardBle) /\ e.aa \in Aas /\ e.init \in Inits
      /\ OncePerAa(old.conns)
  BY EventTypes DEF BleInv, BleSound, IdsOnce
<1>2. HasConn(t.conns, e.aa) /\ SetTables(u) /\ heardBle' = Heard(e, old, u)
  <2>1. t \in BleTables
    BY <1>1, AcquiredFacts DEF BleSound
  <2>2. u = [t EXCEPT !.conns = Touched(@, g)]
    BY <2>1 DEF BleTables
  <2>3. QED BY <2>2
<1> HIDE DEF old
<1>3. /\ BleSound(t) /\ c \in ConnRow /\ c \in ToSet(t.conns) /\ c.aa = e.aa
      /\ \/ c \in ToSet(old.conns)
         \/ ~HasConn(old.conns, c.aa) /\ ~Confirmed(c) /\ c.candidates = <<>>
  BY <1>1, <1>2, AcquiredFacts, AcquiredRow
<1>t. t = Acquired(old, e.aa, FALSE)
  OBVIOUS
<1>c. c = ConnOf(t.conns, e.aa)
  OBVIOUS
<1> HIDE DEF t, c
<1>4. /\ g \in ConnRow /\ g.aa = c.aa /\ g.id = c.id
      /\ g.central = c.central /\ g.peripheral = c.peripheral
  <2>1. RowProven(c, ToSet(c.candidates), {c.init})
    BY DEF RowProven
  <2>2. QED BY <1>1, <1>3, <2>1, GatedFacts
<1>g. g = GatedRow(c, e)
  OBVIOUS
<1> HIDE DEF g
<1>5. /\ BleSound(u) /\ u.pending = t.pending
      /\ ToSet(u.conns) = {r \in ToSet(t.conns) : r.aa # g.aa} \cup {g}
  <2>1. JoinedRow(c, KnownIds(t))
    BY <1>3 DEF BleSound, Joined
  <2>2. JoinedRow(g, KnownIds(t))
    BY <1>4, <2>1 DEF JoinedRow
  <2>3. ConnOf(t.conns, g.aa) = c /\ HasConn(t.conns, g.aa)
    BY <1>2, <1>3, <1>4, <1>c
  <2>4. /\ g.id = ConnOf(t.conns, g.aa).id
        /\ ConnOf(t.conns, g.aa).central # None => g.central # None
    BY <1>4, <2>3
  <2>5. BleSound(t) /\ g \in ConnRow
    BY <1>3, <1>4
  <2>6. QED BY <2>2, <2>3, <2>4, <2>5, TouchFacts
<1> HIDE DEF u
<1>6. OncePerAa(u.conns) /\ g \in ToSet(u.conns) /\ HasConn(u.conns, e.aa)
  <2>1. g \in ToSet(u.conns)
    BY <1>5
  <2>2. QED BY <1>3, <1>4, <1>5, <2>1, RowIn DEF BleSound, IdsOnce
<1> DEFINE b == BaseOf(old, u, e.aa)  h == HeardOf(e, old, u, e.aa)
<1>7. RowProven(c, b.proposed, b.verified)
  BY <1>1, <1>3, <1>4, <1>6, BaseOfRow
<1>8. HearingOk(b)
  BY <1>1, BaseOk DEF HeardRight
<1>9. h = IF e.empty THEN HeardProposal(b, e.init) ELSE Verifies(b, e.init)
  BY <1>6 DEF HeardOf
<1> HIDE DEF b, h
<1>10. RowProven(g, h.proposed, h.verified)
  <2>1. CASE e.empty
    <3>1. h.proposed = b.proposed \cup {e.init} /\ h.verified = b.verified
      BY <1>1, <1>8, <1>9, <2>1, ProposalFacts
    <3>2. RowProven(g, b.proposed \cup {e.init}, b.verified)
      BY <1>1, <1>3, <1>7, <1>g, <2>1, GatedFacts
    <3>3. QED BY <3>1, <3>2
  <2>2. CASE ~e.empty
    <3>1. /\ h.proposed = b.proposed
          /\ h.verified = b.verified \cup ({e.init} \cap b.proposed)
      BY <1>1, <1>8, <1>9, <2>2, VerifiesFacts
    <3>2. RowProven(g, b.proposed, b.verified \cup ({e.init} \cap b.proposed))
      BY <1>1, <1>3, <1>7, <1>g, <2>2, GatedFacts
    <3>3. QED BY <3>1, <3>2
  <2>3. QED BY <2>1, <2>2
<1>11. HeardRight(u, Heard(e, old, u))
  <2>1. /\ HasConn(Acquired(old, e.aa, FALSE).conns, e.aa)
        /\ u.pending = Acquired(old, e.aa, FALSE).pending
        /\ g.aa = e.aa
        /\ ToSet(u.conns) = {r \in ToSet(Acquired(old, e.aa, FALSE).conns) : r.aa # e.aa} \cup {g}
    BY <1>2, <1>3, <1>4, <1>5, <1>t
  <2>2. LET x == HeardOf(e, old, u, e.aa) IN RowProven(g, x.proposed, x.verified)
    BY <1>10 DEF h
  <2>3. FALSE \in BOOLEAN /\ (FALSE <=> e.kind = "connect")
    OBVIOUS
  <2>4. QED BY <1>1, <1>5, <2>1, <2>2, <2>3, RowStep
<1>12. QED BY <1>2, <1>5, <1>11, StepDone

LEMMA LinkKeeps ==
  ASSUME BleInv, NEW e \in BleEvents, e.kind = "connect", e.crcOk,
         LET u == Linked(Observed(Tables, e.addr, e.rssi), e) IN
         SetTables(u) /\ heardBle' = Heard(e, Tables, u)
  PROVE  BleInv'
<1> DEFINE seen == Observed(Tables, e.addr, e.rssi)
           u == Linked(seen, e)
           a == Acquired(seen, e.aa, TRUE)
           o == ConnOf(a.conns, e.aa)
<1>1. /\ e.aa \in Aas /\ e.init \in Inits /\ e.addr \in Addrs /\ e.initiator \in Addrs
      /\ BleSound(Tables) /\ HeardRight(Tables, heardBle)
  BY EventTypes DEF BleInv
<1>2. BleSound(seen) /\ SameConns(Tables, seen)
  BY <1>1, ObservedFacts
<1>3. SetTables(u) /\ heardBle' = Heard(e, Tables, u)
  OBVIOUS
<1> HIDE DEF seen
<1>4. HeardRight(seen, heardBle) /\ Heard(e, Tables, u) = Heard(e, seen, u)
  <2>1. seen.conns = Tables.conns
    BY <1>2 DEF SameConns
  <2>2. HeardRight(seen, heardBle)
    BY <1>1, <1>2, SameConnsKeep
  <2> HIDE DEF u
  <2>3. QED BY <2>1, <2>2 DEF Heard
<1>5. BleSound(u) /\ u.pending = a.pending /\ HasLinkedRow(u, a, e)
  <2>1. /\ BleSound(Linked(seen, e))
        /\ Linked(seen, e).pending = Acquired(seen, e.aa, TRUE).pending
        /\ HasLinkedRow(Linked(seen, e), Acquired(seen, e.aa, TRUE), e)
    BY <1>1, <1>2, LinkedFacts
  <2>2. QED BY <2>1
<1> HIDE DEF u
<1>6. HasConn(a.conns, e.aa)
  BY <1>1, <1>2, AcquiredFacts
<1>7. /\ o \in ConnRow /\ o.aa = e.aa
      /\ \/ o \in ToSet(seen.conns)
         \/ ~HasConn(seen.conns, o.aa) /\ ~Confirmed(o) /\ o.candidates = <<>>
  BY <1>1, <1>2, <1>6, AcquiredRow
<1>a. a = Acquired(seen, e.aa, TRUE)
  OBVIOUS
<1> HIDE DEF a, o
<1>8. PICK d \in ConnRow :
        /\ d.aa = e.aa /\ d.id = o.id /\ d.state = o.state /\ d.init = o.init
        /\ ToSet(d.candidates) \subseteq ToSet(o.candidates) \cup {e.init}
        /\ ToSet(u.conns) = {r \in ToSet(a.conns) : r.aa # e.aa} \cup {d}
  BY <1>5 DEF HasLinkedRow, o
<1>9. /\ OncePerAa(seen.conns) /\ OncePerAa(u.conns) /\ d \in ToSet(u.conns)
      /\ HasConn(u.conns, e.aa)
  <2>1. d \in ToSet(u.conns)
    BY <1>8
  <2>2. QED BY <1>2, <1>5, <1>8, <2>1, RowIn DEF BleSound, IdsOnce
<1> DEFINE b == BaseOf(seen, u, e.aa)  h == HeardOf(e, seen, u, e.aa)
<1>10. RowProven(o, b.proposed, b.verified)
  BY <1>4, <1>7, <1>8, <1>9, BaseOfRow
<1>11. h = HeardProposal(b, e.init)
  BY <1>9 DEF HeardOf
<1>12. HearingOk(b)
  BY <1>1, BaseOk DEF HeardRight
<1> HIDE DEF b, h
<1>13. RowProven(d, h.proposed, h.verified)
  <2>1. h.proposed = b.proposed \cup {e.init} /\ h.verified = b.verified
    BY <1>1, <1>11, <1>12, ProposalFacts
  <2>2. QED BY <1>8, <1>10, <2>1 DEF RowProven, Confirmed
<1>14. HeardRight(u, Heard(e, seen, u))
  <2>1. /\ HasConn(Acquired(seen, e.aa, TRUE).conns, e.aa)
        /\ u.pending = Acquired(seen, e.aa, TRUE).pending
        /\ d.aa = e.aa
        /\ ToSet(u.conns) = {r \in ToSet(Acquired(seen, e.aa, TRUE).conns) : r.aa # e.aa} \cup {d}
    BY <1>5, <1>6, <1>8, <1>a
  <2>2. LET x == HeardOf(e, seen, u, e.aa) IN RowProven(d, x.proposed, x.verified)
    BY <1>13 DEF h
  <2>3. TRUE \in BOOLEAN /\ (TRUE <=> e.kind = "connect")
    OBVIOUS
  <2>4. QED BY <1>2, <1>4, <1>5, <2>1, <2>2, <2>3, RowStep
<1>15. QED BY <1>3, <1>4, <1>5, <1>14, StepDone

\* An advertisement, or a CONNECT_IND that may be damaged: only devices change.
LEMMA ObservedKeeps ==
  ASSUME BleInv, NEW e \in BleEvents, e.kind \in {"adv", "connect"},
         ~(e.kind = "connect" /\ e.crcOk),
         LET u == Observed(Tables, e.addr, e.rssi) IN
         SetTables(u) /\ heardBle' = Heard(e, Tables, u)
  PROVE  BleInv'
<1> DEFINE old == Tables  u == Observed(old, e.addr, e.rssi)  hs == Heard(e, old, u)
<1>1. e.addr \in Addrs /\ BleSound(old) /\ HeardRight(old, heardBle)
  BY EventTypes DEF BleInv
<1>2. SetTables(u) /\ heardBle' = hs
  OBVIOUS
<1> HIDE DEF old
<1>3. BleSound(u) /\ SameConns(old, u)
  BY <1>1, ObservedFacts
<1> HIDE DEF u
<1>4. HearingsOk(hs) /\ \A aa \in Aas : hs[aa] = HeardOf(e, old, u, aa)
  BY <1>1, HeardOk, HeardIs DEF HeardRight
<1>5. ASSUME NEW aa \in Aas PROVE HeardOf(e, old, u, aa) = heardBle[aa]
  <2>1. BaseOf(old, u, aa) = heardBle[aa]
    BY <1>3 DEF BaseOf, FreshRow, SameConns
  <2>2. QED BY <2>1 DEF HeardOf
<1> HIDE DEF hs
<1>6. HeardRight(u, hs)
  <2>1. \A aa \in Aas : hs[aa] = heardBle[aa]
    BY <1>4, <1>5
  <2>2. \A r \in ToSet(u.conns) : r.aa \in Aas
    <3>1. u \in BleTables
      BY <1>3 DEF BleSound
    <3>2. ToSet(u.conns) \subseteq ConnRow
      BY <3>1, RowTypes
    <3>3. QED BY <3>2, RowFields
  <2>3. HeardRight(u, heardBle)
    BY <1>1, <1>3, SameConnsKeep
  <2>4. QED BY <1>4, <2>1, <2>2, <2>3 DEF HeardRight
<1>7. QED BY <1>2, <1>3, <1>6, StepDone

LEMMA AddDeviceKeeps ==
  ASSUME BleInv, NEW addr \in Addrs, AddDevice(addr)
  PROVE  BleInv'
<1> DEFINE u == Observed(Tables, addr, FALSE)
<1>1. BleSound(u) /\ SameConns(Tables, u)
  BY ObservedFacts DEF BleInv
<1>2. SetTables(u) /\ heardBle' = heardBle
  BY DEF AddDevice
<1> HIDE DEF u
<1>3. HeardRight(u, heardBle')
  BY <1>1, <1>2, SameConnsKeep DEF BleInv
<1>4. QED BY <1>1, <1>2, <1>3, StepDone

LEMMA UnchangedKeeps ==
  ASSUME BleInv, UNCHANGED <<conns, devices, pending, nextId, heardBle>>
  PROVE  BleInv'
<1>1. Tables' = Tables /\ heardBle' = heardBle
  BY DEF Tables
<1>2. QED BY <1>1 DEF BleInv, HeardRight

LEMMA SubmitDataKeeps ==
  ASSUME BleInv, NEW e \in BleEvents, SubmitData(e)
  PROVE  BleInv'
<1> DEFINE t == Acquired(Tables, e.aa, FALSE)
<1>1. e.kind = "data"
  BY DEF SubmitData
<1>2. CASE ~HasConn(t.conns, e.aa)
  <2>1. SetTables(t) /\ heardBle' = Heard(e, Tables, t)
    BY <1>2 DEF SubmitData
  <2>2. QED BY <1>1, <1>2, <2>1, TalliedDataKeeps
<1>3. CASE HasConn(t.conns, e.aa)
  <2> DEFINE t2 == [t EXCEPT !.conns = Touched(@, GatedRow(ConnOf(t.conns, e.aa), e))]
  <2>1. SetTables(t2) /\ heardBle' = Heard(e, Tables, t2)
    BY <1>3 DEF SubmitData, GatedRow
  <2>2. QED BY <1>1, <1>3, <2>1, RowDataKeeps
<1>4. QED BY <1>2, <1>3

LEMMA SubmitAdvKeeps ==
  ASSUME BleInv, NEW e \in BleEvents, SubmitAdv(e)
  PROVE  BleInv'
<1>1. e.kind \in {"adv", "connect"}
  BY DEF SubmitAdv
<1>2. CASE enforce /\ ~e.crcOk
  BY <1>2, UnchangedKeeps DEF SubmitAdv
<1>3. CASE ~(enforce /\ ~e.crcOk)
  <2>1. /\ SetTables(Ingested(Tables, e))
        /\ heardBle' = Heard(e, Tables, Ingested(Tables, e))
    BY <1>3 DEF SubmitAdv
  <2>2. CASE e.kind = "connect" /\ e.crcOk
    <3>1. Ingested(Tables, e) = Linked(Observed(Tables, e.addr, e.rssi), e)
      BY <2>2 DEF Ingested
    <3>2. QED BY <2>1, <2>2, <3>1, LinkKeeps
  <2>3. CASE ~(e.kind = "connect" /\ e.crcOk)
    <3>1. Ingested(Tables, e) = Observed(Tables, e.addr, e.rssi)
      BY <2>3 DEF Ingested
    <3>2. QED BY <1>1, <2>1, <2>3, <3>1, ObservedKeeps
  <2>4. QED BY <2>2, <2>3
<1>4. QED BY <1>2, <1>3

LEMMA BleStep == BleInv /\ [BleNext]_bleVars => BleInv'
<1> SUFFICES ASSUME BleInv, [BleNext]_bleVars PROVE BleInv'
  OBVIOUS
<1>1. CASE SubmitJunk
  BY <1>1, UnchangedKeeps DEF SubmitJunk
<1>2. ASSUME NEW e \in BleEvents, SubmitAdv(e) PROVE BleInv'
  BY <1>2, SubmitAdvKeeps
<1>3. ASSUME NEW e \in BleEvents, SubmitData(e) PROVE BleInv'
  BY <1>3, SubmitDataKeeps
<1>4. ASSUME NEW addr \in Addrs, AddDevice(addr) PROVE BleInv'
  BY <1>4, AddDeviceKeeps
<1>5. CASE UNCHANGED bleVars
  BY <1>5, UnchangedKeeps DEF bleVars
<1>6. QED BY <1>1, <1>2, <1>3, <1>4, <1>5 DEF BleNext

LEMMA BleStart == BleInit => BleInv
<1> SUFFICES ASSUME BleInit PROVE BleInv
  OBVIOUS
<1>1. /\ conns = <<>> /\ devices = <<>> /\ pending = <<>> /\ nextId = 1
      /\ heardBle = [aa \in Aas |-> NothingHeard]
  BY DEF BleInit
<1>2. /\ Tables \in BleTables
      /\ DOMAIN Tables.conns = {} /\ DOMAIN Tables.devices = {}
      /\ DOMAIN Tables.pending = {} /\ ToSet(Tables.conns) = {}
  BY <1>1 DEF Tables, BleTables, Tally, ToSet
<1>3. IdsOnce(Tables) /\ Joined(Tables) /\ TalliedRight(Tables.pending, Tables.conns)
  BY <1>2 DEF IdsOnce, OncePerAa, Joined, TalliedRight, OncePerKey
<1>4. HeardRight(Tables, heardBle)
  <2>1. HearingsOk(heardBle) /\ \A aa \in Aas : heardBle[aa].frames = 0
    BY <1>1, NothingOk DEF HearingsOk
  <2>2. \A aa \in Aas : Remembers(Tables.pending, aa, heardBle[aa])
    BY <2>1 DEF Remembers
  <2>3. QED BY <1>2, <2>1, <2>2 DEF HeardRight
<1>5. QED BY <1>2, <1>3, <1>4 DEF BleInv, BleSound

LEMMA BleInvAlways == BleSpec => []BleInv
<1>1. QED BY BleStart, BleStep, PTL DEF BleSpec

-----------------------------------------------------------------------------
(* What the invariant shows *)

LEMMA BleIdsAreUnique ==
  ASSUME BleInv
  PROVE  IsInjective(Ids) /\ \A i \in DOMAIN Ids : Ids[i] \in 1 .. nextId - 1
<1>1. /\ conns \in Seq(ConnRow) /\ devices \in Seq(DeviceRow) /\ nextId \in Nat
      /\ IdsOnce(Tables)
  BY TablesFields, TableFields DEF BleInv, BleSound
<1> DEFINE a == [i \in DOMAIN conns |-> conns[i].id]
           b == [i \in DOMAIN devices |-> devices[i].id]
<1>2. a \in Seq(Nat)
  <2>1. /\ Len(conns) \in Nat /\ DOMAIN conns = 1 .. Len(conns)
        /\ \A i \in DOMAIN conns : conns[i] \in ConnRow
    BY <1>1, SeqDomain
  <2>2. QED BY <2>1, RowFields
<1>3. b \in Seq(Nat)
  <2>1. /\ Len(devices) \in Nat /\ DOMAIN devices = 1 .. Len(devices)
        /\ \A k \in DOMAIN devices : devices[k] \in DeviceRow
    BY <1>1, SeqDomain
  <2>2. \A d \in DeviceRow : d.id \in Nat
    BY DEF DeviceRow
  <2>3. QED BY <2>1, <2>2
<1>4. /\ \A i, j \in DOMAIN conns : conns[i].aa = conns[j].aa => i = j
      /\ \A i, j \in DOMAIN conns : conns[i].id = conns[j].id => conns[i] = conns[j]
      /\ \A k, m \in DOMAIN devices : devices[k].id = devices[m].id => k = m
      /\ \A i \in DOMAIN conns : conns[i].id \in 1 .. nextId - 1
      /\ \A i \in DOMAIN conns : \A k \in DOMAIN devices : conns[i].id # devices[k].id
      /\ \A k \in DOMAIN devices : devices[k].id \in 1 .. nextId - 1
  BY <1>1, TablesFields DEF IdsOnce, OncePerAa, KnownIds, ToSet
<1>5. /\ IsInjective(a) /\ IsInjective(b)
      /\ \A x \in DOMAIN a : \A y \in DOMAIN b : a[x] # b[y]
      /\ \A x \in DOMAIN a : a[x] \in 1 .. nextId - 1
      /\ \A y \in DOMAIN b : b[y] \in 1 .. nextId - 1
  BY <1>4 DEF IsInjective
<1>6. Ids = a \o b
  BY DEF Ids
<1> HIDE DEF a, b
<1>7. QED BY <1>2, <1>3, <1>5, <1>6, ConcatUnique

LEMMA BleInvAgrees == BleInv => TablesAgree
<1> SUFFICES ASSUME BleInv PROVE TablesAgree
  OBVIOUS
<1>1. /\ IdsOnce(Tables) /\ Joined(Tables) /\ TalliedRight(pending, conns)
  BY TablesFields DEF BleInv, BleSound
<1>2. \A i \in DOMAIN conns : conns[i] \in ToSet(conns)
  BY DEF ToSet
<1>3. /\ \A i, j \in DOMAIN conns : conns[i].aa = conns[j].aa => i = j
      /\ \A k, m \in DOMAIN devices : devices[k].addr = devices[m].addr => k = m
      /\ \A p, q \in DOMAIN pending : pending[p].key = pending[q].key => p = q
      /\ \A p \in DOMAIN pending : \A r \in ToSet(conns) : r.aa # pending[p].key
  BY <1>1, TablesFields DEF IdsOnce, OncePerAa, TalliedRight, OncePerKey
<1>4. IsInjective([i \in DOMAIN conns |-> conns[i].aa])
  BY <1>3 DEF IsInjective
<1>5. IsInjective([i \in DOMAIN devices |-> devices[i].addr])
  BY <1>3 DEF IsInjective
<1>6. IsInjective([i \in DOMAIN pending |-> pending[i].key])
  BY <1>3 DEF IsInjective
<1>7. \A p \in DOMAIN pending : ~HasConn(conns, pending[p].key)
  BY <1>3, RowIn
<1>8. KnownIds(Tables) = {devices[k].id : k \in DOMAIN devices}
  BY TablesFields DEF KnownIds
<1>9. ASSUME NEW i \in DOMAIN conns
      PROVE  /\ (conns[i].central = None) <=> (conns[i].peripheral = None)
             /\ {conns[i].central, conns[i].peripheral} \ {None}
                  \subseteq {devices[k].id : k \in DOMAIN devices}
  <2>1. JoinedRow(conns[i], KnownIds(Tables))
    BY <1>1, <1>2, <1>9, TablesFields DEF Joined
  <2>2. QED BY <1>8, <2>1 DEF JoinedRow
<1>10. ASSUME NEW k \in DOMAIN devices, NEW i \in DOMAIN conns,
              conns[i].id = devices[k].conn
       PROVE  conns[i].aa = devices[k].linked /\ conns[i].central # None
  BY <1>1, <1>2, <1>10, TablesFields DEF Joined
<1>11. QED BY <1>4, <1>5, <1>6, <1>7, <1>9, <1>10, BleIdsAreUnique DEF TablesAgree

LEMMA BleInvProven == BleInv => ShownAreProven
<1> SUFFICES ASSUME BleInv PROVE ShownAreProven
  OBVIOUS
<1>1. ASSUME NEW i \in DOMAIN conns
      PROVE  RowProven(conns[i], heardBle[conns[i].aa].proposed, heardBle[conns[i].aa].verified)
  <2>1. conns[i] \in ToSet(conns)
    BY DEF ToSet
  <2>2. QED BY <2>1, TablesFields DEF BleInv, HeardRight
<1>2. QED BY <1>1 DEF ShownAreProven, RowProven, ShownConns

LEMMA BleInvRemembers == BleInv => NothingForgotten
<1> SUFFICES ASSUME BleInv, NEW aa \in Aas, ~HasConn(conns, aa),
                    Cardinality(heardBle[aa].others) < PendingCap
             PROVE  CountOf(pending, aa) >= heardBle[aa].frames
  BY DEF NothingForgotten
<1>1. /\ pending \in Tally(Aas) /\ OncePerKey(pending)
      /\ heardBle[aa].frames \in Nat /\ Remembers(pending, aa, heardBle[aa])
  <2>1. pending \in Tally(Aas) /\ OncePerKey(pending)
    BY TablesFields, TableFields DEF BleInv, BleSound, TalliedRight
  <2>2. HearingOk(heardBle[aa]) /\ Remembers(pending, aa, heardBle[aa])
    BY TablesFields DEF BleInv, HeardRight, HearingsOk
  <2>3. QED BY <2>1, <2>2 DEF HearingOk, Hearing
<1>2. CASE heardBle[aa].frames = 0
  <2>1. CountOf(pending, aa) \in Nat
    BY <1>1, PlaceIs DEF CountOf
  <2>2. QED BY <1>2, <2>1
<1>3. CASE heardBle[aa].frames > 0
  <2>1. Kept(pending, aa, heardBle[aa].frames, heardBle[aa].others)
    BY <1>1, <1>3 DEF Remembers
  <2>2. QED BY <1>1, <2>1, KeptCount
<1>4. QED BY <1>1, <1>2, <1>3

\* Who has no row any more left as it should.
LeftRightly(cs, left) ==
  \A r \in ToSet(cs) : ~HasConn(left, r.aa) => LeavesRightly(r, cs)

LEMMA AcquiredLeft ==
  ASSUME NEW t, BleSound(t), NEW aa \in Aas, NEW force \in BOOLEAN
  PROVE  LeftRightly(t.conns, Acquired(t, aa, force).conns)
<1> DEFINE u == Acquired(t, aa, force)
<1>1. CASE HasConn(t.conns, aa) \/ ~HasConn(u.conns, aa)
  <2>1. u.conns = t.conns
    BY <1>1, AcquiredFacts
  <2>2. \A r \in ToSet(t.conns) : HasConn(u.conns, r.aa)
    BY <2>1, RowIn
  <2>3. QED BY <2>2 DEF LeftRightly
<1>2. CASE ~HasConn(t.conns, aa) /\ HasConn(u.conns, aa)
  <2>1. \A r \in ToSet(t.conns) \ ToSet(u.conns) : LeavesRightly(r, t.conns)
    BY <1>2, AcquiredFacts
  <2>2. \A r \in ToSet(u.conns) : HasConn(u.conns, r.aa)
    BY RowIn
  <2>3. QED BY <2>1, <2>2 DEF LeftRightly
<1>3. QED BY <1>1, <1>2

\* Replacing the row of an address takes no address its row.
LEMMA ReplacedLeft ==
  ASSUME NEW cs, NEW old, LeftRightly(cs, old), NEW d, NEW new,
         ToSet(new) = {r \in ToSet(old) : r.aa # d.aa} \cup {d}
  PROVE  LeftRightly(cs, new)
<1>1. \A aa : HasConn(old, aa) => HasConn(new, aa)
  BY RowIn
<1>2. QED BY <1>1 DEF LeftRightly

LEMMA SameLeft ==
  ASSUME NEW cs
  PROVE  LeftRightly(cs, cs)
BY RowIn DEF LeftRightly

LEMMA SubmitAdvLeaves ==
  ASSUME BleInv, NEW e \in BleEvents, SubmitAdv(e)
  PROVE  LeftRightly(conns, conns')
<1> DEFINE seen == Observed(Tables, e.addr, e.rssi)
<1>1. CASE enforce /\ ~e.crcOk
  <2>1. conns' = conns
    BY <1>1 DEF SubmitAdv
  <2>2. QED BY <2>1, SameLeft
<1>2. CASE ~(enforce /\ ~e.crcOk)
  <2>1. conns' = Ingested(Tables, e).conns
    BY <1>2 DEF SubmitAdv, SetTables
  <2>2. BleSound(seen) /\ seen.conns = conns
    <3>1. e.addr \in Addrs
      BY EventTypes DEF SubmitAdv
    <3>2. BleSound(seen) /\ SameConns(Tables, seen)
      BY <3>1, ObservedFacts DEF BleInv
    <3>3. QED BY <3>2, TablesFields DEF SameConns
  <2>3. Ingested(Tables, e) = IF e.kind = "connect" /\ e.crcOk THEN Linked(seen, e) ELSE seen
    BY DEF Ingested
  <2> HIDE DEF seen
  <2>4. CASE e.kind = "connect" /\ e.crcOk
    <3>1. e.aa \in Aas /\ e.init \in Inits /\ e.addr \in Addrs /\ e.initiator \in Addrs
      BY <2>4, EventTypes
    <3>2. LeftRightly(conns, Acquired(seen, e.aa, TRUE).conns)
      BY <2>2, <3>1, AcquiredLeft
    <3>3. HasLinkedRow(Linked(seen, e), Acquired(seen, e.aa, TRUE), e)
      BY <2>2, <3>1, LinkedFacts
    <3>4. PICK d \in ConnRow :
            /\ d.aa = e.aa
            /\ ToSet(Linked(seen, e).conns) =
                 {r \in ToSet(Acquired(seen, e.aa, TRUE).conns) : r.aa # e.aa} \cup {d}
      BY <3>3 DEF HasLinkedRow
    <3>5. LeftRightly(conns, Linked(seen, e).conns)
      <4>1. ToSet(Linked(seen, e).conns) =
              {r \in ToSet(Acquired(seen, e.aa, TRUE).conns) : r.aa # d.aa} \cup {d}
        BY <3>4
      <4>2. QED BY <3>2, <4>1, ReplacedLeft
    <3>6. QED BY <2>1, <2>3, <2>4, <3>5
  <2>5. CASE ~(e.kind = "connect" /\ e.crcOk)
    BY <2>1, <2>2, <2>3, <2>5, SameLeft
  <2>6. QED BY <2>4, <2>5
<1>3. QED BY <1>1, <1>2

LEMMA SubmitDataLeaves ==
  ASSUME BleInv, NEW e \in BleEvents, SubmitData(e)
  PROVE  LeftRightly(conns, conns')
<1> DEFINE t == Acquired(Tables, e.aa, FALSE)
           c == ConnOf(t.conns, e.aa)
           g == GatedRow(c, e)
<1>1. e.aa \in Aas /\ e.init \in Inits /\ BleSound(Tables)
  BY EventTypes DEF SubmitData, BleInv
<1>2. BleSound(t) /\ LeftRightly(conns, t.conns)
  BY <1>1, AcquiredFacts, AcquiredLeft, TablesFields
<1>3. t \in BleTables /\ t.conns \in Seq(ConnRow) /\ OncePerAa(t.conns)
  BY <1>2, TableFields DEF BleSound, IdsOnce
<1>4. CASE ~HasConn(t.conns, e.aa)
  <2>1. conns' = t.conns
    BY <1>4 DEF SubmitData, SetTables
  <2>2. QED BY <1>2, <2>1
<1>5. CASE HasConn(t.conns, e.aa)
  <2>1. conns' = [t EXCEPT !.conns = Touched(@, g)].conns
    BY <1>5 DEF SubmitData, SetTables, GatedRow
  <2>2. c \in ConnRow /\ c.aa = e.aa
    BY <1>3, <1>5, RowIn, RowTypes
  <2> HIDE DEF t
  <2>3. conns' = Touched(t.conns, g)
    BY <1>3, <2>1 DEF BleTables
  <2> HIDE DEF c
  <2>4. g \in ConnRow /\ g.aa = e.aa
    <3>1. RowProven(c, ToSet(c.candidates), {c.init})
      BY DEF RowProven
    <3>2. QED BY <1>1, <2>2, <3>1, GatedFacts
  <2> HIDE DEF g
  <2>5. ToSet(conns') = {r \in ToSet(t.conns) : r.aa # g.aa} \cup {g}
    BY <1>3, <1>5, <2>3, <2>4, TouchedSet
  <2>6. QED BY <1>2, <2>5, ReplacedLeft
<1>6. QED BY <1>4, <1>5

LEMMA StepLeaves == BleInv /\ [BleNext]_bleVars => LeftRightly(conns, conns')
<1> SUFFICES ASSUME BleInv, [BleNext]_bleVars PROVE LeftRightly(conns, conns')
  OBVIOUS
<1>1. CASE SubmitJunk \/ UNCHANGED bleVars
  <2>1. conns' = conns
    BY <1>1 DEF SubmitJunk, bleVars
  <2>2. QED BY <2>1, SameLeft
<1>2. ASSUME NEW e \in BleEvents, SubmitAdv(e) PROVE LeftRightly(conns, conns')
  BY <1>2, SubmitAdvLeaves
<1>3. ASSUME NEW e \in BleEvents, SubmitData(e) PROVE LeftRightly(conns, conns')
  BY <1>3, SubmitDataLeaves
<1>4. ASSUME NEW addr \in Addrs, AddDevice(addr) PROVE LeftRightly(conns, conns')
  <2>1. SameConns(Tables, Observed(Tables, addr, FALSE))
    BY ObservedFacts DEF BleInv
  <2>2. conns' = conns
    BY <1>4, <2>1, TablesFields DEF AddDevice, SetTables, SameConns
  <2>3. QED BY <2>2, SameLeft
<1>5. QED BY <1>1, <1>2, <1>3, <1>4 DEF BleNext

\* What ProvenStay says of a step.
ConfirmedStays ==
  \A i \in DOMAIN conns :
    Confirmed(conns[i]) /\ ~HasConn(conns', conns[i].aa) =>
      i = 1 /\ \A j \in DOMAIN conns : Confirmed(conns[j])

LEMMA StepStays == BleInv /\ [BleNext]_bleVars => ConfirmedStays
<1> SUFFICES ASSUME BleInv, [BleNext]_bleVars,
                    NEW i \in DOMAIN conns, Confirmed(conns[i]),
                    ~HasConn(conns', conns[i].aa)
             PROVE  i = 1 /\ \A j \in DOMAIN conns : Confirmed(conns[j])
  BY DEF ConfirmedStays
<1>1. conns[i] = conns[1] /\ \A s \in ToSet(conns) : Confirmed(s)
  <2>1. LeftRightly(conns, conns') /\ conns[i] \in ToSet(conns)
    BY StepLeaves DEF ToSet
  <2>2. QED BY <2>1 DEF LeftRightly, LeavesRightly
<1>2. i = 1
  <2>1. conns \in Seq(ConnRow) /\ OncePerAa(conns)
    BY TablesFields, TableFields DEF BleInv, BleSound, IdsOnce
  <2>2. i \in 1 .. Len(conns) /\ Len(conns) \in Nat /\ DOMAIN conns = 1 .. Len(conns)
    BY <2>1, SeqDomain
  <2>3. 1 \in DOMAIN conns
    BY <2>2
  <2>4. QED BY <1>1, <2>1, <2>3 DEF OncePerAa
<1>3. QED BY <1>1, <1>2 DEF ToSet

\* An access address has one row or is tallied, ids are given once over both
\* tables, a CONNECT_IND's two devices are known, and a device is linked to the
\* connection that names it, whatever is created, found and evicted
\* (conn_create, device_find_or_create, ble_registry_submit).
THEOREM BleTablesAgree == BleSpec => []TablesAgree
<1>1. QED BY BleInvAlways, BleInvAgrees, PTL

\* A CRCInit is confirmed only by two frames, one proposing it and another
\* verifying under it, both heard since the connection has its row, evictions
\* included (gate_data_pdu, seed_candidate_locked); with enforcement on only such
\* connections are shown.
THEOREM ShownIsProven == BleSpec => []ShownAreProven
<1>1. QED BY BleInvAlways, BleInvProven, PTL

\* The tally of first sights forgets no frame of an address as long as fewer
\* others than it has room for are tallied in between (pending_bump).
THEOREM FirstSightsKept == BleSpec => []NothingForgotten
<1>1. QED BY BleInvAlways, BleInvRemembers, PTL

\* A confirmed connection is evicted only from a table of confirmed ones, and
\* then it is the one not used longest (conn_victim_index).
THEOREM ConfirmedStay == BleSpec => ProvenStay
<1>1. BleInv /\ [BleNext]_bleVars => [ConfirmedStays]_bleVars
  BY StepStays
<1>2. ProvenStay <=> [][ConfirmedStays]_bleVars
  BY PTL DEF ProvenStay, ConfirmedStays
<1>3. QED BY BleInvAlways, <1>1, <1>2, PTL DEF BleSpec
==============================================================================
