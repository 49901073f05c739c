--------------------------- MODULE FrontEnd_proofs ---------------------------
(***************************************************************************)
(* Proofs about the receive path in front of the registries: the stamps of *)
(* BR/EDR packets (BredrFraming), for every width of the fields, length of *)
(* a block and pattern of holes; what a tuned window is served with        *)
(* (Tuning), for every set of devices and window asked for; and the sample *)
(* indices of the lanes of the wide bank (LaneStamps), for every number of *)
(* lanes, channels, factor of decimation and length of a block.            *)
(***************************************************************************)
EXTENDS BredrFraming, Tuning, LaneStamps, SequenceTheorems, FiniteSetTheorems,
        WellFoundedInduction, TLAPS

-----------------------------------------------------------------------------
(* The decoder of BR/EDR frames *)

Laps == {"none"} \cup {LapOf[w] : w \in DOMAIN LapOf}

AirType ==
  [state : {"searching", "trailer", "collecting"}, window : Seq({0, 1}), n : Nat,
   lap : Laps, startBit : Int, trailer : BOOLEAN, total : Nat, run : Nat]

LEMMA AirBounds ==
  /\ SyncBits \in Nat \ {0} /\ TrailerBits \in Nat \ {0} /\ HeaderBits \in Nat \ {0}
  /\ BodyBits \in Nat \ {0} /\ BlockBits \in Nat \ {0} /\ HoleSamples \in Nat \ {0}
BY BredrFramingAssumption

\* What an outcome of push_bit says of the decoder, from a state of its.
Outcome(r, from) ==
  /\ r.dec \in AirType
  /\ \/ r.status = "searching" /\ from = "searching" /\ r.dec.state = "searching"
     \/ r.status = "collecting" /\ r.dec.state # "searching"
     \/ r.status = "valid" /\ r.dec.state = "searching"

LEMMA ResetIs ==
  ASSUME NEW d \in AirType
  PROVE  Reset(d) \in AirType /\ Reset(d).state = "searching"
BY DEF Reset, AirType

LEMMA ShiftedType ==
  ASSUME NEW w \in Seq({0, 1}), NEW b \in {0, 1}
  PROVE  Shifted(w, b) \in Seq({0, 1})
<1> DEFINE s == Append(w, b)
<1>1. s \in Seq({0, 1}) /\ Len(s) = Len(w) + 1 /\ Len(w) \in Nat
  BY AppendProperties, LenProperties
<1>2. s # <<>>
  BY <1>1, EmptySeq
<1> HIDE DEF s
<1>3. Tail(s) \in Seq({0, 1})
  BY <1>1, <1>2, HeadTailProperties
<1>4. QED BY <1>1, <1>3 DEF Shifted, s

LEMMA SearchIs ==
  ASSUME NEW d0 \in AirType, d0.state = "searching", NEW b \in {0, 1}
  PROVE  Outcome(Search(d0, b), "searching")
<1> DEFINE w == Shifted(d0.window, b)
           d == [d0 EXCEPT !.window = w, !.run = d0.run + 1]
           found == [d EXCEPT !.lap = LapOf[d.window],
                              !.startBit = d.total - (SyncBits + TrailerBits)]
           starts == [found EXCEPT !.state = "trailer", !.n = 0, !.trailer = TRUE]
<1>1. d \in AirType /\ d.state = "searching"
  <2>1. w \in Seq({0, 1}) /\ d0.run + 1 \in Nat
    BY ShiftedType DEF AirType
  <2> HIDE DEF w
  <2>2. QED BY <2>1 DEF AirType
<1>2. Search(d0, b) = IF d.window \notin DOMAIN LapOf THEN Result(d, "searching", "none")
                      ELSE IF found.lap \in InquiryLaps THEN Result(found, "valid", "id")
                      ELSE Result(starts, "collecting", "none")
  BY DEF Search, AirType
<1> HIDE DEF d
<1>3. d.window \in DOMAIN LapOf =>
        /\ found \in AirType /\ found.state = "searching"
  <2> DEFINE lap == LapOf[d.window]  at == d.total - (SyncBits + TrailerBits)
  <2>1. d.window \in DOMAIN LapOf => lap \in Laps
    BY DEF Laps
  <2>2. at \in Int
    BY <1>1, AirBounds DEF AirType
  <2> HIDE DEF lap, at
  <2>3. lap \in Laps => /\ [d EXCEPT !.lap = lap, !.startBit = at] \in AirType
                        /\ [d EXCEPT !.lap = lap, !.startBit = at].state = "searching"
    BY <1>1, <2>2 DEF AirType
  <2>4. QED BY <2>1, <2>3 DEF lap, at
<1> HIDE DEF found
<1>4. found \in AirType => starts \in AirType /\ starts.state = "trailer"
  BY DEF AirType
<1> HIDE DEF starts
<1>5. QED BY <1>1, <1>2, <1>3, <1>4 DEF Outcome, Result

LEMMA TrailerIs ==
  ASSUME NEW d0 \in AirType, d0.state = "trailer", NEW b \in {0, 1}
  PROVE  Outcome(DrainTrailer(d0, b), "trailer")
<1> DEFINE ok == d0.trailer /\ b = (d0.window[SyncBits] + d0.n + 1) % 2
           d == [d0 EXCEPT !.n = d0.n + 1, !.trailer = ok]
           body == [d EXCEPT !.state = "collecting", !.n = 0]
<1>1. d \in AirType /\ d.state = "trailer"
  <2>1. ok \in BOOLEAN /\ d0.n + 1 \in Nat
    BY DEF AirType
  <2> HIDE DEF ok
  <2>2. QED BY <2>1 DEF AirType
<1>2. DrainTrailer(d0, b) = IF d.n < TrailerBits THEN Result(d, "collecting", "none")
                            ELSE IF ~d.trailer THEN Result(Reset(d), "valid", "id")
                            ELSE Result(body, "collecting", "none")
  BY DEF DrainTrailer, AirType
<1> HIDE DEF d
<1>3. body \in AirType /\ body.state = "collecting"
  BY <1>1 DEF AirType
<1> HIDE DEF body
<1>4. QED BY <1>1, <1>2, <1>3, ResetIs DEF Outcome, Result

LEMMA CollectIs ==
  ASSUME NEW d0 \in AirType, d0.state = "collecting"
  PROVE  Outcome(Collect(d0), "collecting")
<1> DEFINE d == [d0 EXCEPT !.n = d0.n + 1]
<1>1. d \in AirType /\ d.state = "collecting"
  BY DEF AirType
<1>2. Collect(d0) = IF d.n < HeaderBits + BodyBits THEN Result(d, "collecting", "none")
                    ELSE Result(Reset(d), "valid", "packet")
  BY DEF Collect, AirType
<1> HIDE DEF d
<1>3. QED BY <1>1, <1>2, ResetIs DEF Outcome, Result

LEMMA PushIs ==
  ASSUME NEW d0 \in AirType, NEW b \in {0, 1}
  PROVE  Outcome(PushAirBit(d0, b), d0.state)
<1> DEFINE d == [d0 EXCEPT !.total = d0.total + 1]
<1>1. d \in AirType /\ d.state = d0.state
  BY DEF AirType
<1>2. d.state \in {"searching", "trailer", "collecting"}
  BY <1>1 DEF AirType
<1>3. PushAirBit(d0, b) = CASE d.state = "searching"  -> Search(d, b)
                            [] d.state = "trailer"    -> DrainTrailer(d, b)
                            [] d.state = "collecting" -> Collect(d)
  BY DEF PushAirBit, AirType
<1> HIDE DEF d
<1>4. CASE d.state = "searching"
  <2>1. PushAirBit(d0, b) = Search(d, b)
    BY <1>3, <1>4
  <2>2. QED BY <1>1, <1>4, <2>1, SearchIs
<1>5. CASE d.state = "trailer"
  <2>1. PushAirBit(d0, b) = DrainTrailer(d, b)
    BY <1>3, <1>5
  <2>2. QED BY <1>1, <1>5, <2>1, TrailerIs
<1>6. CASE d.state = "collecting"
  <2>1. PushAirBit(d0, b) = Collect(d)
    BY <1>3, <1>6
  <2>2. QED BY <1>1, <1>6, <2>1, CollectIs
<1>7. QED BY <1>2, <1>4, <1>5, <1>6

-----------------------------------------------------------------------------
(* What the channel processor has latched while a packet is collected *)

ProcType ==
  [prev : {"searching", "collecting", "valid"}, stamp : Int,
   rssi : {<<>>} \cup [1 .. 2 -> Int], filter : LapFilters]
TrackType == [end : Nat, fresh : BOOLEAN, searched : BOOLEAN, joined : BOOLEAN]
BlockType == [base : Nat, done : Nat, prevEnd : Int]

\* The stamp and the window of the access code a packet was found by.
OwnStamp(t) == IF t.searched /\ t.joined THEN t.end + TrailerBits ELSE NoStamp
OwnRssi(rssi, t) == IF t.searched THEN rssi[2] = t.end ELSE rssi = <<>>

LatchInv ==
  IF air.state = "searching"
  THEN proc.prev # "collecting" /\ proc.stamp = NoStamp /\ proc.rssi = <<>>
  ELSE proc.prev = "collecting" /\ proc.stamp = OwnStamp(track) /\ OwnRssi(proc.rssi, track)

AirTypeOK ==
  air \in AirType /\ proc \in ProcType /\ track \in TrackType /\ block \in BlockType

StampInv == AirTypeOK /\ LatchInv /\ StampIsItsOwn

\* What is latched when a bit ends at acEnd, before the packet is handed on.
LEMMA LatchedIs ==
  ASSUME AirTypeOK, NEW st \in {"searching", "collecting", "valid"}, NEW acEnd \in Nat
  PROVE  LET p == Latched(proc, st, acEnd) IN
         /\ p \in ProcType /\ p.filter = proc.filter
         /\ IF proc.prev = "searching" /\ st # "searching"
            THEN p.stamp = LatchedStamp(acEnd) /\ p.rssi[2] = block.base + acEnd
            ELSE p = proc
<1> DEFINE at == LatchedStamp(acEnd)
           window == [j \in 1 .. 2 |-> block.base + AcWindow(acEnd)[j]]
           p == Latched(proc, st, acEnd)
<1>1. block.base \in Nat /\ block.prevEnd \in Int
  BY DEF AirTypeOK, BlockType
<1>2. at \in Int
  BY <1>1, AirBounds DEF LatchedStamp, NoStamp
<1>3. window \in [1 .. 2 -> Int] /\ window[2] = block.base + acEnd
  <2>1. AcWindow(acEnd)[1] \in Int /\ AcWindow(acEnd)[2] = acEnd
    BY AirBounds DEF AcWindow, AcSpan
  <2>2. \A j \in 1 .. 2 : j = 1 \/ j = 2
    OBVIOUS
  <2>3. \A j \in 1 .. 2 : window[j] \in Int
    BY <1>1, <2>1, <2>2
  <2>4. QED BY <2>1, <2>3
<1>4. p = IF proc.prev = "searching" /\ st # "searching"
          THEN [proc EXCEPT !.stamp = at, !.rssi = window] ELSE proc
  BY DEF Latched
<1> HIDE DEF at, window
<1>5. /\ [proc EXCEPT !.stamp = at, !.rssi = window] \in ProcType
      /\ [proc EXCEPT !.stamp = at, !.rssi = window].stamp = at
      /\ [proc EXCEPT !.stamp = at, !.rssi = window].rssi = window
      /\ [proc EXCEPT !.stamp = at, !.rssi = window].filter = proc.filter
  BY <1>2, <1>3 DEF AirTypeOK, ProcType
<1>6. QED BY <1>3, <1>4, <1>5 DEF at, AirTypeOK

\* The same with the st the processor remembers.
LEMMA NotedIs ==
  ASSUME NEW p \in ProcType, NEW st \in {"searching", "collecting", "valid"}
  PROVE  LET q == [p EXCEPT !.prev = st] IN
         /\ q \in ProcType /\ q.prev = st
         /\ q.stamp = p.stamp /\ q.rssi = p.rssi /\ q.filter = p.filter
BY DEF ProcType

LEMMA ConsumedIs ==
  ASSUME NEW p \in ProcType
  PROVE  /\ Consumed(p) \in ProcType /\ Consumed(p).prev = p.prev
         /\ Consumed(p).stamp = NoStamp /\ Consumed(p).rssi = <<>>
<1> DEFINE none == <<>>
<1>1. NoStamp \in Int /\ none \in {<<>>} \cup [1 .. 2 -> Int]
  BY DEF NoStamp
<1>2. Consumed(p) = [p EXCEPT !.stamp = NoStamp, !.rssi = none]
  BY DEF Consumed
<1> HIDE DEF none
<1>3. /\ Consumed(p) \in ProcType /\ Consumed(p).prev = p.prev
      /\ Consumed(p).stamp = NoStamp /\ Consumed(p).rssi = none
  BY <1>1, <1>2 DEF ProcType
<1>4. QED BY <1>3 DEF none

LEMMA TrackedIs ==
  ASSUME AirTypeOK, NEW r, Outcome(r, air.state), NEW acEnd \in Nat
  PROVE  LET t == Tracked(r, acEnd) IN
         /\ t \in TrackType
         /\ IF air.state = "searching" /\ r.status # "searching"
            THEN /\ t.end = block.base + acEnd /\ t.searched = (proc.prev = "searching")
                 /\ t.joined = (acEnd >= SyncBits \/ block.prevEnd = block.base)
            ELSE t = track
<1>1. block.base + acEnd \in Nat
  BY DEF AirTypeOK, BlockType
<1>2. QED BY <1>1 DEF Tracked, AirTypeOK, TrackType

\* Once a bit has been looked at, what is latched is the packet's own.
LEMMA BitLatches ==
  ASSUME StampInv, NEW r, Outcome(r, air.state), NEW acEnd \in Nat, acEnd > 0
  PROVE  LET p == Latched(proc, r.status, acEnd)  t == Tracked(r, acEnd) IN
         r.status # "searching" => p.stamp = OwnStamp(t) /\ OwnRssi(p.rssi, t)
<1> DEFINE p == Latched(proc, r.status, acEnd)  t == Tracked(r, acEnd)
<1> SUFFICES ASSUME r.status # "searching" PROVE p.stamp = OwnStamp(t) /\ OwnRssi(p.rssi, t)
  OBVIOUS
<1>1. /\ AirTypeOK /\ LatchInv /\ r.status \in {"searching", "collecting", "valid"}
      /\ block.base \in Nat
  BY DEF StampInv, Outcome, AirTypeOK, BlockType
<1>2. CASE air.state = "searching" /\ proc.prev = "searching"
  <2>1. /\ t.end = block.base + acEnd /\ t.searched
        /\ t.joined = (acEnd >= SyncBits \/ block.prevEnd = block.base)
    BY <1>1, <1>2, TrackedIs
  <2>2. p.stamp = LatchedStamp(acEnd) /\ p.rssi[2] = block.base + acEnd
    BY <1>1, <1>2, LatchedIs
  <2> HIDE DEF p, t
  <2>3. LatchedStamp(acEnd) = IF t.joined THEN block.base + acEnd + TrailerBits ELSE NoStamp
    <3>1. acEnd - SyncBits >= 0 <=> acEnd >= SyncBits
      BY AirBounds
    <3>2. t.joined <=> acEnd - SyncBits >= 0 \/ block.prevEnd = block.base
      BY <2>1, <3>1
    <3>3. block.base + (acEnd - SyncBits) + (SyncBits + TrailerBits)
            = block.base + acEnd + TrailerBits
      BY <1>1, AirBounds
    <3>4. QED BY <3>2, <3>3 DEF LatchedStamp
  <2>4. QED BY <2>1, <2>2, <2>3 DEF OwnStamp, OwnRssi
<1>3. CASE air.state = "searching" /\ proc.prev # "searching"
  <2>1. ~t.searched
    BY <1>1, <1>3, TrackedIs
  <2>2. p = proc
    BY <1>1, <1>3, LatchedIs
  <2> HIDE DEF p, t
  <2>3. QED BY <1>1, <1>3, <2>1, <2>2 DEF LatchInv, OwnStamp, OwnRssi
<1>4. CASE air.state # "searching"
  <2>1. t = track
    BY <1>1, <1>4, TrackedIs
  <2>2. p = proc
    BY <1>1, <1>4, LatchedIs DEF LatchInv
  <2>3. QED BY <1>1, <1>4, <2>1, <2>2 DEF LatchInv
<1>5. QED BY <1>2, <1>3, <1>4

\* An event carries what was latched, or where its collection ended.
LEMMA EventIsOwn ==
  ASSUME NEW d, NEW frame, NEW p, NEW t \in TrackType, NEW acEnd \in Nat,
         p.stamp = OwnStamp(t), OwnRssi(p.rssi, t)
  PROVE  LET e == EventOf(d, frame, p, acEnd, t) IN
         /\ e.stamp = IF e.track.searched /\ e.track.joined THEN e.track.end + TrailerBits
                      ELSE e.at
         /\ IF e.track.searched THEN e.rssi[2] = e.track.end ELSE e.rssi = <<>>
<1> DEFINE e == EventOf(d, frame, p, acEnd, t)
<1>1. /\ e.track = t /\ e.rssi = p.rssi /\ e.at = block.base + acEnd
      /\ e.stamp = IF p.stamp # NoStamp THEN p.stamp ELSE block.base + acEnd
  BY DEF EventOf
<1>2. t.searched /\ t.joined => t.end + TrailerBits # NoStamp
  BY AirBounds DEF TrackType, NoStamp
<1> HIDE DEF e
<1>3. e.stamp = IF t.searched /\ t.joined THEN t.end + TrailerBits ELSE e.at
  BY <1>1, <1>2 DEF OwnStamp
<1>4. IF t.searched THEN e.rssi[2] = t.end ELSE e.rssi = <<>>
  BY <1>1 DEF OwnRssi
<1>5. QED BY <1>1, <1>3, <1>4 DEF e

LEMMA AirBitKeeps ==
  ASSUME StampInv, NEW b \in {0, 1}, AirBit(b)
  PROVE  StampInv'
<1> DEFINE acEnd == 2 * (block.done + 1)
           r == PushAirBit(air, b)
           l == Latched(proc, r.status, acEnd)
           p == [l EXCEPT !.prev = r.status]
           t == Tracked(r, acEnd)
<1>1. AirTypeOK /\ LatchInv /\ block \in BlockType /\ air \in AirType
  BY DEF StampInv, AirTypeOK
<1>2. acEnd \in Nat /\ acEnd > 0
  BY <1>1 DEF BlockType
<1>3. Outcome(r, air.state) /\ r.status \in {"searching", "collecting", "valid"}
  BY <1>1, PushIs DEF Outcome
<1>4. /\ air' = r.dec /\ block' = [block EXCEPT !.done = @ + 1] /\ track' = t
      /\ IF r.status = "valid"
         THEN /\ proc' = Consumed(p)
              /\ event' = IF proc.filter # {} /\ r.dec.lap \notin proc.filter
                          THEN event ELSE EventOf(r.dec, r.frame, p, acEnd, t)
         ELSE proc' = p /\ UNCHANGED event
  BY DEF AirBit
<1> HIDE DEF acEnd, r
<1>5. /\ l \in ProcType
      /\ ~(proc.prev = "searching" /\ r.status # "searching") => l = proc
  BY <1>1, <1>2, <1>3, LatchedIs
<1>6. r.status # "searching" => l.stamp = OwnStamp(t) /\ OwnRssi(l.rssi, t)
  BY <1>2, <1>3, BitLatches
<1>7. t \in TrackType
  BY <1>1, <1>2, <1>3, TrackedIs
<1> HIDE DEF l, t
<1>8. p \in ProcType /\ p.prev = r.status /\ p.stamp = l.stamp /\ p.rssi = l.rssi
  BY <1>3, <1>5, NotedIs
<1> HIDE DEF p
<1>9. /\ Consumed(p) \in ProcType /\ Consumed(p).prev = p.prev
      /\ Consumed(p).stamp = NoStamp /\ Consumed(p).rssi = <<>>
  BY <1>8, ConsumedIs
<1>10. AirTypeOK'
  <2>1. block' \in BlockType
    BY <1>1, <1>4 DEF BlockType
  <2>2. proc' \in ProcType
    BY <1>4, <1>8, <1>9
  <2>3. air' \in AirType /\ track' \in TrackType
    BY <1>3, <1>4, <1>7 DEF Outcome
  <2>4. QED BY <2>1, <2>2, <2>3 DEF AirTypeOK
<1>11. LatchInv'
  <2>1. CASE r.status = "searching"
    <3>1. /\ air'.state = "searching" /\ air.state = "searching"
          /\ proc'.prev = "searching" /\ proc'.stamp = proc.stamp /\ proc'.rssi = proc.rssi
      BY <1>3, <1>4, <1>5, <1>8, <2>1 DEF Outcome
    <3>2. QED BY <1>1, <3>1 DEF LatchInv
  <2>2. CASE r.status = "collecting"
    <3>1. /\ air'.state # "searching" /\ proc'.prev = "collecting"
          /\ proc'.stamp = OwnStamp(track') /\ OwnRssi(proc'.rssi, track')
      BY <1>3, <1>4, <1>6, <1>8, <2>2 DEF Outcome
    <3>2. QED BY <3>1 DEF LatchInv, OwnStamp, OwnRssi
  <2>3. CASE r.status = "valid"
    <3>1. /\ air'.state = "searching" /\ proc'.prev = "valid"
          /\ proc'.stamp = NoStamp /\ proc'.rssi = <<>>
      BY <1>3, <1>4, <1>8, <1>9, <2>3 DEF Outcome
    <3>2. QED BY <3>1 DEF LatchInv
  <2>4. QED BY <1>3, <2>1, <2>2, <2>3
<1>12. StampIsItsOwn'
  <2>1. CASE event' = event
    BY <2>1 DEF StampInv, StampIsItsOwn
  <2>2. CASE event' # event
    <3>1. r.status = "valid" /\ event' = EventOf(r.dec, r.frame, p, acEnd, t)
      BY <1>4, <2>2
    <3>2. p.stamp = OwnStamp(t) /\ OwnRssi(p.rssi, t)
      BY <1>6, <1>8, <3>1
    <3>3. /\ event'.stamp = IF event'.track.searched /\ event'.track.joined
                            THEN event'.track.end + TrailerBits ELSE event'.at
          /\ IF event'.track.searched THEN event'.rssi[2] = event'.track.end
             ELSE event'.rssi = <<>>
      BY <1>2, <1>7, <3>1, <3>2, EventIsOwn
    <3>4. QED BY <3>3 DEF StampIsItsOwn
  <2>3. QED BY <2>1, <2>2
<1>13. QED BY <1>10, <1>11, <1>12 DEF StampInv

LEMMA StampStarts == AirInit => StampInv
<1> SUFFICES ASSUME AirInit PROVE StampInv
  OBVIOUS
<1>1. air \in AirType /\ air.state = "searching"
  BY DEF AirInit, AirType, Laps
<1>2. track \in TrackType /\ block \in BlockType
  BY DEF AirInit, TrackType, BlockType, NoStamp
<1>3. /\ proc \in ProcType /\ proc.prev = "searching" /\ proc.stamp = NoStamp
      /\ proc.rssi = <<>>
  BY DEF AirInit, ProcType, NoStamp
<1>4. event = NoEvent
  BY DEF AirInit
<1>5. QED BY <1>1, <1>2, <1>3, <1>4 DEF StampInv, AirTypeOK, LatchInv, StampIsItsOwn

LEMMA StampStep == StampInv /\ [AirNext]_airVars => StampInv'
<1> SUFFICES ASSUME StampInv, [AirNext]_airVars PROVE StampInv'
  OBVIOUS
<1>1. ASSUME NEW b \in {0, 1}, AirBit(b) PROVE StampInv'
  BY <1>1, AirBitKeeps
<1>2. ASSUME NEW h \in {0, 1}, NextBlock(h) PROVE StampInv'
  <2> DEFINE end == block.base + 2 * block.done
  <2>1. /\ block' = [base |-> end + h * HoleSamples, done |-> 0, prevEnd |-> end]
        /\ UNCHANGED <<air, proc, track, event>>
    BY <1>2 DEF NextBlock
  <2>2. end \in Nat /\ end + h * HoleSamples \in Nat
    <3>1. h * HoleSamples \in Nat
      BY AirBounds
    <3>2. QED BY <3>1 DEF StampInv, AirTypeOK, BlockType
  <2> HIDE DEF end
  <2>3. block' \in BlockType
    BY <2>1, <2>2 DEF BlockType
  <2>4. QED BY <2>1, <2>3 DEF StampInv, AirTypeOK, LatchInv, StampIsItsOwn, OwnStamp, OwnRssi
<1>3. CASE UNCHANGED airVars
  BY <1>3 DEF airVars, StampInv, AirTypeOK, LatchInv, StampIsItsOwn, OwnStamp, OwnRssi
<1>4. QED BY <1>1, <1>2, <1>3 DEF AirNext

\* A BR/EDR packet is stamped with the place of its own access code, however
\* many blocks and holes its collection spans, or with the place where the
\* collection ended (bredr_channel_processor_process_stream, emit_frame).
THEOREM StampsAreOwn == AirSpec => []StampIsItsOwn
<1>1. StampInv => StampIsItsOwn
  BY DEF StampInv
<1>2. QED BY <1>1, StampStarts, StampStep, PTL DEF AirSpec

-----------------------------------------------------------------------------
(* Arithmetic of the plan *)

LEMMA DivMod ==
  ASSUME NEW n \in Nat \ {0}, NEW x \in Int
  PROVE  /\ x % n \in 0 .. n - 1 /\ x \div n \in Int
         /\ x = (x \div n) * n + (x % n)
<1>1. x % n \in 0 .. n - 1
  BY Z3
<1>2. x \div n \in Int
  BY Z3
<1>3. x = (x \div n) * n + (x % n)
  BY Z3
<1>4. QED BY <1>1, <1>2, <1>3

\* A rate the planner accepts is a whole number of lanes, each of an even number
\* of bins of the grid.
LEMMA PlanIs ==
  ASSUME NEW r \in 1 .. 80, NEW g \in {1, 2}, Planned(r, g)
  PROVE  /\ LanesFor(r) \in 1 .. 4
         /\ \E h \in 1 .. 10 : /\ BinsFor(r, g) = 2 * h
                               /\ r \div LanesFor(r) = 2 * g * h
                               /\ r = LanesFor(r) * (2 * g * h)
<1> DEFINE l == LanesFor(r)  s == r \div l  b == BinsFor(r, g)
<1>1. l \in 1 .. 4 /\ r <= 20 * l
  BY DEF LanesFor, LaneRate
<1>2. /\ r % l = 0 /\ s % g = 0 /\ b >= 2 /\ b % 2 = 0 /\ b = s \div g
  BY DEF Planned, BinsFor
<1> HIDE DEF l, b
<1>3. s \in Nat /\ r = l * s /\ s <= 20
  <2>1. l = 1 \/ l = 2 \/ l = 3 \/ l = 4
    BY <1>1
  <2>2. CASE l = 1 BY <1>1, <1>2, <2>2
  <2>3. CASE l = 2 BY <1>1, <1>2, <2>3
  <2>4. CASE l = 3 BY <1>1, <1>2, <2>4
  <2>5. CASE l = 4 BY <1>1, <1>2, <2>5
  <2>6. QED BY <2>1, <2>2, <2>3, <2>4, <2>5
<1> HIDE DEF s
<1>4. s = g * b /\ b \in Nat
  <2>1. CASE g = 1 BY <1>2, <1>3, <2>1
  <2>2. CASE g = 2 BY <1>2, <1>3, <2>2
  <2>3. QED BY <2>1, <2>2
<1>5. PICK h \in Nat : b = 2 * h
  BY <1>2, <1>4
<1>6. h \in 1 .. 10
  <2>1. CASE g = 1 BY <1>2, <1>3, <1>4, <1>5, <2>1
  <2>2. CASE g = 2 BY <1>2, <1>3, <1>4, <1>5, <2>2
  <2>3. QED BY <2>1, <2>2
<1>7. s = 2 * g * h
  <2>1. CASE g = 1 BY <1>4, <1>5, <2>1
  <2>2. CASE g = 2 BY <1>4, <1>5, <2>2
  <2>3. QED BY <2>1, <2>2
<1>8. QED BY <1>1, <1>3, <1>5, <1>6, <1>7 DEF l, s, b

\* The lane of a position inside the span.
LEMMA LaneIs ==
  ASSUME NEW n \in Nat \ {0}, NEW l \in 1 .. 4, NEW u \in Nat, u < l * n
  PROVE  u \div n \in 0 .. l - 1
<1>1. PICK q \in Int, m \in 0 .. n - 1 : q = u \div n /\ u = q * n + m
  BY DivMod
<1>2. ~(q < 0)
  <2>1. SUFFICES ASSUME q <= -1 PROVE FALSE
    OBVIOUS
  <2>2. q * n <= -n
    BY <2>1, Z3
  <2>3. q * n \in Int
    OBVIOUS
  <2>4. QED BY <1>1, <2>2, <2>3
<1>3. ~(q >= l)
  <2>1. SUFFICES ASSUME q >= l PROVE FALSE
    OBVIOUS
  <2>2. q * n >= l * n
    BY <2>1, Z3
  <2>3. q * n \in Int /\ l * n \in Int
    OBVIOUS
  <2>4. QED BY <1>1, <2>2, <2>3
<1>4. QED BY <1>1, <1>2, <1>3

\* The grid point a span is anchored at.
LEMMA AlignIs ==
  ASSUME NEW lo \in Nat, NEW g \in {1, 2}
  PROVE  /\ \E y \in Int : GridAlign(lo, g) = 2 * g * y
         /\ g = 1 /\ lo % 2 = 0 => GridAlign(lo, g) = lo
         /\ g = 1 => GridAlign(lo, g) \in {lo, lo + 1}
         /\ g = 2 /\ lo % 2 = 0 => GridAlign(lo, g) \in {lo, lo + 2}
<1>1. CASE g = 1
  <2>1. GridAlign(lo, g) = ((lo + 1) \div 2) * 2
    BY <1>1 DEF GridAlign
  <2>2. (lo + 1) \div 2 \in Int
    OBVIOUS
  <2>3. QED BY <1>1, <2>1, <2>2
<1>2. CASE g = 2
  <2>1. GridAlign(lo, g) = ((lo + 2) \div 4) * 4
    BY <1>2 DEF GridAlign
  <2>2. (lo + 2) \div 4 \in Int
    OBVIOUS
  <2>3. QED BY <1>2, <2>1, <2>2
<1>3. QED BY <1>1, <1>2

-----------------------------------------------------------------------------
(* The service of a tuned window *)

\* What the plan of the service says, for g = ServiceGrid, l lanes and h bins a
\* half.
Service(g, l, h) ==
  /\ g \in {1, 2} /\ ServiceGrid = g
  /\ l \in 1 .. 4 /\ Lanes = l
  /\ h \in 1 .. 10 /\ Bins = 2 * h /\ HalfBins = h
  /\ SubRate = 2 * g * h /\ tuned.rate = l * (2 * g * h)

\* A centre is on the bin its bin index names.
LEMMA BinInverse ==
  ASSUME NEW g, NEW l, NEW h, Service(g, l, h), NEW e \in Int, NEW c \in Int,
         BinForCenter(e, c) >= 0
  PROVE  CenterForBin(e, BinForCenter(e, c)) = c
<1> DEFINE delta == c - e  k == delta \div (2 * g)
<1>1. g \in {1, 2} /\ ServiceGrid = g /\ h \in 1 .. 10 /\ Bins = 2 * h
  BY DEF Service
<1>2. Bins \div 2 = h
  BY <1>1
<1>3. BinForCenter(e, c) = IF delta % (2 * g) # 0 \/ k \notin -h .. h - 1 THEN -1 ELSE k % Bins
  BY <1>1, <1>2 DEF BinForCenter
<1>4. delta % (2 * g) = 0 /\ k \in -h .. h - 1 /\ BinForCenter(e, c) = k % Bins
  BY <1>3
<1>5. delta = 2 * g * k
  <2>1. CASE g = 1 BY <1>4, <2>1
  <2>2. CASE g = 2 BY <1>4, <2>2
  <2>3. QED BY <1>1, <2>1, <2>2
<1> HIDE DEF k, delta
<1>6. k % Bins = IF k >= 0 THEN k ELSE k + Bins
  <2>1. CASE k >= 0
    BY <1>1, <1>4, <2>1, Z3
  <2>2. CASE k < 0
    <3>1. k + Bins \in 0 .. Bins - 1 /\ Bins \in Nat \ {0} /\ k \in Int
      BY <1>1, <1>4, <2>2
    <3>2. k % Bins = k + Bins
      BY <2>2, <3>1, Z3
    <3>3. ~(k >= 0)
      BY <2>2, <3>1
    <3>4. QED BY <3>2, <3>3
  <2>3. QED BY <1>4, <2>1, <2>2
<1>7. (IF k % Bins >= Bins \div 2 THEN (k % Bins) - Bins ELSE k % Bins) = k
  BY <1>1, <1>2, <1>4, <1>6
<1>8. CenterForBin(e, k % Bins) = e + 2 * g * k
  BY <1>1, <1>7 DEF CenterForBin
<1>9. e + delta = c
  BY DEF delta
<1>10. QED BY <1>4, <1>5, <1>8, <1>9

\* A centre on the grid and inside the span has a lane and a bin.
LEMMA Carried ==
  ASSUME NEW g, NEW l, NEW h, Service(g, l, h), NEW x \in Int, NEW y \in Int,
         GridAlign(tuned.lo, g) = 2 * g * y,
         2 * g * x - 2 * g * y \in -tuned.rate .. tuned.rate - 1
  PROVE  LET c == 2 * g * x IN
         /\ c >= SpanLo /\ LaneFor(c) \in 0 .. Lanes - 1
         /\ BinForCenter(SubCenter(LaneFor(c)), c) >= 0
<1> DEFINE c == 2 * g * x  s == 2 * g * h  u == c - SpanLo  i == LaneFor(c)
           z == x - y + l * h - h - 2 * i * h
<1>1. /\ g \in {1, 2} /\ ServiceGrid = g /\ l \in 1 .. 4 /\ Lanes = l
      /\ h \in 1 .. 10 /\ Bins = 2 * h /\ SubRate = s /\ tuned.rate = l * s
  BY DEF Service
<1>2. SpanLo = 2 * g * y - l * s /\ s \in Nat \ {0} /\ l * s \in Nat /\ tuned.rate \in Nat
  <2>1. s \in Nat \ {0}
    <3>1. CASE g = 1 BY <1>1, <3>1
    <3>2. CASE g = 2 BY <1>1, <3>2
    <3>3. QED BY <1>1, <3>1, <3>2
  <2> HIDE DEF s
  <2>2. l * s \in Nat
    BY <1>1, <2>1
  <2>3. QED BY <1>1, <2>1, <2>2 DEF SpanLo
<1>3. /\ u = 2 * g * x - 2 * g * y + l * s /\ u \in Int /\ c \in Int
      /\ 2 * g * x \in Int /\ 2 * g * y \in Int
  <2>1. 2 * g * x \in Int /\ 2 * g * y \in Int
    BY <1>1
  <2> HIDE DEF s
  <2>2. QED BY <1>2, <2>1
<1>4. u >= 0 /\ u < 2 * (l * s) /\ c >= SpanLo
  <2>1. PICK v \in -tuned.rate .. tuned.rate - 1 : v = 2 * g * x - 2 * g * y
    BY <1>3
  <2>2. u = v + l * s
    BY <1>3, <2>1
  <2>3. c = u + SpanLo
    BY <1>2, <1>3
  <2> HIDE DEF u, s, c
  <2>4. QED BY <1>1, <1>2, <1>3, <2>1, <2>2, <2>3
<1>5. i = u \div (2 * s)
  BY <1>1 DEF LaneFor
<1>6. i \in 0 .. l - 1
  <2> HIDE DEF i, u, s
  <2>1. 2 * s \in Nat \ {0} /\ u \in Nat
    BY <1>2, <1>3, <1>4
  <2>2. l * (2 * s) = 2 * (l * s)
    BY <1>1, <1>2, Z3
  <2>3. QED BY <1>1, <1>4, <1>5, <2>1, <2>2, LaneIs
<1> HIDE DEF i
<1>7. i * (2 * s) <= u /\ u < i * (2 * s) + 2 * s
  <2> HIDE DEF u, s
  <2>1. 2 * s \in Nat \ {0} /\ u \in Int
    BY <1>2, <1>3
  <2>2. PICK m \in 0 .. 2 * s - 1 : u = (u \div (2 * s)) * (2 * s) + m
    BY <2>1, DivMod
  <2>3. i * (2 * s) \in Int
    BY <1>6, <2>1
  <2>4. QED BY <1>5, <2>1, <2>2, <2>3
<1>8. SubCenter(i) = SpanLo + s + 2 * i * s
  BY <1>1 DEF SubCenter
<1> DEFINE delta == c - SubCenter(i)
<1>9. delta = 2 * g * z /\ z \in Int /\ z \in -h .. h - 1
  <2>1. i \in {0, 1, 2, 3} /\ l \in {1, 2, 3, 4}
    BY <1>1, <1>6
  <2>2. ASSUME NEW gg \in {1, 2}, g = gg, NEW ll \in {1, 2, 3, 4}, l = ll,
               NEW ii \in {0, 1, 2, 3}, i = ii
        PROVE  delta = 2 * gg * z /\ z \in Int /\ z \in -h .. h - 1
    <3>1. z = x - y + ll * h - h - 2 * ii * h
      BY <2>2
    <3>2. delta = 2 * gg * x - (2 * gg * y - ll * (2 * gg * h) + 2 * gg * h + 2 * ii * (2 * gg * h))
      BY <1>2, <1>8, <2>2
    <3>3. /\ ii * (2 * (2 * gg * h)) <= 2 * gg * x - 2 * gg * y + ll * (2 * gg * h)
          /\ 2 * gg * x - 2 * gg * y + ll * (2 * gg * h)
               < ii * (2 * (2 * gg * h)) + 2 * (2 * gg * h)
      BY <1>3, <1>7, <2>2
    <3> HIDE DEF z, delta
    <3>4. CASE gg = 1
      <4>1. CASE ll = 1 BY <1>1, <2>2, <3>1, <3>2, <3>3, <3>4, <4>1
      <4>2. CASE ll = 2 BY <1>1, <2>2, <3>1, <3>2, <3>3, <3>4, <4>2
      <4>3. CASE ll = 3 BY <1>1, <2>2, <3>1, <3>2, <3>3, <3>4, <4>3
      <4>4. CASE ll = 4 BY <1>1, <2>2, <3>1, <3>2, <3>3, <3>4, <4>4
      <4>5. QED BY <4>1, <4>2, <4>3, <4>4
    <3>5. CASE gg = 2
      <4>1. CASE ll = 1 BY <1>1, <2>2, <3>1, <3>2, <3>3, <3>5, <4>1
      <4>2. CASE ll = 2 BY <1>1, <2>2, <3>1, <3>2, <3>3, <3>5, <4>2
      <4>3. CASE ll = 3 BY <1>1, <2>2, <3>1, <3>2, <3>3, <3>5, <4>3
      <4>4. CASE ll = 4 BY <1>1, <2>2, <3>1, <3>2, <3>3, <3>5, <4>4
      <4>5. QED BY <4>1, <4>2, <4>3, <4>4
    <3>6. QED BY <3>4, <3>5
  <2>3. QED BY <1>1, <2>1, <2>2
<1> HIDE DEF z, delta
<1>10. delta % (2 * g) = 0 /\ delta \div (2 * g) = z
  <2>1. CASE g = 1 BY <1>9, <2>1
  <2>2. CASE g = 2 BY <1>9, <2>2
  <2>3. QED BY <1>1, <2>1, <2>2
<1>11. Bins \div 2 = h /\ z % Bins >= 0
  <2>1. Bins \in Nat \ {0}
    BY <1>1
  <2>2. QED BY <1>1, <1>9, <2>1, DivMod
<1>12. BinForCenter(SubCenter(i), c) = z % Bins
  BY <1>1, <1>9, <1>10, <1>11 DEF BinForCenter, delta
<1>13. QED BY <1>1, <1>4, <1>6, <1>11, <1>12 DEF i

-----------------------------------------------------------------------------
(* The window that was asked for *)

\* What a tuned session keeps: the layout of the window asked for, which passed
\* the check of session_tune; and a service is never refused.
LaidOut ==
  LET layout == LayoutRate(mode, request.ref, request.bottom, request.count) IN
  /\ request.ref = RefOf(mode) /\ request.bottom \in Nat /\ request.count \in Nat
  /\ layout.ok
  /\ tuned.lo = Floored(layout).lo /\ tuned.rate = Floored(layout).rate
  /\ LayoutCheck(device, request.ref, tuned.rate)

TunedRight ==
  /\ mode \in {"ble", "bredr", "hybrid"}
  /\ status \in {"idle", "tuned", "rejected", "open"}
  /\ status \in {"tuned", "open"} => LaidOut

\* The channels lie around the frequency tuned to, within the rate.
LEMMA BleWindow ==
  ASSUME LaidOut, mode = "ble"
  PROVE  LET b == request.bottom  n == request.count IN
         /\ request.ref = "ble" /\ b \in Nat /\ n \in 1 .. 40 /\ b + n <= 40
         /\ tuned.lo = 4802 + 4 * b + 2 * n
         /\ tuned.rate = IF n < 2 THEN 4 ELSE 2 * n
<1> DEFINE b == request.bottom  n == request.count
<1>1. request.ref = "ble" /\ b \in Nat /\ n \in Nat
  BY DEF LaidOut, RefOf
<1>2. n # 0 /\ LayoutRate(mode, "ble", b, n) = BleLayout(b, n)
      /\ b + n <= 40 /\ BleLayout(b, n) = Laid(2 * (2401 + 2 * b + n), 2 * n)
  BY <1>1 DEF LaidOut, LayoutRate, Refused, BleLayout, BleChannels
<1>3. /\ tuned.lo = 2 * (2401 + 2 * b + n)
      /\ tuned.rate = IF 2 * n < 4 THEN 4 ELSE 2 * n
  BY <1>1, <1>2 DEF LaidOut, Floored, Laid
<1> HIDE DEF b, n
<1>4. n \in 1 .. 40 /\ 2 * (2401 + 2 * b + n) = 4802 + 4 * b + 2 * n
      /\ (2 * n < 4 <=> n < 2)
  BY <1>1, <1>2
<1>5. QED BY <1>1, <1>2, <1>3, <1>4 DEF b, n

LEMMA BredrWindow ==
  ASSUME LaidOut, mode \in {"bredr", "hybrid"}
  PROVE  LET b == request.bottom  n == request.count IN
         /\ request.ref = "bredr" /\ b \in Nat /\ n \in 1 .. 79 /\ b + n <= 79
         /\ \/ n = 79 /\ b = 0 /\ tuned.lo = 4882 /\ tuned.rate = 80
            \/ n # 79 /\ tuned.lo = 4804 + 2 * b + n - 1
               /\ tuned.rate = IF n < 4 THEN 4 ELSE n
<1> DEFINE b == request.bottom  n == request.count
<1>1. request.ref = "bredr" /\ b \in Nat /\ n \in Nat
  BY DEF LaidOut, RefOf
<1>2. n # 0 /\ LayoutRate(mode, "bredr", b, n) = BredrLayout(b, n)
      /\ b + n <= 79
      /\ BredrLayout(b, n) = IF n = 79 THEN Laid(4882, 80)
                             ELSE Laid(2 * (2402 + b) + n - 1, n)
  BY <1>1 DEF LaidOut, LayoutRate, Refused, BredrLayout, BredrChannels
<1>3. CASE n = 79
  <2>1. tuned.lo = 4882 /\ tuned.rate = 80
    BY <1>1, <1>2, <1>3 DEF LaidOut, Floored, Laid
  <2>2. b = 0
    BY <1>1, <1>2, <1>3
  <2>3. QED BY <1>1, <1>2, <1>3, <2>1, <2>2
<1>4. CASE n # 79
  <2>1. /\ tuned.lo = 2 * (2402 + b) + n - 1
        /\ tuned.rate = IF n < 4 THEN 4 ELSE n
    BY <1>1, <1>2, <1>4 DEF LaidOut, Floored, Laid
  <2>2. QED BY <1>1, <1>2, <1>4, <2>1
<1>5. QED BY <1>3, <1>4

LEMMA RateIs ==
  ASSUME LaidOut, mode \in {"ble", "bredr", "hybrid"}
  PROVE  tuned.rate \in 4 .. 80 /\ tuned.lo \in Nat /\ (mode = "ble" => tuned.lo % 2 = 0)
<1>1. CASE mode = "ble"
  <2>1. PICK b \in Nat, n \in 1 .. 40 :
          /\ b + n <= 40 /\ tuned.lo = 4802 + 4 * b + 2 * n
          /\ tuned.rate = IF n < 2 THEN 4 ELSE 2 * n
    BY <1>1, BleWindow
  <2>2. QED BY <2>1
<1>2. CASE mode \in {"bredr", "hybrid"}
  <2>1. PICK b \in Nat, n \in 1 .. 79 :
          /\ b + n <= 79
          /\ \/ n = 79 /\ b = 0 /\ tuned.lo = 4882 /\ tuned.rate = 80
             \/ n # 79 /\ tuned.lo = 4804 + 2 * b + n - 1
                /\ tuned.rate = IF n < 4 THEN 4 ELSE n
    BY <1>2, BredrWindow
  <2>2. QED BY <1>2, <2>1
<1>3. QED BY <1>1, <1>2

LEMMA ServiceIs ==
  ASSUME LaidOut, mode \in {"ble", "bredr", "hybrid"}
  PROVE  /\ Planned(tuned.rate, ServiceGrid)
         /\ \E g, l, h : Service(g, l, h) /\ (mode # "ble" => g = 1)
<1> DEFINE g == ServiceGrid  want == IF mode = "ble" THEN 2 ELSE 1
<1>1. Planned(tuned.rate, want) \/ Planned(tuned.rate, 1)
  <2>1. want = DesiredGrid(request.ref)
    BY DEF LaidOut, DesiredGrid, RefOf
  <2>2. QED BY <2>1 DEF LaidOut, LayoutCheck, ValidSampleRate
<1>2. g = IF Planned(tuned.rate, want) THEN want ELSE 1
  BY DEF ServiceGrid
<1>3. Planned(tuned.rate, g) /\ g \in {1, 2} /\ (mode # "ble" => g = 1)
  BY <1>1, <1>2
<1> HIDE DEF g
<1>4. PICK h \in 1 .. 10 : /\ LanesFor(tuned.rate) \in 1 .. 4
                           /\ BinsFor(tuned.rate, g) = 2 * h
                           /\ tuned.rate \div LanesFor(tuned.rate) = 2 * g * h
                           /\ tuned.rate = LanesFor(tuned.rate) * (2 * g * h)
  <2>1. tuned.rate \in 1 .. 80
    BY RateIs
  <2>2. QED BY <1>3, <2>1, PlanIs
<1>5. Lanes = LanesFor(tuned.rate) /\ Bins = 2 * h /\ SubRate = 2 * g * h
  BY <1>4 DEF Lanes, Bins, SubRate, g
<1>6. HalfBins = h
  BY <1>5 DEF HalfBins
<1>7. Service(g, Lanes, h)
  BY <1>3, <1>4, <1>5, <1>6 DEF Service, g
<1>8. QED BY <1>3, <1>7 DEF g

\* The place of a centre among those of its protocol, in steps of the grid.
Fits(p, g, c) ==
  /\ c \in ChannelCenters(p)
  /\ \E x \in Int : c = 2 * g * x
  /\ c - GridAlign(tuned.lo, g) \in -tuned.rate .. tuned.rate - 1
  /\ c - tuned.lo < tuned.rate /\ tuned.lo - c < tuned.rate

LEMMA BleFits ==
  ASSUME LaidOut, mode = "ble", NEW g \in {1, 2}, NEW c \in Wanted
  PROVE  Fits("ble", g, c)
<1>1. PICK b \in Nat, n \in 1 .. 40 :
        /\ b = request.bottom /\ n = request.count /\ request.ref = "ble"
        /\ b + n <= 40 /\ tuned.lo = 4802 + 4 * b + 2 * n
        /\ tuned.rate = IF n < 2 THEN 4 ELSE 2 * n
  BY BleWindow
<1>2. PICK j \in b .. b + n - 1 : c = 2 * (2402 + 2 * j)
  BY <1>1 DEF Wanted
<1>3. c \in ChannelCenters("ble")
  BY <1>1, <1>2 DEF ChannelCenters, BleChannels
<1>4. \E x \in Int : c = 2 * g * x
  <2>1. c = 2 * 1 * (2402 + 2 * j) /\ c = 2 * 2 * (1201 + j)
    BY <1>2
  <2>2. 2402 + 2 * j \in Int /\ 1201 + j \in Int
    BY <1>1
  <2>3. CASE g = 1 BY <2>1, <2>2, <2>3
  <2>4. CASE g = 2 BY <2>1, <2>2, <2>4
  <2>5. QED BY <2>3, <2>4
<1>5. tuned.lo \in Nat /\ tuned.lo % 2 = 0
  BY RateIs
<1>6. GridAlign(tuned.lo, g) \in {tuned.lo, tuned.lo + 2}
  BY <1>5, AlignIs
<1>7. PICK lo \in Nat, r \in Nat :
        /\ lo = tuned.lo /\ r = tuned.rate /\ lo = 4802 + 4 * b + 2 * n /\ 2 * n <= r
  BY <1>1, <1>5
<1>8. c \in Int /\ c - lo <= 2 * n - 2 /\ lo - c <= 2 * n - 2
  BY <1>1, <1>2, <1>7
<1>9. c - tuned.lo < tuned.rate /\ tuned.lo - c < tuned.rate
  BY <1>7, <1>8
<1>a. c - GridAlign(tuned.lo, g) \in -tuned.rate .. tuned.rate - 1
  <2>1. c - lo \in -r .. r - 1 /\ c - (lo + 2) \in -r .. r - 1
    BY <1>7, <1>8
  <2>2. QED BY <1>6, <1>7, <2>1
<1>10. QED BY <1>3, <1>4, <1>9, <1>a DEF Fits

\* Of channels b .. b + n - 1 and the one after a lone channel.
LEMMA BredrFits ==
  ASSUME LaidOut, mode \in {"bredr", "hybrid"},
         NEW j \in Nat, j <= 78, request.bottom <= j,
         j < request.bottom + request.count \/ (request.count = 1 /\ j = request.bottom + 1)
  PROVE  Fits("bredr", 1, 2 * (2402 + j))
<1> DEFINE c == 2 * (2402 + j)  b == request.bottom  n == request.count
<1>1. /\ b \in Nat /\ n \in 1 .. 79 /\ b + n <= 79
      /\ b <= j /\ (j < b + n \/ (n = 1 /\ j = b + 1))
      /\ \/ n = 79 /\ b = 0 /\ tuned.lo = 4882 /\ tuned.rate = 80
         \/ n # 79 /\ tuned.lo = 4804 + 2 * b + n - 1
            /\ tuned.rate = IF n < 4 THEN 4 ELSE n
  BY BredrWindow
<1> HIDE DEF b, n
<1>2. j < b + n \/ (n = 1 /\ j = b + 1)
  BY <1>1
<1>3. c \in ChannelCenters("bredr")
  BY DEF ChannelCenters, BredrChannels
<1>4. \E x \in Int : c = 2 * 1 * x
  <2>1. c = 2 * 1 * (2402 + j) /\ 2402 + j \in Int
    OBVIOUS
  <2>2. QED BY <2>1
<1>5. tuned.lo \in Nat /\ tuned.rate \in Nat
  BY RateIs
<1>6. CASE n = 79
  <2>1. tuned.lo = 4882 /\ tuned.rate = 80
    BY <1>1, <1>6
  <2>2. GridAlign(tuned.lo, 1) = 4882
    BY <2>1, AlignIs
  <2>3. c \in 4804 .. 4960
    OBVIOUS
  <2>4. QED BY <1>3, <1>4, <2>1, <2>2, <2>3 DEF Fits
<1>7. CASE n # 79
  <2>1. tuned.lo = 4804 + 2 * b + n - 1 /\ tuned.rate = IF n < 4 THEN 4 ELSE n
    BY <1>1, <1>7
  <2>2. GridAlign(tuned.lo, 1) \in {tuned.lo, tuned.lo + 1}
    BY <1>5, AlignIs
  <2>3. CASE n = 1
    <3>1. tuned.lo = 4804 + 2 * b /\ tuned.rate = 4
      BY <1>1, <2>1, <2>3
    <3>2. GridAlign(tuned.lo, 1) = tuned.lo
      <4>1. tuned.lo % 2 = 0
        BY <1>1, <3>1
      <4>2. QED BY <1>5, <4>1, AlignIs
    <3>3. c - tuned.lo \in 0 .. 2
      BY <1>1, <1>2, <2>3, <3>1
    <3>4. QED BY <1>3, <1>4, <1>5, <3>1, <3>2, <3>3 DEF Fits
  <2>4. CASE n # 1
    <3>1. c - tuned.lo \in -n + 1 .. n - 1 /\ n <= tuned.rate
      BY <1>1, <1>2, <2>1, <2>4
    <3> DEFINE lo == tuned.lo  r == tuned.rate
    <3>2. lo \in Nat /\ r \in Nat /\ c \in Int /\ c - lo \in -n + 1 .. n - 1 /\ n <= r
      BY <1>5, <3>1
    <3> HIDE DEF c, lo, r
    <3>3. c - (lo + 1) \in -r .. r - 1 /\ c - lo \in -r .. r - 1
      BY <1>1, <3>2
    <3>4. c - lo < r /\ lo - c < r
      BY <1>1, <3>2
    <3> USE DEF c, lo, r
    <3>a. c - GridAlign(tuned.lo, 1) \in -tuned.rate .. tuned.rate - 1
      BY <2>2, <3>3
    <3>5. QED BY <1>3, <1>4, <3>4, <3>a DEF Fits
  <2>5. QED BY <2>3, <2>4
<1>8. QED BY <1>6, <1>7

\* With both protocols on, one of the BR/EDR channels lies on a BLE channel.
LEMMA HybridFits ==
  ASSUME LaidOut, mode = "hybrid"
  PROVE  \E c : Fits("ble", 1, c)
<1> DEFINE b == request.bottom  n == request.count
<1>1. b \in Nat /\ n \in 1 .. 79 /\ b + n <= 79
  BY BredrWindow
<1> HIDE DEF b, n
<1>2. \E m \in 0 .. 39 : 2 * m \in {b, b + 1}
  <2>1. CASE b % 2 = 0
    <3>1. b \div 2 \in 0 .. 39 /\ 2 * (b \div 2) = b
      BY <1>1, <2>1
    <3>2. QED BY <3>1
  <2>2. CASE b % 2 # 0
    <3>1. (b + 1) \div 2 \in 0 .. 39 /\ 2 * ((b + 1) \div 2) = b + 1
      BY <1>1, <2>2
    <3>2. QED BY <3>1
  <2>3. QED BY <2>1, <2>2
<1>3. PICK m \in 0 .. 39 : 2 * m \in {b, b + 1}
  BY <1>2
<1> DEFINE j == 2 * m
<1>4. /\ j \in Nat /\ j <= 78 /\ b <= j
      /\ j < b + n \/ (n = 1 /\ j = b + 1)
  BY <1>1, <1>3
<1> HIDE DEF j
<1>5. Fits("bredr", 1, 2 * (2402 + j))
  BY <1>4, BredrFits DEF b, n
<1>6. 2 * (2402 + j) \in ChannelCenters("ble")
  BY DEF ChannelCenters, BleChannels, j
<1>7. QED BY <1>5, <1>6 DEF Fits

LEMMA FitsDescribed ==
  ASSUME LaidOut, mode \in {"ble", "bredr", "hybrid"},
         NEW g, NEW l, NEW h, Service(g, l, h), NEW p, NEW c, Fits(p, g, c)
  PROVE  \E d \in Descriptors(p) : d.center = c
<1>1. PICK x \in Int : c = 2 * g * x
  BY DEF Fits
<1>2. g \in {1, 2} /\ tuned.lo \in Nat /\ tuned.rate \in Nat
  BY RateIs DEF Service
<1>3. PICK y \in Int : GridAlign(tuned.lo, g) = 2 * g * y
  BY <1>2, AlignIs
<1>4. 2 * g * x - 2 * g * y \in -tuned.rate .. tuned.rate - 1
  BY <1>1, <1>3 DEF Fits
<1>5. /\ c >= SpanLo /\ LaneFor(c) \in 0 .. Lanes - 1
      /\ BinForCenter(SubCenter(LaneFor(c)), c) >= 0
  BY <1>1, <1>3, <1>4, Carried
<1>6. c \in Int
  <2>1. CASE g = 1 BY <1>1, <2>1
  <2>2. CASE g = 2 BY <1>1, <2>2
  <2>3. QED BY <1>2, <2>1, <2>2
<1>7. Abs(c - tuned.lo) < tuned.rate
  BY <1>2, <1>6 DEF Fits, Abs
<1>8. LaneFor(c) < Lanes
  BY <1>5 DEF Service
<1>9. c \in ChannelCenters(p)
  BY DEF Fits
<1>10. [center |-> c, lane |-> LaneFor(c), bin |-> BinForCenter(SubCenter(LaneFor(c)), c)]
         \in Descriptors(p)
  BY <1>5, <1>7, <1>8, <1>9 DEF Descriptors
<1>11. QED BY <1>10

\* Every descriptor's bin is on its channel; so no two share one.
LEMMA DescriptorsSound ==
  ASSUME LaidOut, mode \in {"ble", "bredr", "hybrid"},
         NEW g, NEW l, NEW h, Service(g, l, h), NEW p
  PROVE  \A d \in Descriptors(p) : CenterForBin(SubCenter(d.lane), d.bin) = d.center
<1> SUFFICES ASSUME NEW d \in Descriptors(p)
             PROVE  CenterForBin(SubCenter(d.lane), d.bin) = d.center
  OBVIOUS
<1>1. PICK c \in ChannelCenters(p) :
        /\ BinForCenter(SubCenter(LaneFor(c)), c) >= 0
        /\ d = [center |-> c, lane |-> LaneFor(c),
                bin |-> BinForCenter(SubCenter(LaneFor(c)), c)]
  BY DEF Descriptors
<1>2. c \in Int
  BY DEF ChannelCenters, BleChannels, BredrChannels
<1>3. SpanLo \in Int /\ SubRate \in Nat \ {0}
  <2>1. /\ g \in {1, 2} /\ ServiceGrid = g /\ h \in 1 .. 10 /\ SubRate = 2 * g * h
        /\ tuned.lo \in Nat /\ tuned.rate \in Nat
    BY RateIs DEF Service
  <2>2. PICK y \in Int : GridAlign(tuned.lo, g) = 2 * g * y
    BY <2>1, AlignIs
  <2>3. CASE g = 1 BY <2>1, <2>2, <2>3 DEF SpanLo
  <2>4. CASE g = 2 BY <2>1, <2>2, <2>4 DEF SpanLo
  <2>5. QED BY <2>1, <2>3, <2>4
<1>4. LaneFor(c) \in Int
  <2>1. 2 * SubRate \in Nat \ {0} /\ c - SpanLo \in Int
    BY <1>2, <1>3
  <2>2. QED BY <2>1, DivMod DEF LaneFor
<1>5. SubCenter(LaneFor(c)) \in Int
  BY <1>3, <1>4 DEF SubCenter
<1>6. QED BY <1>1, <1>2, <1>5, BinInverse

LEMMA OneBinEach ==
  ASSUME LaidOut, mode \in {"ble", "bredr", "hybrid"},
         NEW g, NEW l, NEW h, Service(g, l, h), NEW p
  PROVE  Cardinality({<<d.lane, d.bin>> : d \in Descriptors(p)}) = Cardinality(Descriptors(p))
<1> DEFINE D == Descriptors(p)  T == {<<d.lane, d.bin>> : d \in D}
           f == [d \in D |-> <<d.lane, d.bin>>]
           Carries(c) == [center |-> c, lane |-> LaneFor(c),
                          bin |-> BinForCenter(SubCenter(LaneFor(c)), c)]
           C == {c \in ChannelCenters(p) :
                   /\ Abs(c - tuned.lo) < tuned.rate /\ c >= SpanLo
                   /\ LaneFor(c) < Lanes
                   /\ BinForCenter(SubCenter(LaneFor(c)), c) >= 0}
<1>1. IsFiniteSet(D)
  <2>1. IsFiniteSet(4804 .. 4960)
    <3>1. PICK a \in Int, b \in Int : a = 4804 /\ b = 4960
      OBVIOUS
    <3>2. IsFiniteSet(a .. b)
      BY FS_Interval
    <3>3. QED BY <3>1, <3>2
  <2>2. C \in SUBSET (4804 .. 4960)
    BY DEF ChannelCenters, BleChannels, BredrChannels
  <2>3. IsFiniteSet(C)
    BY <2>1, <2>2, FS_Subset
  <2>4. D = {Carries(c) : c \in C}
    BY DEF Descriptors
  <2> DEFINE k == [c \in C |-> Carries(c)]
  <2>5. k \in Surjection(C, D)
    <3> HIDE DEF C, D, Carries
    <3>1. QED BY <2>4 DEF Surjection
  <2> HIDE DEF C, D, k
  <2>6. QED BY <2>3, <2>5, FS_Surjection
<1>2. \A d, e \in D : <<d.lane, d.bin>> = <<e.lane, e.bin>> => d.center = e.center
  <2>1. ASSUME NEW d \in D, NEW e \in D, d.lane = e.lane, d.bin = e.bin
        PROVE  d.center = e.center
    <3>1. CenterForBin(SubCenter(d.lane), d.bin) = d.center
          /\ CenterForBin(SubCenter(e.lane), e.bin) = e.center
      BY DescriptorsSound
    <3>2. QED BY <2>1, <3>1
  <2>2. QED BY <2>1
<1>3. \A d, e \in D : d.center = e.center => d = e
  BY DEF Descriptors
<1> HIDE DEF D
<1>4. f \in Bijection(D, T)
  <2>1. f \in Injection(D, T)
    <3>1. f \in [D -> T]
      OBVIOUS
    <3>2. ASSUME NEW d \in D, NEW e \in D, f[d] = f[e]
          PROVE  d = e
      BY <1>2, <1>3, <3>2
    <3>3. QED BY <3>1, <3>2 DEF Injection, IsInjective
  <2>2. f \in Surjection(D, T)
    BY DEF Surjection
  <2>3. QED BY <2>1, <2>2 DEF Bijection
<1>5. ExistsBijection(D, T)
  BY <1>4 DEF ExistsBijection
<1> HIDE DEF T
<1>6. Cardinality(T) = Cardinality(D)
  BY <1>1, <1>5, FS_Bijection
<1>7. QED BY <1>6 DEF T, D


-----------------------------------------------------------------------------
(* What a window is clamped to *)

LEMMA MinTwo ==
  ASSUME NEW a \in Int, NEW b \in Int
  PROVE  Min({a, b}) = IF a <= b THEN a ELSE b
BY DEF Min

LEMMA MaxTwo ==
  ASSUME NEW a \in Int, NEW b \in Int
  PROVE  Max({a, b}) = IF a >= b THEN a ELSE b
BY DEF Max

\* A set of naturals has a least element.
LEMMA LeastNat ==
  ASSUME NEW T \in SUBSET Nat, T # {}
  PROVE  \E x \in T : \A y \in T : x <= y
<1> DEFINE Below(n) == {y \in T : y <= n}
           Segments == {Below(n) : n \in T}
<1>1. \A n \in T : Below(n) \in FiniteSubsetsOf(Nat)
  BY FS_BoundedSetOfNaturals DEF FiniteSubsetsOf
<1>2. PICK S \in Segments : \A U \in Segments : ~ (<<U, S>> \in StrictSubsetOrdering(Nat))
  <2>1. Segments \subseteq FiniteSubsetsOf(Nat) /\ Segments # {}
    BY <1>1
  <2> HIDE DEF Segments
  <2>2. QED BY <2>1, WFMin, FS_StrictSubsetOrderingWellFounded
<1>3. PICK n \in T : S = Below(n)
  BY <1>2
<1>4. ASSUME NEW y \in T, ~ (n <= y) PROVE FALSE
  <2>1. Below(y) \subseteq S /\ n \notin Below(y) /\ n \in S
    <3>1. n \in Nat /\ y \in Nat /\ y < n
      BY <1>4
    <3>2. \A z \in T : z <= y => z <= n
      BY <3>1
    <3>3. Below(y) \subseteq Below(n) /\ n \notin Below(y) /\ n \in Below(n)
      <4>1. Below(y) \subseteq Below(n)
        BY <3>2
      <4>2. n \notin Below(y)
        BY <1>4
      <4>3. n \in Below(n)
        BY <3>1
      <4>4. QED BY <4>1, <4>2, <4>3
    <3> HIDE DEF Below
    <3>4. QED BY <1>3, <3>3
  <2>2. <<Below(y), S>> \in StrictSubsetOrdering(Nat)
    BY <2>1, <1>1, <1>3 DEF StrictSubsetOrdering, FiniteSubsetsOf
  <2>3. QED BY <1>2, <2>2
<1>5. QED BY <1>4

LEMMA MaxIs ==
  ASSUME NEW S \in SUBSET (0 .. 80), S # {}
  PROVE  Max(S) \in S /\ \A y \in S : y <= Max(S)
<1> DEFINE T == {80 - s : s \in S}
<1>1. T \in SUBSET Nat /\ T # {}
  OBVIOUS
<1>2. PICK x \in T : \A y \in T : x <= y
  BY <1>1, LeastNat
<1>3. PICK s \in S : x = 80 - s
  BY <1>2
<1>4. \A y \in S : s >= y
  <2>1. ASSUME NEW y \in S PROVE s >= y
    <3>1. 80 - y \in T
      OBVIOUS
    <3>2. 80 - s <= 80 - y
      BY <1>2, <1>3, <3>1
    <3>3. s \in 0 .. 80 /\ y \in 0 .. 80
      OBVIOUS
    <3>4. QED BY <3>2, <3>3
  <2>2. QED BY <2>1
<1>5. \E m \in S : \A y \in S : m >= y
  BY <1>4
<1>6. Max(S) \in S /\ \A y \in S : Max(S) >= y
  BY <1>5 DEF Max
<1>7. QED
  <2>1. ASSUME NEW y \in S PROVE y <= Max(S)
    <3>1. Max(S) >= y /\ Max(S) \in 0 .. 80 /\ y \in 0 .. 80
      BY <1>6
    <3>2. QED BY <3>1
  <2>2. QED BY <1>6, <2>1

\* The number of BR/EDR channels a count is brought down to.
LEMMA SnapIs ==
  ASSUME NEW c \in Nat
  PROVE  /\ SnapBredrCount(c) \in 0 .. 79
         /\ SnapBredrCount(c) = 0
            \/ (ValidBredrCount(SnapBredrCount(c)) /\ SnapBredrCount(c) <= c)
         /\ \A x \in 0 .. 79 : x <= c /\ ValidBredrCount(x) => x <= SnapBredrCount(c)
<1> DEFINE S == {0} \cup {x \in 0 .. 79 : x <= c /\ ValidBredrCount(x)}
<1>1. SnapBredrCount(c) = Max(S)
  BY DEF SnapBredrCount, BredrChannels
<1>2. S \in SUBSET (0 .. 80) /\ S # {}
  OBVIOUS
<1>3. Max(S) \in S /\ \A y \in S : y <= Max(S)
  BY <1>2, MaxIs
<1>4. QED BY <1>1, <1>3

LEMMA SnapKeeps ==
  ASSUME NEW c \in 0 .. 79, ValidBredrCount(c)
  PROVE  SnapBredrCount(c) = c
<1>1. c <= SnapBredrCount(c) /\ SnapBredrCount(c) \in 0 .. 79
  BY SnapIs
<1>2. SnapBredrCount(c) = 0 \/ SnapBredrCount(c) <= c
  BY SnapIs
<1>3. QED BY <1>1, <1>2

LEMMA ClampedTypes ==
  ASSUME NEW m, NEW b \in Nat, NEW c \in Nat
  PROVE  Clamped(m, b, c).bottom \in Nat /\ Clamped(m, b, c).count \in Nat
<1>1. CASE m = "ble"
  <2> DEFINE k == Min({Max({c, 1}), 40})  a == Min({b, 39})
  <2>1. Max({c, 1}) \in Nat
    BY MaxTwo
  <2>2. k \in Nat /\ a \in 0 .. 39
    <3>1. PICK x \in Nat : x = Max({c, 1})
      BY <2>1
    <3>2. Min({x, 40}) = IF x <= 40 THEN x ELSE 40
      BY MinTwo
    <3>3. Min({b, 39}) = IF b <= 39 THEN b ELSE 39
      BY MinTwo
    <3>4. QED BY <3>1, <3>2, <3>3
  <2> HIDE DEF k, a
  <2>3. 40 - a \in Nat /\ Min({k, 40 - a}) \in Nat
    BY <2>2, MinTwo
  <2>4. Clamped(m, b, c) = [bottom |-> a, count |-> Min({k, 40 - a})]
    BY <1>1 DEF Clamped, ClampedBle, BleChannels, k, a
  <2>5. QED BY <2>2, <2>3, <2>4
<1>2. CASE m # "ble"
  <2> DEFINE even == IF c = 79 THEN c ELSE 2 * (c \div 2)
             asked == Min({AtLeastTwo(even), 79})
             k == AtLeastTwo(SnapBredrCount(asked))
  <2>1. even \in Nat
    OBVIOUS
  <2> HIDE DEF even
  <2>2. AtLeastTwo(even) \in Nat
    BY <2>1 DEF AtLeastTwo
  <2>3. asked \in Nat
    BY <2>2, MinTwo
  <2> HIDE DEF asked
  <2>4. k \in 0 .. 79
    BY <2>3, SnapIs DEF AtLeastTwo
  <2> HIDE DEF k
  <2>5. 79 - k \in Nat /\ Min({b, 79 - k}) \in Nat
    BY <2>4, MinTwo
  <2>6. Clamped(m, b, c) = [bottom |-> Min({b, 79 - k}), count |-> k]
    BY <1>2 DEF Clamped, ClampedBredr, BredrChannels, k, asked, even
  <2>7. QED BY <2>4, <2>5, <2>6
<1>3. QED BY <1>1, <1>2

-----------------------------------------------------------------------------
(* What a tuned session delivers *)

LEMMA TuneKeeps ==
  ASSUME mode \in {"ble", "bredr", "hybrid"}, NEW ref \in Protocols,
         mode = "hybrid" \/ ref = mode, NEW b \in Nat, NEW c \in Nat, Tune(ref, b, c)
  PROVE  TunedRight'
<1> DEFINE layout == LayoutRate(mode, ref, b, c)
<1>1. /\ request' = [ref |-> ref, bottom |-> b, count |-> c]
      /\ mode' = mode /\ device' = device
      /\ status' \in {"tuned", "rejected"}
      /\ status' = "tuned" => /\ layout.ok
                             /\ LayoutCheck(device, ref, Floored(layout).rate)
                             /\ tuned' = [lo |-> Floored(layout).lo,
                                          rate |-> Floored(layout).rate]
  BY DEF Tune
<1>2. layout.ok => ref = RefOf(mode)
  BY DEF LayoutRate, Hybrid, Refused, RefOf, Protocols
<1> HIDE DEF layout
<1>3. ASSUME status' = "tuned" PROVE LaidOut'
  <2>1. /\ request'.ref = ref /\ request'.bottom = b /\ request'.count = c
        /\ tuned'.lo = Floored(layout).lo /\ tuned'.rate = Floored(layout).rate
    BY <1>1, <1>3
  <2>2. LayoutRate(mode', request'.ref, request'.bottom, request'.count) = layout
    BY <1>1, <2>1 DEF layout
  <2>3. QED BY <1>1, <1>2, <1>3, <2>1, <2>2 DEF LaidOut, LayoutCheck
<1>4. QED BY <1>1, <1>3 DEF TunedRight

LEMMA ServedInFull ==
  ASSUME LaidOut, mode \in {"ble", "bredr", "hybrid"}
  PROVE  /\ Wanted \subseteq {d.center : d \in Descriptors(request.ref)}
         /\ \A p \in {q \in Protocols : Enabled(q)} :
              /\ Descriptors(p) # {}
              /\ \A d \in Descriptors(p) : CenterForBin(SubCenter(d.lane), d.bin) = d.center
              /\ Cardinality({<<d.lane, d.bin>> : d \in Descriptors(p)})
                   = Cardinality(Descriptors(p))
<1>1. PICK g, l, h : Service(g, l, h) /\ (mode # "ble" => g = 1)
  BY ServiceIs
<1>2. request.ref = RefOf(mode) /\ g \in {1, 2}
  BY <1>1 DEF LaidOut, Service
<1>3. ASSUME NEW c \in Wanted PROVE Fits(request.ref, g, c)
  <2>1. CASE mode = "ble"
    BY <1>2, <2>1, BleFits DEF RefOf
  <2>2. CASE mode # "ble"
    <3>1. request.ref = "bredr" /\ g = 1 /\ mode \in {"bredr", "hybrid"}
      BY <1>1, <1>2, <2>2 DEF RefOf
    <3>2. PICK bb \in Nat, n \in 1 .. 79 :
            bb = request.bottom /\ n = request.count /\ bb + n <= 79
      BY <3>1, BredrWindow
    <3>3. PICK j \in bb .. bb + n - 1 : c = 2 * (2402 + j)
      BY <3>1, <3>2 DEF Wanted
    <3>4. /\ j \in Nat /\ j <= 78 /\ request.bottom <= j
          /\ j < request.bottom + request.count
      BY <3>2
    <3>5. Fits("bredr", 1, 2 * (2402 + j))
      BY <3>1, <3>4, BredrFits
    <3>6. QED BY <3>1, <3>3, <3>5
  <2>3. QED BY <2>1, <2>2
<1>4. Wanted \subseteq {d.center : d \in Descriptors(request.ref)}
  <2>1. ASSUME NEW c \in Wanted PROVE \E d \in Descriptors(request.ref) : d.center = c
    BY <1>1, <1>3, FitsDescribed
  <2>2. QED BY <2>1
<1>5. Wanted # {}
  <2>1. CASE mode = "ble"
    <3>1. PICK b \in Nat, n \in 1 .. 40 :
            b = request.bottom /\ n = request.count /\ request.ref = "ble"
      BY <2>1, BleWindow
    <3>2. b \in b .. b + n - 1
      OBVIOUS
    <3>3. QED BY <3>1, <3>2 DEF Wanted
  <2>2. CASE mode # "ble"
    <3>1. PICK b \in Nat, n \in 1 .. 79 :
            b = request.bottom /\ n = request.count /\ request.ref = "bredr"
      BY <2>2, BredrWindow
    <3>2. b \in b .. b + n - 1
      OBVIOUS
    <3>3. QED BY <3>1, <3>2 DEF Wanted
  <2>3. QED BY <2>1, <2>2
<1>6. ASSUME NEW p \in Protocols, Enabled(p)
      PROVE  Descriptors(p) # {}
  <2>1. CASE p = request.ref
    BY <1>4, <1>5, <2>1
  <2>2. CASE p # request.ref
    <3>1. mode = "hybrid" /\ p = "ble"
      BY <1>2, <1>6, <2>2 DEF Enabled, Protocols, RefOf
    <3>2. PICK c : Fits("ble", 1, c)
      BY <3>1, HybridFits
    <3>3. Service(1, l, h)
      BY <1>1, <3>1
    <3>4. QED BY <3>1, <3>2, <3>3, FitsDescribed
  <2>3. QED BY <2>1, <2>2
<1>7. QED BY <1>1, <1>4, <1>6, DescriptorsSound, OneBinEach

LEMMA TuningStart == TuningInit => TunedRight
BY DEF TuningInit, TunedRight

LEMMA TuningStep == TunedRight /\ [TuningNext]_tuningVars => TunedRight'
<1> SUFFICES ASSUME TunedRight, [TuningNext]_tuningVars PROVE TunedRight'
  OBVIOUS
<1>a. mode \in {"ble", "bredr", "hybrid"}
  BY DEF TunedRight
<1>1. CASE CliTune
  <2>1. PICK ref \in Protocols, bottom \in 0 .. 78, count \in AskedCounts :
          (mode = "hybrid" \/ ref = mode) /\ Tune(ref, bottom, count)
    BY <1>1 DEF CliTune, BredrChannels
  <2>2. bottom \in Nat /\ count \in Nat
    BY TuningAssumption
  <2>3. QED BY <1>a, <2>1, <2>2, TuneKeeps
<1>2. CASE GuiTune
  <2>1. PICK bottom \in 0 .. 78, count \in AskedCounts :
          Tune(RefOf(mode), Clamped(mode, bottom, count).bottom,
               Clamped(mode, bottom, count).count)
    BY <1>2 DEF GuiTune, BredrChannels
  <2>2. bottom \in Nat /\ count \in Nat
    BY TuningAssumption
  <2>3. /\ Clamped(mode, bottom, count).bottom \in Nat
        /\ Clamped(mode, bottom, count).count \in Nat
    BY <2>2, ClampedTypes
  <2>4. RefOf(mode) \in Protocols /\ (mode = "hybrid" \/ RefOf(mode) = mode)
    BY <1>a DEF RefOf, Protocols
  <2>5. QED BY <1>a, <2>1, <2>3, <2>4, TuneKeeps
<1>3. CASE OpenChannels
  <2>1. LaidOut /\ UNCHANGED <<device, mode, request, tuned>>
    BY <1>3 DEF OpenChannels, TunedRight
  <2>2. Planned(tuned.rate, ServiceGrid)
    BY <1>a, <2>1, ServiceIs
  <2>3. \A p \in Protocols : Enabled(p) => Descriptors(p) # {}
    BY <1>a, <2>1, ServedInFull
  <2>4. status' = "open"
    BY <1>3, <2>2, <2>3 DEF OpenChannels
  <2>5. LaidOut'
    BY <2>1 DEF LaidOut, LayoutCheck
  <2>6. QED BY <1>a, <2>1, <2>4, <2>5 DEF TunedRight
<1>4. CASE UNCHANGED tuningVars
  BY <1>4 DEF tuningVars, TunedRight, LaidOut, LayoutCheck
<1>5. QED BY <1>1, <1>2, <1>3, <1>4 DEF TuningNext

\* The feed of a bank of 2 * h bins, and what a reader of it holds.
LEMMA FeedIs ==
  ASSUME NEW g, NEW l, NEW h, Service(g, l, h)
  PROVE  /\ MaxFrames \in Nat \ {0} /\ MaxIn > 0 /\ MaxFrames * Bins <= BlockCapacity
         /\ (MaxFrames + g - 1) \div g <= ((BlockCapacity \div Bins) \div g) + 16
<1> DEFINE room == BlockCapacity \div Bins  kept == 4 * ((room - 2) \div 4)
<1>1. h \in 1 .. 10 /\ g \in {1, 2} /\ Bins = 2 * h /\ HalfBins = h
  BY DEF Service
<1>2. room \in Nat /\ room >= 13107 /\ room * Bins <= BlockCapacity
  <2>1. h \in {1, 2, 3, 4, 5, 6, 7, 8, 9, 10}
    BY <1>1
  <2>2. QED BY <1>1, <2>1 DEF BlockCapacity
<1> HIDE DEF room
<1>3. kept \in Nat \ {0} /\ kept <= room - 2 /\ kept >= 4
  BY <1>2
<1>4. MaxFrames = kept
  <2>1. MaxFrames = Max({4 * ((IF room > 2 THEN room - 2 ELSE 1) \div 4), 4})
    BY DEF MaxFrames, room
  <2>2. (IF room > 2 THEN room - 2 ELSE 1) = room - 2
    BY <1>2
  <2>3. MaxFrames = Max({kept, 4})
    BY <2>1, <2>2
  <2> HIDE DEF kept
  <2>4. QED BY <1>3, <2>3, MaxTwo
<1> HIDE DEF kept
<1>5. MaxFrames * Bins <= BlockCapacity
  <2>1. kept * Bins <= room * Bins
    <3>1. h \in {1, 2, 3, 4, 5, 6, 7, 8, 9, 10}
      BY <1>1
    <3>2. QED BY <1>1, <1>2, <1>3, <3>1
  <2>2. kept * Bins \in Int /\ room * Bins \in Int /\ BlockCapacity \in Int
    BY <1>1, <1>2, <1>3 DEF BlockCapacity
  <2>3. QED BY <1>2, <1>4, <2>1, <2>2
<1>6. MaxIn > 0
  <2>1. kept * h > 0
    BY <1>1, <1>3, Z3
  <2>2. QED BY <1>1, <1>4, <2>1 DEF MaxIn
<1>7. (kept + g - 1) \div g <= (room \div g) + 16
  <2>1. CASE g = 1 BY <1>2, <1>3, <2>1
  <2>2. CASE g = 2 BY <1>2, <1>3, <2>2
  <2>3. QED BY <1>1, <2>1, <2>2
<1>8. QED BY <1>3, <1>4, <1>5, <1>6, <1>7 DEF room

LEMMA FedInFull ==
  ASSUME LaidOut, mode \in {"ble", "bredr", "hybrid"},
         NEW p \in Protocols, Enabled(p)
  PROVE  /\ tuned.rate = 2 * Decimation(p)
         /\ MaxIn > 0 /\ MaxFrames * Bins <= BlockCapacity
         /\ (MaxFrames + Stride(p) - 1) \div Stride(p) <= ViewCap(p)
<1>1. PICK g, l, h : Service(g, l, h) /\ (mode # "ble" => g = 1)
  BY ServiceIs
<1>2. /\ g \in {1, 2} /\ l \in 1 .. 4 /\ h \in 1 .. 10 /\ ServiceGrid = g /\ Lanes = l
      /\ HalfBins = h /\ tuned.rate = l * (2 * g * h)
  BY <1>1 DEF Service
<1>3. Stride(p) = g
  BY <1>1, <1>2 DEF Stride, Enabled, Protocols
<1>4. tuned.rate = 2 * Decimation(p)
  <2>1. Decimation(p) = l * h * g
    BY <1>2, <1>3 DEF Decimation
  <2>2. l * (2 * g * h) = 2 * (l * h * g)
    <3>1. CASE g = 1
      BY <1>2, <3>1, Z3
    <3>2. CASE g = 2
      BY <1>2, <3>2, Z3
    <3>3. QED BY <1>2, <3>1, <3>2
  <2>3. QED BY <1>2, <2>1, <2>2
<1>5. ViewCap(p) = ((BlockCapacity \div Bins) \div g) + 16
  BY <1>3 DEF ViewCap
<1>6. QED BY <1>1, <1>3, <1>4, <1>5, FeedIs

\* A window session_tune accepts is one the service delivers: every channel
\* asked for has a lane and a bin of its own centred on it, each demodulator
\* gets its two samples per microsecond and each reader holds what a feed makes
\* (session_tune, svc_build_descriptors, channelizer_service_create).
THEOREM TunedIsDelivered == TuningSpec => []TuningDelivers
<1>1. TunedRight => TuningDelivers
  <2>1. SUFFICES ASSUME TunedRight PROVE WindowIsServed /\ ReadersGetEverything
    BY DEF TuningDelivers
  <2>2. mode \in {"ble", "bredr", "hybrid"} /\ status # "failed"
    BY <2>1 DEF TunedRight
  <2>3. WindowIsServed
    <3>1. CASE status = "open"
      <4>1. LaidOut
        BY <2>1, <3>1 DEF TunedRight
      <4>2. QED BY <2>2, <4>1, ServedInFull DEF WindowIsServed
    <3>2. CASE status # "open"
      BY <2>2, <3>2 DEF WindowIsServed
    <3>3. QED BY <3>1, <3>2
  <2>4. ReadersGetEverything
    <3>1. SUFFICES ASSUME status = "open", NEW p \in Protocols, Enabled(p)
                   PROVE  /\ tuned.rate = 2 * Decimation(p)
                          /\ MaxIn > 0 /\ MaxFrames * Bins <= BlockCapacity
                          /\ (MaxFrames + Stride(p) - 1) \div Stride(p) <= ViewCap(p)
      BY DEF ReadersGetEverything
    <3>2. LaidOut
      BY <2>1, <3>1 DEF TunedRight
    <3>3. QED BY <2>2, <3>1, <3>2, FedInFull
  <2>5. QED BY <2>3, <2>4
<1>2. QED BY <1>1, TuningStart, TuningStep, PTL DEF TuningSpec

-----------------------------------------------------------------------------
(* What the graphical front end offers *)

\* The rates of the program's radios, 20 and 80 MHz, are of these.  At 79 MHz
\* the whole band would be offered and its capture at 80 MHz refused.
RatesFit == \A d \in DOMAIN MaxRate : MaxRate[d] >= 4 /\ MaxRate[d] # 79

LEMMA SomePlans == Planned(4, 2) /\ Planned(4, 1) /\ Planned(2, 1) /\ Planned(80, 1)
<1>1. LanesFor(4) = 1 /\ LanesFor(2) = 1 /\ LanesFor(80) = 4
  BY DEF LanesFor, LaneRate
<1>2. BinsFor(4, 2) = 2 /\ BinsFor(4, 1) = 4 /\ BinsFor(2, 1) = 2 /\ BinsFor(80, 1) = 20
  BY <1>1 DEF BinsFor
<1>3. QED BY <1>1, <1>2 DEF Planned, MaxLanes

\* Whether a BLE window can be tuned depends on how many channels it has, not
\* where they are.
LEMMA BleValid ==
  ASSUME NEW d, NEW b \in Nat, NEW c \in 1 .. 40, b + c <= 40,
         ValidateLayout(d, "ble", "ble", 0, c)
  PROVE  ValidateLayout(d, "ble", "ble", b, c)
<1>1. \A x \in Nat : x + c <= 40 =>
        /\ LayoutRate("ble", "ble", x, c) = Laid(2 * (2401 + 2 * x + c), 2 * c)
        /\ LayoutRate("ble", "ble", x, c).ok
        /\ Floored(LayoutRate("ble", "ble", x, c)).rate = IF 2 * c < 4 THEN 4 ELSE 2 * c
  <2>1. ASSUME NEW x \in Nat, x + c <= 40
        PROVE  LayoutRate("ble", "ble", x, c) = Laid(2 * (2401 + 2 * x + c), 2 * c)
    BY <2>1 DEF LayoutRate, Hybrid, BleLayout, BleChannels
  <2>2. QED BY <2>1 DEF Laid, Floored
<1>2. LayoutCheck(d, "ble", IF 2 * c < 4 THEN 4 ELSE 2 * c)
  BY <1>1 DEF ValidateLayout
<1>3. QED BY <1>1, <1>2 DEF ValidateLayout

LEMMA OneBleValid ==
  ASSUME NEW d \in DOMAIN MaxRate, MaxRate[d] \in 4 .. 80
  PROVE  ValidateLayout(d, "ble", "ble", 0, 1)
<1>1. LayoutRate("ble", "ble", 0, 1) = Laid(4804, 2)
  BY DEF LayoutRate, Hybrid, BleLayout, BleChannels
<1>2. LayoutRate("ble", "ble", 0, 1).ok /\ Floored(LayoutRate("ble", "ble", 0, 1)).rate = 4
  BY <1>1 DEF Laid, Floored
<1>3. LayoutCheck(d, "ble", 4)
  BY SomePlans DEF LayoutCheck, ValidSampleRate, DesiredGrid
<1>4. QED BY <1>2, <1>3 DEF ValidateLayout

LEMMA BleOffered ==
  ASSUME NEW d \in DOMAIN MaxRate, MaxRate[d] \in 4 .. 80, NEW b \in Nat, NEW c \in Nat,
         Offered(d, "ble", b, c)
  PROVE  /\ Clamped("ble", b, c).bottom = b /\ Clamped("ble", b, c).count = c
         /\ ValidateLayout(d, "ble", "ble", b, c)
<1> DEFINE half == Max({MaxRate[d] \div 2, 1})  top == Min({half, 40})
           S == {1} \cup {k \in 1 .. top : ValidateLayout(d, "ble", "ble", 0, k)}
<1>1. DefaultBleCount(d) \in 1 .. 40 /\ ValidateLayout(d, "ble", "ble", 0, DefaultBleCount(d))
  <2>1. MaxRate[d] \div 2 \in Nat /\ half \in Nat
    BY MaxTwo
  <2> HIDE DEF half
  <2>2. top \in Nat /\ top <= 40
    BY <2>1, MinTwo
  <2>3. DefaultBleCount(d) = Max(S)
    BY DEF DefaultBleCount, BleChannels, half
  <2> HIDE DEF top
  <2>4. S \in SUBSET (0 .. 80) /\ S # {} /\ S \subseteq 1 .. 40
    BY <2>2
  <2>5. Max(S) \in S
    BY <2>4, MaxIs
  <2>6. QED BY <2>3, <2>4, <2>5, OneBleValid
<1>2. c \in 1 .. 40 /\ ValidateLayout(d, "ble", "ble", 0, c) /\ b + c <= 40
  <2>1. c \in SupportedCounts(d, "ble") \cup {DefaultBleCount(d)} /\ b <= 40 - c
    BY DEF Offered, MaxCount, DefaultCount, BleChannels
  <2>2. c \in 1 .. 40 /\ ValidateLayout(d, "ble", "ble", 0, c)
    BY <1>1, <2>1 DEF SupportedCounts, BleChannels
  <2>3. QED BY <2>1, <2>2
<1>3. Clamped("ble", b, c).bottom = b /\ Clamped("ble", b, c).count = c
  <2>1. Max({c, 1}) = c
    BY <1>2, MaxTwo
  <2>2. Min({c, 40}) = c
    BY <1>2, MinTwo
  <2>3. Min({b, 39}) = b
    BY <1>2, MinTwo
  <2>4. Min({c, 40 - b}) = c
    BY <1>2, MinTwo
  <2>5. Clamped("ble", b, c) = [bottom |-> b, count |-> c]
    BY <2>1, <2>2, <2>3, <2>4 DEF Clamped, ClampedBle, BleChannels
  <2>6. QED BY <2>5
<1>4. QED BY <1>2, <1>3, BleValid

\* The rate a number of BR/EDR channels is captured at.
BredrRate(c) == IF c = 79 THEN 80 ELSE IF c < 4 THEN 4 ELSE c

LEMMA BredrValid ==
  ASSUME NEW d, NEW m \in {"bredr", "hybrid"}, NEW b \in Nat, NEW c \in 1 .. 79, b + c <= 79
  PROVE  ValidateLayout(d, m, "bredr", b, c)
           <=> ValidSampleRate(BredrRate(c), 1) /\ BredrRate(c) <= MaxRate[d]
<1> DEFINE layout == LayoutRate(m, "bredr", b, c)
<1>1. layout = IF c = 79 THEN Laid(4882, 80) ELSE Laid(2 * (2402 + b) + c - 1, c)
  BY DEF LayoutRate, Hybrid, BredrLayout, BredrChannels
<1> HIDE DEF layout
<1>2. layout.ok /\ Floored(layout).rate = BredrRate(c)
  <2>1. CASE c = 79 BY <1>1, <2>1 DEF Laid, Floored, BredrRate
  <2>2. CASE c # 79 BY <1>1, <2>2 DEF Laid, Floored, BredrRate
  <2>3. QED BY <2>1, <2>2
<1>3. QED BY <1>2 DEF ValidateLayout, LayoutCheck, DesiredGrid, layout

\* A count the planner can split is tuned by every radio fast enough.
LEMMA CountValid ==
  ASSUME NEW c \in 0 .. 79, ValidBredrCount(c)
  PROVE  c \in 2 .. 79 /\ (c = 79 \/ c % 2 = 0) /\ ValidSampleRate(BredrRate(c), 1)
<1>1. CASE c = 79
  BY <1>1, SomePlans DEF BredrRate, ValidSampleRate
<1>2. CASE c # 79
  <2>1. c \in 2 .. 78 /\ c % 2 = 0 /\ Planned(c, 1)
    BY <1>2 DEF ValidBredrCount, BredrChannels
  <2>2. CASE c < 4
    BY <2>1, <2>2, SomePlans DEF BredrRate, ValidSampleRate
  <2>3. CASE ~(c < 4)
    BY <1>2, <2>1, <2>3 DEF BredrRate, ValidSampleRate
  <2>4. QED BY <2>1, <2>2, <2>3
<1>3. QED BY <1>1, <1>2

\* The most channels a radio can be asked for are a count it can tune.
LEMMA SnapTunes ==
  ASSUME NEW k \in Nat, NEW r \in Nat, 4 <= k, k <= r, k >= 79 => r = 80
  PROVE  /\ SnapBredrCount(k) \in 2 .. 79 /\ ValidBredrCount(SnapBredrCount(k))
         /\ BredrRate(SnapBredrCount(k)) <= r
<1> DEFINE c == SnapBredrCount(k)
<1>1. /\ c \in 0 .. 79 /\ (c = 0 \/ (ValidBredrCount(c) /\ c <= k))
      /\ \A x \in 0 .. 79 : x <= k /\ ValidBredrCount(x) => x <= c
  BY SnapIs
<1>2. ValidBredrCount(4) /\ 4 \in 0 .. 79 /\ 4 <= k
  BY SomePlans DEF ValidBredrCount, BredrChannels
<1>3. c >= 4 /\ ValidBredrCount(c)
  BY <1>1, <1>2
<1> HIDE DEF c
<1>4. BredrRate(c) <= r
  <2>1. CASE c = 79
    BY <1>1, <1>3, <2>1 DEF BredrRate
  <2>2. CASE c # 79
    BY <1>1, <1>3, <2>2 DEF BredrRate
  <2>3. QED BY <2>1, <2>2
<1>5. QED BY <1>1, <1>3, <1>4 DEF c

LEMMA BredrOffered ==
  ASSUME NEW d \in DOMAIN MaxRate, MaxRate[d] \in 4 .. 80, MaxRate[d] # 79,
         NEW m \in {"bredr", "hybrid"}, NEW b \in Nat, NEW c \in Nat, Offered(d, m, b, c)
  PROVE  /\ Clamped(m, b, c).bottom = b /\ Clamped(m, b, c).count = c
         /\ ValidateLayout(d, m, "bredr", b, c)
<1>1. c \in 2 .. 79 /\ ValidBredrCount(c) /\ BredrRate(c) <= MaxRate[d] /\ b + c <= 79
  <2>1. /\ \/ c \in SupportedCounts(d, m)
           \/ c = AtLeastTwo(SnapBredrCount(Min({MaxRate[d], 79})))
           \/ c = SnapBredrCount(MaxRate[d])
        /\ b <= 79 - c
    BY DEF Offered, MaxCount, DefaultCount, DefaultBredrCount, BredrChannels
  <2>2. CASE c \in SupportedCounts(d, m)
    <3>1. /\ c \in 2 .. 79 /\ (c % 2 = 0 \/ c = 79)
          /\ ValidateLayout(d, "hybrid", "bredr", 0, c)
      BY <2>2 DEF SupportedCounts, BredrChannels
    <3>2. ValidSampleRate(BredrRate(c), 1) /\ BredrRate(c) <= MaxRate[d]
      BY <3>1, BredrValid
    <3>3. ValidBredrCount(c)
      <4>1. CASE c = 79
        BY <4>1, SomePlans DEF ValidBredrCount, BredrChannels
      <4>2. CASE c # 79 /\ c < 4
        <5>1. c = 2
          BY <3>1, <4>2
        <5>2. QED BY <5>1, SomePlans DEF ValidBredrCount, BredrChannels
      <4>3. CASE c # 79 /\ ~(c < 4)
        <5>1. Planned(c, 1)
          BY <3>2, <4>3 DEF BredrRate, ValidSampleRate
        <5>2. QED BY <3>1, <4>3, <5>1 DEF ValidBredrCount, BredrChannels
      <4>4. QED BY <4>1, <4>2, <4>3
    <3>4. QED BY <2>1, <3>1, <3>2, <3>3
  <2>3. CASE c = AtLeastTwo(SnapBredrCount(Min({MaxRate[d], 79})))
    <3>1. Min({MaxRate[d], 79}) = IF MaxRate[d] <= 79 THEN MaxRate[d] ELSE 79
      <4>1. MaxRate[d] \in Int /\ 79 \in Int
        OBVIOUS
      <4>2. QED BY <4>1, MinTwo
    <3>2. PICK k \in Nat : /\ k = Min({MaxRate[d], 79})
                           /\ (k = MaxRate[d] \/ (k = 79 /\ MaxRate[d] = 80))
      <4>1. CASE MaxRate[d] <= 79
        BY <3>1, <4>1
      <4>2. CASE ~(MaxRate[d] <= 79)
        <5>1. MaxRate[d] = 80
          BY <4>2
        <5>2. QED BY <3>1, <4>2, <5>1
      <4>3. QED BY <4>1, <4>2
    <3>3. MaxRate[d] \in Nat /\ 4 <= k /\ k <= MaxRate[d]
          /\ (k >= 79 => MaxRate[d] = 80)
      <4>1. MaxRate[d] \in Nat /\ 4 <= MaxRate[d] /\ MaxRate[d] <= 80 /\ MaxRate[d] # 79
        OBVIOUS
      <4>2. PICK r \in Nat : r = MaxRate[d]
        BY <4>1
      <4>3. k <= 79
        BY <3>1, <3>2, <4>1
      <4>4. (k = r \/ (k = 79 /\ r = 80)) /\ 4 <= r /\ r # 79
        BY <3>2, <4>1, <4>2
      <4>5. 4 <= k /\ k <= r /\ (k >= 79 => r = 80)
        BY <4>3, <4>4
      <4>6. QED BY <4>2, <4>3, <4>5
    <3>4. /\ SnapBredrCount(k) \in 2 .. 79 /\ ValidBredrCount(SnapBredrCount(k))
          /\ BredrRate(SnapBredrCount(k)) <= MaxRate[d]
      BY <3>3, SnapTunes
    <3>5. c = SnapBredrCount(k)
      BY <2>3, <3>2, <3>4 DEF AtLeastTwo
    <3>6. QED BY <2>1, <3>4, <3>5
  <2>4. CASE c = SnapBredrCount(MaxRate[d])
    <3>1. PICK k \in Nat : k = MaxRate[d]
      OBVIOUS
    <3>2. /\ MaxRate[d] \in Nat /\ 4 <= k /\ k <= MaxRate[d]
          /\ (k >= 79 => MaxRate[d] = 80)
      BY <3>1
    <3>3. /\ SnapBredrCount(k) \in 2 .. 79 /\ ValidBredrCount(SnapBredrCount(k))
          /\ BredrRate(SnapBredrCount(k)) <= MaxRate[d]
      BY <3>2, SnapTunes
    <3>4. QED BY <2>1, <2>4, <3>1, <3>3
  <2>5. QED BY <2>1, <2>2, <2>3, <2>4
<1>2. (c = 79 \/ c % 2 = 0) /\ ValidSampleRate(BredrRate(c), 1)
  BY <1>1, CountValid
<1>3. Clamped(m, b, c) = [bottom |-> b, count |-> c]
  <2> DEFINE even == IF c = 79 THEN c ELSE 2 * (c \div 2)
  <2>1. even = c
    BY <1>1, <1>2
  <2>2. AtLeastTwo(c) = c
    BY <1>1 DEF AtLeastTwo
  <2>3. Min({c, 79}) = c
    BY <1>1, MinTwo
  <2>4. SnapBredrCount(c) = c
    BY <1>1, SnapKeeps
  <2>5. Min({b, 79 - c}) = b
    BY <1>1, MinTwo
  <2>6. ClampedBredr(b, c) =
          LET k == AtLeastTwo(SnapBredrCount(Min({AtLeastTwo(even), 79}))) IN
          [bottom |-> Min({b, 79 - k}), count |-> k]
    BY DEF ClampedBredr, BredrChannels
  <2> HIDE DEF even
  <2>7. QED BY <2>1, <2>2, <2>3, <2>4, <2>5, <2>6 DEF Clamped
<1>4. ValidateLayout(d, m, "bredr", b, c)
  BY <1>1, <1>2, BredrValid
<1>5. QED BY <1>3, <1>4

OfferedKept ==
  /\ device \in DOMAIN MaxRate /\ mode \in {"ble", "bredr", "hybrid"}
  /\ OfferedIsAccepted

LEMMA OfferedStep ==
  ASSUME RatesFit
  PROVE  OfferedKept /\ [TuningNext]_tuningVars => OfferedKept'
<1> SUFFICES ASSUME OfferedKept, [TuningNext]_tuningVars PROVE OfferedKept'
  OBVIOUS
<1>1. CASE CliTune
  BY <1>1 DEF CliTune, Tune, OfferedKept, OfferedIsAccepted
<1>2. CASE GuiTune
  <2>1. PICK bottom \in 0 .. 78, count \in AskedCounts :
          /\ Tune(RefOf(mode), Clamped(mode, bottom, count).bottom,
                  Clamped(mode, bottom, count).count)
          /\ offered' = Offered(device, mode, bottom, count)
    BY <1>2 DEF GuiTune, BredrChannels
  <2>2. bottom \in Nat /\ count \in Nat /\ MaxRate[device] \in 4 .. 80 /\ MaxRate[device] # 79
    BY TuningAssumption DEF OfferedKept, RatesFit
  <2>3. ASSUME Offered(device, mode, bottom, count) PROVE status' = "tuned"
    <3>1. /\ Clamped(mode, bottom, count).bottom = bottom
          /\ Clamped(mode, bottom, count).count = count
          /\ ValidateLayout(device, mode, RefOf(mode), bottom, count)
      <4>1. CASE mode = "ble"
        BY <2>2, <2>3, <4>1, BleOffered DEF OfferedKept, RefOf
      <4>2. CASE mode \in {"bredr", "hybrid"}
        BY <2>2, <2>3, <4>2, BredrOffered DEF OfferedKept, RefOf
      <4>3. QED BY <4>1, <4>2 DEF OfferedKept
    <3>2. Tune(RefOf(mode), bottom, count)
      BY <2>1, <3>1
    <3>3. QED BY <3>1, <3>2 DEF Tune, ValidateLayout
  <2>4. device' = device /\ mode' = mode
    BY <2>1 DEF Tune
  <2>5. QED BY <2>1, <2>3, <2>4 DEF OfferedKept, OfferedIsAccepted
<1>3. CASE OpenChannels
  BY <1>3 DEF OpenChannels, OfferedKept, OfferedIsAccepted
<1>4. CASE UNCHANGED tuningVars
  BY <1>4 DEF tuningVars, OfferedKept, OfferedIsAccepted
<1>5. QED BY <1>1, <1>2, <1>3, <1>4 DEF TuningNext

\* A window the spectrum view lets the user choose is never refused, whatever
\* the radio and the protocols: the counts it lists, its default and its maximum
\* all pass session_tune at every bottom they are offered at.
THEOREM OfferedTunes ==
  ASSUME RatesFit
  PROVE  TuningSpec => []OfferedIsAccepted
<1>1. TuningInit => OfferedKept
  BY DEF TuningInit, OfferedKept, OfferedIsAccepted
<1>2. OfferedKept => OfferedIsAccepted
  BY DEF OfferedKept
<1>3. OfferedKept /\ [TuningNext]_tuningVars => OfferedKept'
  BY OfferedStep
<1>4. QED BY <1>1, <1>2, <1>3, PTL DEF TuningSpec

-----------------------------------------------------------------------------
(* Breaks in what a lane has under way *)

\* Where a sequence of sample indices skips.
Breaks(s) == {i \in 1 .. Len(s) - 1 : s[i + 1] # s[i] + 1}

LEMMA BreaksCounted ==
  ASSUME NEW s \in Seq(Int)
  PROVE  IsFiniteSet(Breaks(s)) /\ Cardinality(Breaks(s)) \in Nat
<1>1. Len(s) - 1 \in Int
  OBVIOUS
<1>2. IsFiniteSet(1 .. Len(s) - 1) /\ Breaks(s) \in SUBSET (1 .. Len(s) - 1)
  BY <1>1, FS_Interval DEF Breaks
<1>3. QED BY <1>2, FS_Subset, FS_CardinalityType

\* A sequence put together from two.
Cat(u, v) == u \o v
Joins(c, u, v) ==
  /\ c \in Seq(Int) /\ Len(c) = Len(u) + Len(v)
  /\ Len(u) \in Nat /\ Len(v) \in Nat
  /\ \A i \in 1 .. Len(u) : c[i] = u[i] /\ u[i] \in Int
  /\ \A i \in 1 .. Len(v) : c[Len(u) + i] = v[i] /\ v[i] \in Int

LEMMA CatJoins ==
  ASSUME NEW u \in Seq(Int), NEW v \in Seq(Int)
  PROVE  Joins(Cat(u, v), u, v)
BY DEF Joins, Cat

\* Samples that go on where the sequence ends add no break.
Goes(u, r, p, d, e) ==
  /\ u \in Seq(Int) /\ r \in Seq(Int) /\ p \in Int
  /\ \A i \in 1 .. Len(r) : r[i] = p + i - 1
  /\ d \in Seq(Int) /\ Len(d) = 1 /\ d[1] = p
  /\ e \in Seq(Int) /\ Len(e) = 1 /\ e[1] = p + Len(r)

LEMMA RunAddsNoBreak ==
  ASSUME NEW u, NEW r, NEW p, NEW d, NEW e, Goes(u, r, p, d, e),
         NEW ur, Joins(ur, u, r), NEW s, Joins(s, ur, e), NEW t, Joins(t, u, d)
  PROVE  Breaks(s) = Breaks(t)
<1> /\ u \in Seq(Int) /\ r \in Seq(Int) /\ p \in Int
    /\ \A i \in 1 .. Len(r) : r[i] = p + i - 1
    /\ d \in Seq(Int) /\ Len(d) = 1 /\ d[1] = p
    /\ e \in Seq(Int) /\ Len(e) = 1 /\ e[1] = p + Len(r)
  BY DEF Goes
<1>1. /\ ur \in Seq(Int) /\ Len(ur) = Len(u) + Len(r) /\ Len(u) \in Nat /\ Len(r) \in Nat
      /\ \A i \in 1 .. Len(u) : ur[i] = u[i] /\ u[i] \in Int
      /\ \A i \in 1 .. Len(r) : ur[Len(u) + i] = r[i]
  BY DEF Joins
<1>2. /\ Len(s) = Len(ur) + 1
      /\ \A i \in 1 .. Len(ur) : s[i] = ur[i]
      /\ s[Len(ur) + 1] = p + Len(r)
  <2>1. /\ Len(s) = Len(ur) + 1 /\ \A i \in 1 .. Len(ur) : s[i] = ur[i]
        /\ \A i \in 1 .. 1 : s[Len(ur) + i] = e[i]
    BY DEF Joins
  <2>2. 1 \in 1 .. 1
    OBVIOUS
  <2>3. s[Len(ur) + 1] = e[1]
    BY <2>1, <2>2
  <2>4. QED BY <2>1, <2>3
<1>3. /\ Len(t) = Len(u) + 1
      /\ \A i \in 1 .. Len(u) : t[i] = u[i]
      /\ t[Len(u) + 1] = p
  BY DEF Joins
<1>4. \A i \in 1 .. Len(u) : s[i] = u[i]
  BY <1>1, <1>2
<1>5. ASSUME NEW i \in 1 .. Len(r) + 1 PROVE s[Len(u) + i] = p + i - 1
  <2>1. CASE i = Len(r) + 1
    BY <1>1, <1>2, <2>1
  <2>2. CASE i \in 1 .. Len(r)
    <3>1. s[Len(u) + i] = ur[Len(u) + i]
      <4>1. Len(u) + i \in 1 .. Len(ur)
        BY <1>1, <2>2
      <4>2. QED BY <1>2, <4>1
    <3>2. QED BY <1>1, <2>2, <3>1
  <2>3. Len(r) \in Nat
    BY <1>1
  <2>4. i = Len(r) + 1 \/ i \in 1 .. Len(r)
    BY <2>3
  <2>5. QED BY <2>1, <2>2, <2>4
<1>9. s[Len(u) + 1] = p
  <2>1. 1 \in 1 .. Len(r) + 1 /\ p + 1 - 1 = p
    BY <1>1
  <2>2. QED BY <1>5, <2>1
<1>6. ASSUME NEW i \in Breaks(s) PROVE i \in Breaks(t)
  <2>1. i \in 1 .. Len(u) + Len(r) /\ s[i + 1] # s[i] + 1
    BY <1>1, <1>2 DEF Breaks
  <2>2. CASE i < Len(u)
    <3>1. i \in 1 .. Len(u) /\ i + 1 \in 1 .. Len(u) /\ i \in 1 .. Len(t) - 1
      <4>1. Len(u) \in Nat /\ Len(r) \in Nat /\ Len(t) = Len(u) + 1 /\ i \in 1 .. Len(u) + Len(r)
        BY <1>1, <1>3, <2>1
      <4>2. QED BY <2>2, <4>1
    <3>2. t[i] = s[i] /\ t[i + 1] = s[i + 1]
      BY <1>3, <1>4, <3>1
    <3>3. QED BY <2>1, <3>1, <3>2 DEF Breaks
  <2>3. CASE i = Len(u)
    <3>1. s[i] = u[i] /\ t[i] = u[i]
      BY <1>1, <1>3, <1>4, <2>1, <2>3
    <3>2. s[i + 1] = p /\ t[i + 1] = p
      BY <1>3, <1>9, <2>3
    <3>3. QED BY <1>1, <1>3, <2>1, <2>3, <3>1, <3>2 DEF Breaks
  <2>4. CASE i > Len(u)
    <3>1. PICK j \in 1 .. Len(r) : i = Len(u) + j
      <4>1. i - Len(u) \in 1 .. Len(r) /\ i = Len(u) + (i - Len(u))
        BY <1>1, <2>1, <2>4
      <4>2. QED BY <4>1
    <3>2. s[i] = p + j - 1 /\ s[i + 1] = p + (j + 1) - 1
      <4>1. i + 1 = Len(u) + (j + 1) /\ j + 1 \in 1 .. Len(r) + 1 /\ j \in 1 .. Len(r) + 1
        BY <1>1, <3>1
      <4>2. QED BY <1>5, <3>1, <4>1
    <3>3. QED BY <1>1, <2>1, <3>1, <3>2
  <2>5. QED BY <1>1, <2>1, <2>2, <2>3, <2>4
<1>7. ASSUME NEW i \in Breaks(t) PROVE i \in Breaks(s)
  <2>1. i \in 1 .. Len(u) /\ t[i + 1] # t[i] + 1
    BY <1>1, <1>3 DEF Breaks
  <2>2. CASE i < Len(u)
    <3>1. i \in 1 .. Len(u) /\ i + 1 \in 1 .. Len(u) /\ i \in 1 .. Len(s) - 1
      BY <1>1, <1>2, <2>1, <2>2
    <3>2. t[i] = s[i] /\ t[i + 1] = s[i + 1]
      BY <1>3, <1>4, <3>1
    <3>3. QED BY <2>1, <3>1, <3>2 DEF Breaks
  <2>3. CASE i = Len(u)
    <3>1. s[i] = u[i] /\ t[i] = u[i]
      BY <1>1, <1>3, <1>4, <2>1, <2>3
    <3>2. s[i + 1] = p /\ t[i + 1] = p
      BY <1>3, <1>9, <2>3
    <3>3. QED BY <1>1, <1>2, <2>1, <2>3, <3>1, <3>2 DEF Breaks
  <2>4. QED BY <1>1, <2>1, <2>2, <2>3
<1>8. QED BY <1>6, <1>7

\* An end that moves makes at most one.
LEMMA JumpBreaksOnce ==
  ASSUME NEW u \in Seq(Int), NEW d \in Seq(Int), Len(d) = 1, NEW e \in Seq(Int), Len(e) = 1,
         NEW s, Joins(s, u, e), NEW t, Joins(t, u, d)
  PROVE  Cardinality(Breaks(s)) <= Cardinality(Breaks(t)) + 1
<1>1. /\ s \in Seq(Int) /\ t \in Seq(Int) /\ Len(s) = Len(u) + 1 /\ Len(t) = Len(u) + 1
      /\ Len(u) \in Nat
      /\ \A i \in 1 .. Len(u) : s[i] = u[i] /\ t[i] = u[i]
  BY DEF Joins
<1>2. Breaks(s) \subseteq Breaks(t) \cup {Len(u)}
  <2> SUFFICES ASSUME NEW i \in Breaks(s), i # Len(u) PROVE i \in Breaks(t)
    OBVIOUS
  <2>1. i \in 1 .. Len(s) - 1 /\ s[i + 1] # s[i] + 1
    BY DEF Breaks
  <2>2. i \in 1 .. Len(u) /\ i + 1 \in 1 .. Len(u) /\ i \in 1 .. Len(t) - 1
    BY <1>1, <2>1
  <2>3. t[i] = s[i] /\ t[i + 1] = s[i + 1]
    BY <1>1, <2>2
  <2>4. QED BY <2>1, <2>2, <2>3 DEF Breaks
<1>3. /\ IsFiniteSet(Breaks(t) \cup {Len(u)})
      /\ Cardinality(Breaks(t) \cup {Len(u)}) <= Cardinality(Breaks(t)) + 1
      /\ Cardinality(Breaks(t)) \in Nat
  <2>1. IsFiniteSet(Breaks(t)) /\ Cardinality(Breaks(t)) \in Nat
    BY <1>1, BreaksCounted
  <2>2. /\ IsFiniteSet(Breaks(t) \cup {Len(u)})
        /\ Cardinality(Breaks(t) \cup {Len(u)}) = Cardinality(Breaks(t))
           \/ Cardinality(Breaks(t) \cup {Len(u)}) = Cardinality(Breaks(t)) + 1
    BY <2>1, FS_AddElement, Zenon
  <2>3. QED BY <2>1, <2>2
<1>4. Cardinality(Breaks(s)) <= Cardinality(Breaks(t) \cup {Len(u)})
  BY <1>2, <1>3, FS_Subset
<1>5. Cardinality(Breaks(s)) \in Nat /\ Cardinality(Breaks(t) \cup {Len(u)}) \in Nat
  BY <1>1, <1>3, BreaksCounted, FS_CardinalityType
<1>6. QED BY <1>3, <1>4, <1>5

\* Nor does what is cut out of the middle make more.
LEMMA CutBreaksOnce ==
  ASSUME NEW u \in Seq(Int), NEW v \in Seq(Int), NEW w \in Seq(Int), w # <<>>,
         NEW s, Joins(s, u, w), NEW uv, Joins(uv, u, v), NEW t, Joins(t, uv, w)
  PROVE  Cardinality(Breaks(s)) <= Cardinality(Breaks(t)) + 1
<1>1. /\ s \in Seq(Int) /\ Len(s) = Len(u) + Len(w)
      /\ Len(u) \in Nat /\ Len(w) \in Nat
      /\ \A i \in 1 .. Len(u) : s[i] = u[i]
      /\ \A i \in 1 .. Len(w) : s[Len(u) + i] = w[i]
  BY DEF Joins
<1>2. /\ uv \in Seq(Int) /\ Len(uv) = Len(u) + Len(v) /\ Len(v) \in Nat
      /\ \A i \in 1 .. Len(u) : uv[i] = u[i]
  BY DEF Joins
<1>3. /\ t \in Seq(Int) /\ Len(t) = Len(uv) + Len(w)
      /\ \A i \in 1 .. Len(uv) : t[i] = uv[i]
      /\ \A i \in 1 .. Len(w) : t[Len(uv) + i] = w[i]
  BY <1>2 DEF Joins
<1> DEFINE f == [i \in Breaks(s) \ {Len(u)} |-> IF i < Len(u) THEN i ELSE i + Len(v)]
<1>5. ASSUME NEW i \in Breaks(s) \ {Len(u)}
      PROVE  f[i] \in Breaks(t)
  <2>1. i \in 1 .. Len(u) + Len(w) - 1 /\ s[i + 1] # s[i] + 1 /\ i # Len(u)
    BY <1>1 DEF Breaks
  <2>2. CASE i < Len(u)
    <3>1. t[i] = s[i] /\ t[i + 1] = s[i + 1] /\ f[i] = i /\ i \in 1 .. Len(t) - 1
      <4>1. /\ i \in 1 .. Len(u) /\ i + 1 \in 1 .. Len(u)
            /\ i \in 1 .. Len(uv) /\ i + 1 \in 1 .. Len(uv) /\ i \in 1 .. Len(t) - 1
        <5>1. /\ Len(u) \in Nat /\ Len(v) \in Nat /\ Len(w) \in Nat
              /\ Len(t) = Len(u) + Len(v) + Len(w) /\ Len(uv) = Len(u) + Len(v)
              /\ i \in 1 .. Len(u) + Len(w) - 1
          BY <1>1, <1>2, <1>3, <2>1
        <5>2. QED BY <2>2, <5>1
      <4>2. /\ t[i] = uv[i] /\ t[i + 1] = uv[i + 1] /\ uv[i] = u[i] /\ uv[i + 1] = u[i + 1]
            /\ s[i] = u[i] /\ s[i + 1] = u[i + 1]
        BY <1>1, <1>2, <1>3, <4>1
      <4>3. QED BY <2>2, <4>1, <4>2
    <3>2. QED BY <2>1, <3>1 DEF Breaks
  <2>3. CASE i > Len(u)
    <3>1. PICK j \in 1 .. Len(w) - 1 : i = Len(u) + j
      <4>1. i - Len(u) \in 1 .. Len(w) - 1 /\ i = Len(u) + (i - Len(u))
        BY <1>1, <2>1, <2>3
      <4>2. QED BY <4>1
    <3>2. s[i] = w[j] /\ s[i + 1] = w[j + 1]
      <4>1. j \in 1 .. Len(w) /\ j + 1 \in 1 .. Len(w) /\ i + 1 = Len(u) + (j + 1)
        BY <1>1, <3>1
      <4>2. QED BY <1>1, <3>1, <4>1
    <3>3. t[i + Len(v)] = w[j] /\ t[i + Len(v) + 1] = w[j + 1]
      <4>1. /\ j \in 1 .. Len(w) /\ j + 1 \in 1 .. Len(w)
            /\ i + Len(v) = Len(uv) + j /\ i + Len(v) + 1 = Len(uv) + (j + 1)
        BY <1>1, <1>2, <3>1
      <4>2. t[Len(uv) + j] = w[j] /\ t[Len(uv) + (j + 1)] = w[j + 1]
        BY <1>3, <4>1
      <4>3. QED BY <4>1, <4>2
    <3>4. f[i] = i + Len(v) /\ i + Len(v) \in 1 .. Len(t) - 1
      <4>1. i + Len(v) \in 1 .. Len(t) - 1 /\ ~ (i < Len(u))
        <5>1. /\ Len(u) \in Nat /\ Len(v) \in Nat /\ Len(w) \in Nat
              /\ Len(t) = Len(u) + Len(v) + Len(w)
              /\ i \in 1 .. Len(u) + Len(w) - 1
          BY <1>1, <1>2, <1>3, <2>1
        <5>2. QED BY <2>3, <5>1
      <4>2. QED BY <4>1
    <3> HIDE DEF f
    <3>5. QED BY <2>1, <3>2, <3>3, <3>4 DEF Breaks
  <2>4. QED BY <1>1, <2>1, <2>2, <2>3
<1>6. ASSUME NEW i \in Breaks(s) \ {Len(u)}, NEW j \in Breaks(s) \ {Len(u)}, f[i] = f[j]
      PROVE  i = j
  <2>1. i \in Int /\ j \in Int /\ i # Len(u) /\ j # Len(u)
    BY DEF Breaks
  <2>2. /\ f[i] = IF i < Len(u) THEN i ELSE i + Len(v)
        /\ f[j] = IF j < Len(u) THEN j ELSE j + Len(v)
    OBVIOUS
  <2> HIDE DEF f
  <2>3. CASE i < Len(u)
    <3>1. f[i] = i
      BY <2>2, <2>3
    <3>2. CASE j < Len(u)
      BY <1>6, <2>2, <3>1, <3>2
    <3>3. CASE ~ (j < Len(u))
      <4>1. i = j + Len(v)
        BY <1>6, <2>2, <3>1, <3>3
      <4>2. QED BY <1>1, <1>2, <2>1, <2>3, <3>3, <4>1
    <3>4. QED BY <3>2, <3>3
  <2>4. CASE ~ (i < Len(u))
    <3>1. f[i] = i + Len(v)
      BY <2>2, <2>4
    <3>2. CASE j < Len(u)
      <4>1. j = i + Len(v)
        BY <1>6, <2>2, <3>1, <3>2
      <4>2. QED BY <1>1, <1>2, <2>1, <2>4, <3>2, <4>1
    <3>3. CASE ~ (j < Len(u))
      <4>1. i + Len(v) = j + Len(v)
        BY <1>6, <2>2, <3>1, <3>3
      <4>2. QED BY <1>2, <2>1, <4>1
    <3>4. QED BY <3>2, <3>3
  <2>5. QED BY <2>3, <2>4
<1>7. f \in Injection(Breaks(s) \ {Len(u)}, Breaks(t))
  <2>1. f \in [Breaks(s) \ {Len(u)} -> Breaks(t)]
    BY <1>5
  <2> HIDE DEF f
  <2>2. QED BY <1>6, <2>1 DEF Injection, IsInjective
<1>8. /\ IsFiniteSet(Breaks(s) \ {Len(u)})
      /\ Cardinality(Breaks(s) \ {Len(u)}) <= Cardinality(Breaks(t))
      /\ Cardinality(Breaks(s) \ {Len(u)}) \in Nat /\ Cardinality(Breaks(t)) \in Nat
  <2>1. IsFiniteSet(Breaks(s)) /\ IsFiniteSet(Breaks(t)) /\ Cardinality(Breaks(t)) \in Nat
    BY <1>1, <1>3, BreaksCounted
  <2>2. IsFiniteSet(Breaks(s) \ {Len(u)})
    BY <2>1, FS_Subset
  <2>3. QED BY <1>7, <2>1, <2>2, FS_Injection, FS_CardinalityType
<1>9. /\ Cardinality(Breaks(s)) <= Cardinality(Breaks(s) \ {Len(u)}) + 1
      /\ Cardinality(Breaks(s)) \in Nat
  <2>1. Breaks(s) \subseteq (Breaks(s) \ {Len(u)}) \cup {Len(u)}
    OBVIOUS
  <2>2. /\ IsFiniteSet((Breaks(s) \ {Len(u)}) \cup {Len(u)})
        /\ Cardinality((Breaks(s) \ {Len(u)}) \cup {Len(u)}) =
             Cardinality(Breaks(s) \ {Len(u)}) + 1
    BY <1>8, FS_AddElement
  <2>3. Cardinality(Breaks(s)) \in Nat
    BY <1>1, BreaksCounted
  <2>4. QED BY <2>1, <2>2, <2>3, FS_Subset
<1>10. QED BY <1>8, <1>9

\* Each frame computed across a loss takes a break out of what is under way.
Spoils(h, r, n, size, frames) ==
  /\ h \in Seq(Int) /\ r \in Seq(Int) /\ n \in Nat /\ size \in Nat \ {0}
  /\ Len(h) = n * size /\ DOMAIN frames = 1 .. n
  /\ \A k \in 1 .. n : /\ Len(frames[k]) = size
                       /\ \A x \in 1 .. size : frames[k][x] = h[(k - 1) * size + x]

LEMMA MixedTakeBreaks ==
  ASSUME NEW h, NEW r, NEW n, NEW size, NEW frames, Spoils(h, r, n, size, frames),
         NEW s, Joins(s, h, r)
  PROVE  /\ Mixed(frames) \in Nat
         /\ Mixed(frames) + Cardinality(Breaks(r)) <= Cardinality(Breaks(s))
<1> /\ h \in Seq(Int) /\ r \in Seq(Int) /\ n \in Nat /\ size \in Nat \ {0}
    /\ Len(h) = n * size /\ DOMAIN frames = 1 .. n
    /\ \A k \in 1 .. n : /\ Len(frames[k]) = size
                         /\ \A x \in 1 .. size : frames[k][x] = h[(k - 1) * size + x]
  BY DEF Spoils
<1> DEFINE M == {k \in DOMAIN frames : ~ Whole(frames[k])}
           At(k) == CHOOSE i \in 1 .. size - 1 : frames[k][i + 1] # frames[k][i] + 1
           f == [k \in M |-> (k - 1) * size + At(k)]
           g == [i \in Breaks(r) |-> i + Len(h)]
           Early == {i \in Breaks(s) : i < Len(h)}
           Late == {i \in Breaks(s) : i > Len(h)}
<1>1. /\ s \in Seq(Int) /\ Len(s) = Len(h) + Len(r)
      /\ Len(h) \in Nat /\ Len(r) \in Nat
      /\ \A i \in 1 .. Len(h) : s[i] = h[i]
      /\ \A i \in 1 .. Len(r) : s[Len(h) + i] = r[i]
  BY DEF Joins
<1>2. IsFiniteSet(Early) /\ IsFiniteSet(Late) /\ Early \cap Late = {}
      /\ Early \cup Late \in SUBSET Breaks(s) /\ IsFiniteSet(Breaks(s))
  <2>1. Early \in SUBSET Breaks(s) /\ Late \in SUBSET Breaks(s)
    OBVIOUS
  <2>2. Early \cap Late = {}
    BY <1>1 DEF Breaks
  <2>3. QED BY <1>1, <2>1, <2>2, BreaksCounted, FS_Subset
<1>3. ASSUME NEW k \in M
      PROVE  /\ At(k) \in 1 .. size - 1
             /\ f[k] = (k - 1) * size + At(k)
             /\ f[k] \in Early
  <2>1. k \in 1 .. n /\ \E i \in 1 .. size - 1 : frames[k][i + 1] # frames[k][i] + 1
    BY DEF Whole
  <2>2. At(k) \in 1 .. size - 1 /\ frames[k][At(k) + 1] # frames[k][At(k)] + 1
    BY <2>1
  <2>3. f[k] = (k - 1) * size + At(k)
    OBVIOUS
  <2> HIDE DEF At
  <2>4. /\ (k - 1) * size \in Nat /\ (k - 1) * size + size <= n * size
    BY <2>1
  <2> DEFINE a == At(k)
             o == (k - 1) * size
  <2>5. frames[k][a] = h[o + a] /\ frames[k][a + 1] = h[o + a + 1]
    <3>1. a \in 1 .. size /\ a + 1 \in 1 .. size
      <4>1. \A x \in 1 .. size - 1 : x \in 1 .. size /\ x + 1 \in 1 .. size
        OBVIOUS
      <4>2. QED BY <2>2, <4>1
    <3>2. frames[k][a] = h[o + a] /\ frames[k][a + 1] = h[o + (a + 1)]
      BY <2>1, <3>1
    <3>3. o + (a + 1) = o + a + 1
      BY <2>4, <3>1
    <3>4. QED BY <3>2, <3>3
  <2>6. o + a \in 1 .. Len(h) - 1 /\ o + a + 1 \in 1 .. Len(h)
    <3>1. /\ Len(h) \in Nat /\ o \in Nat /\ o + size <= Len(h)
          /\ a \in 1 .. size - 1 /\ size \in Nat
      BY <1>1, <2>2, <2>4
    <3> HIDE DEF o, a
    <3>2. QED BY <3>1
  <2>7. s[o + a] = h[o + a] /\ s[o + a + 1] = h[o + a + 1]
    <3> HIDE DEF o, a
    <3>1. o + a \in 1 .. Len(h) /\ o + a + 1 \in 1 .. Len(h)
      <4>1. Len(h) \in Nat
        BY <1>1
      <4>2. QED BY <2>6, <4>1
    <3>2. \A x \in 1 .. Len(h) : s[x] = h[x]
      BY <1>1
    <3>3. QED BY <3>1, <3>2
  <2>8. o + a \in Breaks(s) /\ o + a < Len(h)
    <3> HIDE DEF o, a
    <3>1. o + a \in 1 .. Len(s) - 1 /\ o + a < Len(h)
      <4>1. /\ Len(h) \in Nat /\ Len(r) \in Nat /\ Len(s) = Len(h) + Len(r)
            /\ o + a \in 1 .. Len(h) - 1
        BY <1>1, <2>6
      <4>2. QED BY <4>1
    <3>2. s[o + a + 1] # s[o + a] + 1
      BY <2>2, <2>5, <2>7 DEF a
    <3>3. QED BY <3>1, <3>2 DEF Breaks
  <2>9. QED BY <2>2, <2>3, <2>8
<1>4. ASSUME NEW k \in M, NEW l \in M, f[k] = f[l]
      PROVE  k = l
  <2>1. /\ At(k) \in 1 .. size - 1 /\ f[k] = (k - 1) * size + At(k)
        /\ At(l) \in 1 .. size - 1 /\ f[l] = (l - 1) * size + At(l)
    BY <1>3
  <2>2. k \in Int /\ l \in Int
    OBVIOUS
  <2> HIDE DEF f, At
  <2>3. CASE k < l
    <3>1. (l - 1) * size >= (k - 1) * size + size
      BY <2>2, <2>3
    <3>2. (k - 1) * size \in Int /\ (l - 1) * size \in Int /\ At(k) \in Int /\ At(l) \in Int
      BY <2>1, <2>2
    <3>5. (k - 1) * size + At(k) = (l - 1) * size + At(l)
      BY <1>4, <2>1, Zenon
    <3>3. At(k) < size /\ At(l) > 0
      <4>1. \A x \in 1 .. size - 1 : x < size /\ x > 0
        OBVIOUS
      <4>2. QED BY <2>1, <4>1
    <3>6. PICK x \in Int : x = (k - 1) * size
      BY <3>2
    <3>7. PICK y \in Int : y = (l - 1) * size
      BY <3>2
    <3>8. y >= x + size /\ x + At(k) = y + At(l)
      BY <3>1, <3>5, <3>6, <3>7
    <3>9. PICK a \in Int : a = At(k)
      BY <3>2
    <3>10. PICK b \in Int : b = At(l)
      BY <3>2
    <3>11. PICK z \in Int : z = size
      OBVIOUS
    <3>12. a < z /\ b > 0 /\ y >= x + z /\ x + a = y + b
      BY <3>3, <3>8, <3>9, <3>10, <3>11
    <3>13. QED BY <3>12
  <2>4. CASE l < k
    <3>1. (k - 1) * size >= (l - 1) * size + size
      BY <2>2, <2>4
    <3>2. (k - 1) * size \in Int /\ (l - 1) * size \in Int /\ At(k) \in Int /\ At(l) \in Int
      BY <2>1, <2>2
    <3>5. (k - 1) * size + At(k) = (l - 1) * size + At(l)
      BY <1>4, <2>1, Zenon
    <3>3. At(l) < size /\ At(k) > 0
      <4>1. \A x \in 1 .. size - 1 : x < size /\ x > 0
        OBVIOUS
      <4>2. QED BY <2>1, <4>1
    <3>6. PICK x \in Int : x = (l - 1) * size
      BY <3>2
    <3>7. PICK y \in Int : y = (k - 1) * size
      BY <3>2
    <3>8. y >= x + size /\ x + At(l) = y + At(k)
      BY <3>1, <3>5, <3>6, <3>7
    <3>9. PICK a \in Int : a = At(l)
      BY <3>2
    <3>10. PICK b \in Int : b = At(k)
      BY <3>2
    <3>11. PICK z \in Int : z = size
      OBVIOUS
    <3>12. a < z /\ b > 0 /\ y >= x + z /\ x + a = y + b
      BY <3>3, <3>8, <3>9, <3>10, <3>11
    <3>13. QED BY <3>12
  <2>5. QED BY <2>2, <2>3, <2>4
<1>5. IsFiniteSet(M) /\ Cardinality(M) <= Cardinality(Early)
  <2>1. f \in [M -> Early]
    BY <1>3
  <2> HIDE DEF f, M, Early
  <2>2. f \in Injection(M, Early)
    BY <1>4, <2>1 DEF Injection, IsInjective
  <2>3. QED BY <1>2, <2>2, FS_Injection
<1>6. ASSUME NEW i \in Breaks(r) PROVE g[i] \in Late /\ g[i] = i + Len(h) /\ i \in Int
  <2>1. i \in 1 .. Len(r) - 1 /\ r[i + 1] # r[i] + 1
    BY DEF Breaks
  <2>2. s[i + Len(h)] = r[i] /\ s[i + Len(h) + 1] = r[i + 1]
    <3>1. /\ i \in 1 .. Len(r) /\ i + 1 \in 1 .. Len(r) /\ Len(h) + i = i + Len(h)
          /\ Len(h) + (i + 1) = i + Len(h) + 1
      BY <1>1, <2>1
    <3>2. s[Len(h) + i] = r[i] /\ s[Len(h) + (i + 1)] = r[i + 1]
      BY <1>1, <3>1
    <3>3. QED BY <3>1, <3>2
  <2>3. i + Len(h) \in 1 .. Len(s) - 1 /\ i + Len(h) > Len(h)
    <3>1. /\ Len(h) \in Nat /\ Len(r) \in Nat /\ Len(s) = Len(h) + Len(r)
          /\ i \in 1 .. Len(r) - 1
      BY <1>1, <2>1
    <3>2. QED BY <3>1
  <2>4. i + Len(h) \in Late
    BY <2>1, <2>2, <2>3 DEF Breaks
  <2>5. QED BY <2>1, <2>4
<1>7. Cardinality(Breaks(r)) <= Cardinality(Late)
  <2>1. g \in [Breaks(r) -> Late]
    BY <1>6
  <2>2. \A i, j \in Breaks(r) : g[i] = g[j] => i = j
    BY <1>1, <1>6
  <2> HIDE DEF g, Late
  <2>3. g \in Injection(Breaks(r), Late)
    BY <2>1, <2>2 DEF Injection, IsInjective
  <2>4. QED BY <1>2, <2>3, FS_Injection
<1>8. Cardinality(Early) + Cardinality(Late) <= Cardinality(Breaks(s))
  <2> HIDE DEF Early, Late
  <2>1. Cardinality(Early \cup Late) = Cardinality(Early) + Cardinality(Late)
    <3>1. Cardinality(Early \cup Late) =
            Cardinality(Early) + Cardinality(Late) - Cardinality(Early \cap Late)
      BY <1>2, FS_Union
    <3>2. Cardinality(Early \cap Late) = 0
      BY <1>2, FS_EmptySet
    <3>3. Cardinality(Early) \in Nat /\ Cardinality(Late) \in Nat
      BY <1>2, FS_CardinalityType
    <3>4. QED BY <3>1, <3>2, <3>3
  <2>2. Cardinality(Early \cup Late) <= Cardinality(Breaks(s))
    BY <1>2, FS_Subset
  <2>3. QED BY <2>1, <2>2
<1>9. /\ Cardinality(M) \in Nat /\ Cardinality(Early) \in Nat /\ Cardinality(Late) \in Nat
      /\ Cardinality(Breaks(r)) \in Nat /\ Cardinality(Breaks(s)) \in Nat
  BY <1>1, <1>2, <1>5, BreaksCounted, FS_CardinalityType
<1>10. Mixed(frames) = Cardinality(M)
  BY DEF Mixed
<1> HIDE DEF M, Early, Late
<1>11. QED BY <1>5, <1>7, <1>8, <1>9, <1>10
-----------------------------------------------------------------------------
(* The stamps of a lane *)

\* What is left of the lane block held, and all that is under way: what the
\* bank carries, the rest of the block, what the stage carries and the index
\* the radio goes on from.
RestOf(b) == SubSeq(b.samples, b.done * Decim + 1, Len(b.samples))
Ahead == Cat(ddcCarry, <<position>>)
Pending == Cat(Cat(bankCarry, RestOf(sub)), Ahead)

LaneBlocks == [base : Int, samples : Seq(Int), done : Nat]

LaneTypeOK ==
  /\ position \in Nat /\ ddcCarry \in Seq(Int) /\ bankCarry \in Seq(Int)
  /\ sub \in LaneBlocks
  /\ gaps \in Nat /\ mixed \in Nat /\ framed \in Nat /\ unsent \in Nat

\* A carry never fills an output of its own.
CarriesAreShort ==
  /\ Len(ddcCarry) < Decim
  /\ \E b \in 0 .. HalfFrame - 1 : Len(bankCarry) = Decim * b

\* The block held is whole lane samples, some of it still to be fed, and but for
\* what the stage had carried its samples are those its base says.
Stamped(b) ==
  /\ \E q \in Nat : Len(b.samples) = Decim * q /\ (q > 0 => b.done < q)
  /\ b.samples = <<>> => b = NoSub
  /\ \A x \in Decim .. Len(b.samples) : b.samples[x] = b.base + x - 1

\* Every skip in what is under way, and every frame spoiled by one, is a loss.
SkipsAreLosses == mixed + Cardinality(Breaks(Pending)) <= gaps

SamplesAreSomewhere ==
  position = unsent + framed * FrameSpan + Len(ddcCarry) + Len(bankCarry)
               + Len(sub.samples) - sub.done * Decim

LaneInv ==
  /\ LaneTypeOK
  /\ CarriesAreShort
  /\ Stamped(sub)
  /\ SkipsAreLosses
  /\ SamplesAreSomewhere
  /\ StampsAreClose

LEMMA LaneWidths ==
  /\ Decim \in Nat \ {0} /\ HalfFrame \in Nat \ {0} /\ MaxChunk \in Nat \ {0}
  /\ FrameSpan \in Nat \ {0} /\ FrameSpan = HalfFrame * Decim
<1>1. Decim \in Nat \ {0} /\ HalfFrame \in Nat \ {0} /\ MaxChunk \in Nat \ {0}
  BY LaneAssumption
<1>2. \A a, b \in Nat \ {0} : a * b \in Nat \ {0}
  OBVIOUS
<1>3. QED BY <1>1, <1>2 DEF FrameSpan

LEMMA Quotient ==
  ASSUME NEW a \in Nat, NEW n \in Nat \ {0}
  PROVE  /\ a \div n \in Nat
         /\ n * (a \div n) <= a /\ a < n * (a \div n) + n
         /\ n * (a \div n) \in Nat
         /\ a < n => a \div n = 0
OBVIOUS

\* An array cut where its last whole output ends.
LEMMA CutIs ==
  ASSUME NEW s \in Seq(Int), NEW n \in Nat \ {0}
  PROVE  /\ Filled(s, n) \in Seq(Int) /\ Len(Filled(s, n)) = n * (Len(s) \div n)
         /\ Ragged(s, n) \in Seq(Int)
         /\ Len(Ragged(s, n)) = Len(s) - n * (Len(s) \div n)
         /\ Len(Ragged(s, n)) < n
         /\ \A x \in 1 .. n * (Len(s) \div n) : Filled(s, n)[x] = s[x]
         /\ Cat(Filled(s, n), Ragged(s, n)) = s
         /\ Len(s) < n => Filled(s, n) = <<>>
<1> DEFINE c == n * (Len(s) \div n)
<1>1. Len(s) \in Nat /\ c \in Nat /\ c <= Len(s) /\ Len(s) < c + n
      /\ (Len(s) < n => c = 0)
  <2>1. Len(s) \in Nat
    OBVIOUS
  <2>2. n * 0 = 0
    OBVIOUS
  <2>3. QED BY <2>1, <2>2, Quotient
<1>2. Filled(s, n) = SubSeq(s, 1, c) /\ Ragged(s, n) = SubSeq(s, c + 1, Len(s))
  BY DEF Filled, Ragged
<1>7. c = n * (Len(s) \div n)
  OBVIOUS
<1> HIDE DEF c
<1>3. /\ SubSeq(s, 1, c) \in Seq(Int) /\ Len(SubSeq(s, 1, c)) = c
      /\ \A x \in 1 .. c : SubSeq(s, 1, c)[x] = s[x]
  BY <1>1
<1>4. /\ SubSeq(s, c + 1, Len(s)) \in Seq(Int)
      /\ Len(SubSeq(s, c + 1, Len(s))) = Len(s) - c
  BY <1>1
<1>5. SubSeq(s, 1, c) \o SubSeq(s, c + 1, Len(s)) = s
  <2>1. 1 \in 1 .. Len(s) + 1 /\ c \in 1 - 1 .. Len(s) /\ Len(s) \in c .. Len(s)
    BY <1>1
  <2>2. SubSeq(s, 1, c) \o SubSeq(s, c + 1, Len(s)) = SubSeq(s, 1, Len(s))
    BY <2>1, ConcatAdjacentSubSeq
  <2>3. QED BY <2>2, SubSeqFull
<1>6. Len(s) < n => SubSeq(s, 1, c) = <<>>
  BY <1>1, SubSeqEmpty
<1>8. /\ Filled(s, n) \in Seq(Int) /\ Len(Filled(s, n)) = c
      /\ Ragged(s, n) \in Seq(Int) /\ Len(Ragged(s, n)) = Len(s) - c
      /\ \A x \in 1 .. c : Filled(s, n)[x] = s[x]
      /\ Cat(Filled(s, n), Ragged(s, n)) = s
      /\ Len(s) < n => Filled(s, n) = <<>>
  BY <1>2, <1>3, <1>4, <1>5, <1>6 DEF Cat
<1>9. Len(Ragged(s, n)) < n
  BY <1>1, <1>8
<1>10. QED BY <1>7, <1>8, <1>9, Zenon

\* Concatenations brought into the forms the steps need.
LEMMA JoinIs ==
  ASSUME NEW u \in Seq(Int), NEW v \in Seq(Int)
  PROVE  \E c \in Seq(Int) : c = Cat(u, v) /\ Joins(c, u, v)
<1>1. Joins(Cat(u, v), u, v)
  BY CatJoins
<1>2. Cat(u, v) \in Seq(Int)
  BY <1>1 DEF Joins
<1>3. QED BY <1>1, <1>2

LEMMA CatIs ==
  ASSUME NEW u \in Seq(Int), NEW v \in Seq(Int), NEW w \in Seq(Int)
  PROVE  /\ Cat(u, v) \in Seq(Int)
         /\ Cat(Cat(u, v), w) = Cat(u, Cat(v, w))
<1>1. PICK uv \in Seq(Int) : uv = Cat(u, v) /\ Joins(uv, u, v)
  BY JoinIs
<1>2. PICK vw \in Seq(Int) : vw = Cat(v, w) /\ Joins(vw, v, w)
  BY JoinIs
<1>3. PICK s \in Seq(Int) : s = Cat(uv, w) /\ Joins(s, uv, w)
  BY JoinIs
<1>4. PICK t \in Seq(Int) : t = Cat(u, vw) /\ Joins(t, u, vw)
  BY JoinIs
<1>5. /\ Len(u) \in Nat /\ Len(v) \in Nat /\ Len(w) \in Nat
      /\ Len(uv) = Len(u) + Len(v) /\ Len(vw) = Len(v) + Len(w)
      /\ Len(s) = Len(u) + Len(v) + Len(w) /\ Len(t) = Len(u) + Len(v) + Len(w)
  BY <1>1, <1>2, <1>3, <1>4 DEF Joins
<1>6. ASSUME NEW i \in 1 .. Len(s) PROVE s[i] = t[i]
  <2>1. CASE i <= Len(u)
    <3>1. i \in 1 .. Len(u) /\ i \in 1 .. Len(uv)
      BY <1>5, <2>1
    <3>2. s[i] = uv[i] /\ uv[i] = u[i] /\ t[i] = u[i]
      BY <1>1, <1>3, <1>4, <3>1 DEF Joins
    <3>3. QED BY <3>2
  <2>2. CASE i > Len(u) /\ i <= Len(u) + Len(v)
    <3>1. PICK j \in 1 .. Len(v) : i = Len(u) + j
      <4>1. i - Len(u) \in 1 .. Len(v) /\ i = Len(u) + (i - Len(u))
        BY <1>5, <2>2
      <4>2. QED BY <4>1
    <3>2. i \in 1 .. Len(uv) /\ j \in 1 .. Len(vw)
      BY <1>5, <2>2, <3>1
    <3>3. s[i] = uv[i] /\ uv[Len(u) + j] = v[j]
      BY <1>1, <1>3, <3>2 DEF Joins
    <3>4. t[Len(u) + j] = vw[j] /\ vw[j] = v[j]
      BY <1>2, <1>4, <3>2 DEF Joins
    <3>5. QED BY <3>1, <3>3, <3>4
  <2>3. CASE i > Len(u) + Len(v)
    <3>1. PICK j \in 1 .. Len(w) : i = Len(uv) + j
      <4>1. i - Len(uv) \in 1 .. Len(w) /\ i = Len(uv) + (i - Len(uv))
        BY <1>5, <2>3
      <4>2. QED BY <4>1
    <3>2. Len(v) + j \in 1 .. Len(vw) /\ i = Len(u) + (Len(v) + j)
      BY <1>5, <3>1
    <3>3. s[Len(uv) + j] = w[j]
      BY <1>3 DEF Joins
    <3>4. t[Len(u) + (Len(v) + j)] = vw[Len(v) + j]
      BY <1>4, <3>2 DEF Joins
    <3>5. vw[Len(v) + j] = w[j]
      BY <1>2 DEF Joins
    <3>6. QED BY <3>1, <3>2, <3>3, <3>4, <3>5
  <2>4. Len(u) \in Nat /\ Len(v) \in Nat /\ i \in Int
    BY <1>5
  <2>5. QED BY <2>1, <2>2, <2>3, <2>4
<1>7. s = t
  <2>1. Len(s) = Len(t)
    BY <1>5
  <2>2. QED BY <1>6, <2>1, SeqEqual
<1>8. QED BY <1>1, <1>2, <1>3, <1>4, <1>7

LEMMA Regroup ==
  ASSUME NEW u \in Seq(Int), NEW v \in Seq(Int), NEW w \in Seq(Int), NEW x \in Seq(Int)
  PROVE  /\ Cat(Cat(u, v), Cat(w, x)) = Cat(Cat(u, Cat(v, w)), x)
         /\ Cat(Cat(Cat(u, v), w), x) = Cat(u, Cat(Cat(v, w), x))
BY CatIs
\* What is left of a block to feed.
LEMMA RestIs ==
  ASSUME NEW b \in LaneBlocks, Stamped(b)
  PROVE  /\ RestOf(b) \in Seq(Int)
         /\ b.samples = <<>> => RestOf(b) = <<>> /\ b = NoSub /\ b.done * Decim = 0
         /\ b.samples # <<>> => b.done * Decim < Len(b.samples)
<1>1. b.samples \in Seq(Int) /\ b.done \in Nat /\ Len(b.samples) \in Nat
  BY DEF LaneBlocks
<1>2. Decim \in Nat \ {0}
  BY LaneWidths
<1>3. b.done * Decim \in Nat
  BY <1>1, <1>2
<1>4. RestOf(b) \in Seq(Int)
  BY <1>1, <1>3 DEF RestOf
<1>5. ASSUME b.samples = <<>>
      PROVE  RestOf(b) = <<>> /\ b = NoSub /\ b.done * Decim = 0
  <2>1. b = NoSub
    BY <1>5 DEF Stamped
  <2>2. b.done = 0 /\ Len(b.samples) = 0
    BY <1>5, <2>1 DEF NoSub
  <2>3. b.done * Decim = 0
    BY <1>2, <2>2
  <2>4. QED BY <2>1, <2>2, <2>3, SubSeqEmpty DEF RestOf
<1>6. ASSUME b.samples # <<>> PROVE b.done * Decim < Len(b.samples)
  <2>1. PICK q \in Nat : Len(b.samples) = Decim * q /\ (q > 0 => b.done < q)
    BY DEF Stamped
  <2>2. Len(b.samples) # 0
    BY <1>1, <1>6
  <2>3. q # 0
    BY <1>2, <2>1, <2>2
  <2>4. b.done < q
    BY <2>1, <2>3
  <2>5. b.done * Decim < q * Decim
    BY <1>1, <1>2, <2>4
  <2>6. QED BY <1>2, <2>1, <2>5
<1>7. QED BY <1>4, <1>5, <1>6

\* A frame without a skip counts up from its first sample.
LEMMA WholeRuns ==
  ASSUME NEW s \in Seq(Int), Len(s) > 0, Whole(s)
  PROVE  \A i \in 1 .. Len(s) : s[i] = s[1] + i - 1
<1> DEFINE T == {i \in 1 .. Len(s) : s[i] # s[1] + i - 1}
<1>1. Len(s) \in Nat /\ \A i \in 1 .. Len(s) : s[i] \in Int
  OBVIOUS
<1>2. ASSUME T # {} PROVE FALSE
  <2>1. T \in SUBSET Nat
    BY <1>1
  <2>2. PICK i \in T : \A y \in T : i <= y
    BY <1>2, <2>1, LeastNat
  <2>3. i \in 1 .. Len(s) /\ s[i] # s[1] + i - 1
    OBVIOUS
  <2>4. i # 1
    BY <1>1, <2>3
  <2>5. i - 1 \in 1 .. Len(s) - 1 /\ i - 1 \in 1 .. Len(s) /\ i - 1 + 1 = i
    BY <1>1, <2>3, <2>4
  <2>6. s[i - 1] = s[1] + (i - 1) - 1
    <3>1. i - 1 \notin T
      BY <2>2, <2>3
    <3>2. QED BY <2>5, <3>1
  <2>7. s[i - 1 + 1] = s[i - 1] + 1
    BY <2>5 DEF Whole
  <2>8. s[i] = s[i - 1] + 1
    BY <2>5, <2>7
  <2>9. PICK a \in Int : a = s[1]
    <3>1. 1 \in 1 .. Len(s)
      BY <1>1
    <3>2. QED BY <1>1, <3>1
  <2>10. s[i] = (a + (i - 1) - 1) + 1
    BY <2>6, <2>8, <2>9
  <2>11. i \in Int
    BY <1>1, <2>3
  <2>12. s[i] = a + i - 1
    BY <2>10, <2>11
  <2>13. QED BY <2>3, <2>9, <2>12
<1>3. QED BY <1>2

\* The part of an array from o to e.
LEMMA SubSeqIs ==
  ASSUME NEW s \in Seq(Int), NEW o \in Nat, NEW e \in Nat, o <= e, e <= Len(s)
  PROVE  /\ SubSeq(s, o + 1, e) \in Seq(Int) /\ Len(SubSeq(s, o + 1, e)) = e - o
         /\ \A j \in 1 .. e - o : SubSeq(s, o + 1, e)[j] = s[o + j]
<1>1. /\ o + 1 \in Int /\ e \in Int /\ e - (o + 1) + 1 = e - o
      /\ (o + 1 <= e \/ e - o = 0)
  OBVIOUS
<1>2. \A i \in o + 1 .. e : s[i] \in Int
  OBVIOUS
<1>3. ASSUME NEW p \in Int
      PROVE  \A j \in 1 .. e - p + 1 : SubSeq(s, p, e)[j] = s[p + j - 1]
  OBVIOUS
<1>4. ASSUME NEW j \in 1 .. e - o PROVE SubSeq(s, o + 1, e)[j] = s[o + j]
  <2>1. PICK p \in Int : p = o + 1
    BY <1>1
  <2>2. j \in 1 .. e - p + 1 /\ p + j - 1 = o + j
    BY <2>1
  <2>3. SubSeq(s, p, e)[j] = s[p + j - 1]
    BY <1>3, <2>2
  <2>4. QED BY <2>1, <2>2, <2>3
<1>5. SubSeq(s, o + 1, e) \in Seq(Int)
  BY <1>1, <1>2
<1>6. Len(SubSeq(s, o + 1, e)) = e - o
  BY <1>1
<1>7. QED BY <1>4, <1>5, <1>6

\* The frames an array is cut into.
LEMMA FramesAre ==
  ASSUME NEW s \in Seq(Int), NEW m \in Nat, m = Len(s) \div FrameSpan
  PROVE  /\ DOMAIN Frames(s) = 1 .. m /\ Len(Frames(s)) = m
         /\ \A k \in 1 .. m :
              /\ Frames(s)[k] \in Seq(Int) /\ Len(Frames(s)[k]) = FrameSpan
              /\ (k - 1) * FrameSpan \in Nat /\ (k - 1) * FrameSpan + FrameSpan = k * FrameSpan
              /\ k * FrameSpan <= FrameSpan * m
              /\ \A x \in 1 .. FrameSpan : Frames(s)[k][x] = s[(k - 1) * FrameSpan + x]
<1>1. FrameSpan \in Nat \ {0} /\ Len(s) \in Nat
  BY LaneWidths
<1>2. m \in Nat /\ FrameSpan * m <= Len(s)
  BY <1>1, Quotient
<1>3. Frames(s) = [k \in 1 .. m |-> SubSeq(s, (k - 1) * FrameSpan + 1, k * FrameSpan)]
  BY DEF Frames
<1>4. DOMAIN Frames(s) = 1 .. m /\ Len(Frames(s)) = m
  BY <1>2, <1>3
<1>5. ASSUME NEW k \in 1 .. m
      PROVE  /\ Frames(s)[k] \in Seq(Int) /\ Len(Frames(s)[k]) = FrameSpan
             /\ (k - 1) * FrameSpan \in Nat /\ (k - 1) * FrameSpan + FrameSpan = k * FrameSpan
             /\ k * FrameSpan <= FrameSpan * m
             /\ \A x \in 1 .. FrameSpan : Frames(s)[k][x] = s[(k - 1) * FrameSpan + x]
  <2>1. /\ (k - 1) * FrameSpan \in Nat /\ (k - 1) * FrameSpan + FrameSpan = k * FrameSpan
        /\ k * FrameSpan <= FrameSpan * m
    <3>1. \A x, y \in Nat : x <= y => x * FrameSpan <= FrameSpan * y
      BY <1>1
    <3>2. k \in Nat /\ k <= m /\ k - 1 \in Nat
      BY <1>2
    <3>3. k * FrameSpan <= FrameSpan * m
      BY <1>2, <3>1, <3>2
    <3>4. (k - 1) * FrameSpan \in Nat /\ (k - 1) * FrameSpan + FrameSpan = k * FrameSpan
      BY <1>1, <3>2
    <3>5. QED BY <3>3, <3>4
  <2>2. PICK o \in Nat : o = (k - 1) * FrameSpan
    BY <2>1
  <2>3. o + FrameSpan = k * FrameSpan /\ o + FrameSpan <= Len(s)
    BY <1>1, <1>2, <2>1, <2>2
  <2>4. Frames(s)[k] = SubSeq(s, o + 1, o + FrameSpan)
    BY <1>3, <2>2, <2>3
  <2>5. /\ SubSeq(s, o + 1, o + FrameSpan) \in Seq(Int)
        /\ Len(SubSeq(s, o + 1, o + FrameSpan)) = FrameSpan
        /\ \A x \in 1 .. FrameSpan : SubSeq(s, o + 1, o + FrameSpan)[x] = s[o + x]
    <3>1. PICK e \in Nat : e = o + FrameSpan
      BY <1>1
    <3>2. o <= e /\ e <= Len(s) /\ e - o = FrameSpan
      BY <1>1, <2>3, <3>1
    <3>3. /\ SubSeq(s, o + 1, e) \in Seq(Int) /\ Len(SubSeq(s, o + 1, e)) = e - o
          /\ \A j \in 1 .. e - o : SubSeq(s, o + 1, e)[j] = s[o + j]
      BY <3>2, SubSeqIs
    <3>4. QED BY <3>1, <3>2, <3>3
  <2>6. QED BY <2>1, <2>2, <2>4, <2>5
<1>6. QED BY <1>2, <1>4, <1>5
\* The lane block a radio block makes with what was carried, if it makes one.
Makes(b, c, p, r, w) ==
  /\ c \in Seq(Int) /\ Len(c) < Decim /\ p \in Nat /\ r \in Seq(Int)
  /\ \A i \in 1 .. Len(r) : r[i] = p + i - 1
  /\ w = Cat(c, r)
  /\ b = IF Len(w) < Decim THEN NoSub
         ELSE [base |-> p - Len(c), samples |-> Filled(w, Decim), done |-> 0]

LEMMA DdcMakes ==
  ASSUME NEW b, NEW c, NEW p, NEW r, NEW w, Makes(b, c, p, r, w)
  PROVE  /\ b \in LaneBlocks /\ Stamped(b) /\ b.done * Decim = 0
         /\ Ragged(w, Decim) \in Seq(Int) /\ Len(Ragged(w, Decim)) < Decim
         /\ Cat(RestOf(b), Ragged(w, Decim)) = w
         /\ Len(b.samples) + Len(Ragged(w, Decim)) = Len(c) + Len(r)
<1> /\ c \in Seq(Int) /\ Len(c) < Decim /\ p \in Nat /\ r \in Seq(Int)
    /\ \A i \in 1 .. Len(r) : r[i] = p + i - 1
    /\ w = Cat(c, r)
    /\ b = IF Len(w) < Decim THEN NoSub
           ELSE [base |-> p - Len(c), samples |-> Filled(w, Decim), done |-> 0]
  BY DEF Makes
<1>1. Decim \in Nat \ {0}
  BY LaneWidths
<1>2. /\ w \in Seq(Int) /\ Len(w) = Len(c) + Len(r) /\ Len(c) \in Nat /\ Len(r) \in Nat
      /\ Len(w) \in Nat
      /\ \A i \in 1 .. Len(r) : w[Len(c) + i] = r[i]
  BY CatJoins DEF Joins
<1>3. PICK f \in Seq(Int) : f = Filled(w, Decim)
  BY <1>1, <1>2, CutIs
<1>4. /\ Ragged(w, Decim) \in Seq(Int) /\ Len(Ragged(w, Decim)) < Decim
      /\ Len(f) = Decim * (Len(w) \div Decim)
      /\ Len(Ragged(w, Decim)) = Len(w) - Len(f)
      /\ \A x \in 1 .. Len(f) : f[x] = w[x]
      /\ Cat(f, Ragged(w, Decim)) = w
      /\ (Len(w) < Decim => f = <<>>)
      /\ Len(w) \div Decim \in Nat /\ Len(f) \in Nat
      /\ (~ (Len(w) < Decim) => f # <<>>)
  <2>1. /\ Ragged(w, Decim) \in Seq(Int) /\ Len(Ragged(w, Decim)) < Decim
        /\ Len(f) = Decim * (Len(w) \div Decim)
        /\ Len(Ragged(w, Decim)) = Len(w) - Len(f)
        /\ \A x \in 1 .. Len(f) : f[x] = w[x]
        /\ Cat(f, Ragged(w, Decim)) = w
        /\ (Len(w) < Decim => f = <<>>)
    <3>1. /\ Ragged(w, Decim) \in Seq(Int) /\ Len(Ragged(w, Decim)) < Decim
          /\ Len(Filled(w, Decim)) = Decim * (Len(w) \div Decim)
          /\ Len(Ragged(w, Decim)) = Len(w) - Decim * (Len(w) \div Decim)
          /\ \A x \in 1 .. Decim * (Len(w) \div Decim) : Filled(w, Decim)[x] = w[x]
          /\ Cat(Filled(w, Decim), Ragged(w, Decim)) = w
          /\ (Len(w) < Decim => Filled(w, Decim) = <<>>)
      BY <1>1, <1>2, CutIs
    <3>2. Len(f) = Decim * (Len(w) \div Decim)
      BY <1>3, <3>1
    <3>3. QED BY <1>3, <3>1, <3>2
  <2>2. Len(w) \div Decim \in Nat /\ Len(f) \in Nat
    <3>1. Len(f) \in Nat
      OBVIOUS
    <3>2. QED BY <1>1, <1>2, <3>1, Quotient
  <2>3. ~ (Len(w) < Decim) => f # <<>>
    <3>1. Len(<<>>) = 0
      OBVIOUS
    <3>2. QED BY <1>1, <1>2, <2>1, <3>1
  <2>4. QED BY <2>1, <2>2, <2>3
<1>5. CASE Len(w) < Decim
  <2>1. b = NoSub /\ f = <<>>
    BY <1>4, <1>5
  <2>2. /\ b.samples = <<>> /\ b.done = 0 /\ b.base = 0 /\ b \in LaneBlocks
        /\ Len(b.samples) = 0 /\ Len(f) = 0
    <3>1. PICK e \in Seq(Int) : e = <<>>
      BY EmptySeq
    <3>2. b = [base |-> 0, samples |-> e, done |-> 0]
      BY <2>1, <3>1 DEF NoSub
    <3>4. b.samples = e /\ b.done = 0 /\ b.base = 0 /\ b \in LaneBlocks
      BY <3>2 DEF LaneBlocks
    <3>3. QED BY <2>1, <3>1, <3>4
  <2>3. b.done * Decim = 0
    BY <1>1, <2>2
  <2>4. Stamped(b)
    <3>1. Decim * 0 = 0
      BY <1>1
    <3>2. \E q \in Nat : Len(b.samples) = Decim * q /\ (q > 0 => b.done < q)
      BY <2>2, <3>1
    <3>3. \A x \in Decim .. Len(b.samples) : FALSE
      BY <1>1, <2>2
    <3>4. QED BY <2>1, <3>2, <3>3 DEF Stamped
  <2>5. RestOf(b) = f
    BY <2>1, <2>4, <2>2, RestIs
  <2>6. Len(b.samples) + Len(Ragged(w, Decim)) = Len(c) + Len(r)
    <3>1. Len(Ragged(w, Decim)) = Len(w) - 0 /\ Len(w) = Len(c) + Len(r)
          /\ Len(b.samples) = 0 /\ Len(w) \in Nat
      BY <1>2, <1>4, <2>2
    <3>2. \A a \in Nat : 0 + (a - 0) = a
      OBVIOUS
    <3>3. 0 + (Len(w) - 0) = Len(w)
      BY <3>1, <3>2
    <3>4. QED BY <3>1, <3>3, Zenon
  <2>7. QED BY <1>4, <2>2, <2>3, <2>4, <2>5, <2>6
<1>6. CASE ~ (Len(w) < Decim)
  <2>1. b = [base |-> p - Len(c), samples |-> f, done |-> 0]
    BY <1>3, <1>6
  <2>2. b.samples = f /\ b.done = 0 /\ b.base = p - Len(c) /\ b \in LaneBlocks
    BY <1>2, <2>1 DEF LaneBlocks
  <2>3. b.done * Decim = 0
    BY <1>1, <2>2
  <2>4. Stamped(b)
    <3>1. \E q \in Nat : Len(b.samples) = Decim * q /\ (q > 0 => b.done < q)
      BY <1>4, <2>2
    <3>2. ASSUME NEW x \in Decim .. Len(b.samples)
          PROVE  b.samples[x] = b.base + x - 1
      <4>1. x \in 1 .. Len(f) /\ x > Len(c) /\ x <= Len(c) + Len(r)
        <5>1. x \in Decim .. Len(f)
          BY <2>2
        <5>2. Len(f) <= Len(c) + Len(r) /\ Len(f) \in Nat /\ Len(c) \in Nat
          <6>1. Len(Ragged(w, Decim)) \in Nat
            BY <1>4
          <6>2. QED BY <1>2, <1>4, <6>1
        <5>3. PICK m \in Nat : m = Len(f)
          BY <5>2
        <5>4. x \in Decim .. m /\ m <= Len(c) + Len(r) /\ Len(c) < Decim
          BY <5>1, <5>2, <5>3
        <5>5. x \in 1 .. m /\ x > Len(c) /\ x <= Len(c) + Len(r)
          <6>1. Len(c) \in Nat /\ Decim \in Nat
            BY <1>1, <1>2
          <6>2. x \in Int /\ Decim <= x /\ x <= m
            BY <6>1, <5>4
          <6>3. x > Len(c)
            BY <6>1, <6>2, <5>4
          <6>4. x >= 1
            BY <6>1, <6>2, <6>3
          <6>5. Len(r) \in Nat /\ x <= Len(c) + Len(r)
            BY <1>2, <6>1, <6>2, <5>4
          <6>6. QED BY <6>2, <6>3, <6>4, <6>5
        <5>6. QED BY <5>3, <5>5
      <4>2. PICK i \in 1 .. Len(r) : x = Len(c) + i
        <5>1. x - Len(c) \in 1 .. Len(r) /\ x = Len(c) + (x - Len(c))
          BY <1>2, <4>1
        <5>2. QED BY <5>1
      <4>3. f[x] = w[x] /\ w[Len(c) + i] = r[i] /\ r[i] = p + i - 1
        BY <1>2, <1>4, <4>1, <4>2
      <4>4. p + i - 1 = p - Len(c) + x - 1
        BY <1>2, <4>2
      <4>5. QED BY <2>2, <4>2, <4>3, <4>4
    <3>3. QED BY <1>4, <1>6, <2>2, <3>1, <3>2 DEF Stamped
  <2>5. RestOf(b) = f
    <3>1. RestOf(b) = SubSeq(f, 1, Len(f))
      <4>1. b.done * Decim + 1 = 1 /\ b.samples = f
        BY <2>2, <2>3
      <4>2. QED BY <4>1 DEF RestOf
    <3>2. QED BY <3>1, SubSeqFull
  <2>6. QED BY <1>2, <1>4, <2>2, <2>3, <2>4, <2>5
<1>7. QED BY <1>5, <1>6
LEMMA NoSubIs ==
  /\ NoSub \in LaneBlocks /\ Stamped(NoSub) /\ RestOf(NoSub) = <<>>
  /\ NoSub.samples = <<>> /\ Len(NoSub.samples) = 0 /\ NoSub.done * Decim = 0
<1>1. Decim \in Nat \ {0}
  BY LaneWidths
<1>2. PICK e \in Seq(Int) : e = <<>>
  BY EmptySeq
<1>3. NoSub = [base |-> 0, samples |-> e, done |-> 0]
  BY <1>2 DEF NoSub
<1>4. /\ NoSub.samples = e /\ NoSub.done = 0 /\ NoSub.base = 0 /\ NoSub \in LaneBlocks
      /\ Len(NoSub.samples) = 0
  <2>1. NoSub.samples = e /\ NoSub.done = 0 /\ NoSub.base = 0 /\ NoSub \in LaneBlocks
    BY <1>3 DEF LaneBlocks
  <2>2. Len(e) = 0
    BY <1>2
  <2>3. QED BY <2>1, <2>2
<1>5. NoSub.done * Decim = 0
  BY <1>1, <1>4
<1>6. Stamped(NoSub)
  <2>1. Decim * 0 = 0
    BY <1>1
  <2>2. \E q \in Nat : Len(NoSub.samples) = Decim * q /\ (q > 0 => NoSub.done < q)
    BY <1>4, <2>1
  <2>3. \A x \in Decim .. Len(NoSub.samples) : FALSE
    BY <1>1, <1>4
  <2>4. QED BY <2>2, <2>3 DEF Stamped
<1>7. RestOf(NoSub) = <<>>
  BY <1>2, <1>4, <1>6, RestIs
<1>8. QED BY <1>2, <1>4, <1>5, <1>6, <1>7

\* A chunk of the block goes to the bank.
Takes(b, q, fed, c, a) ==
  /\ b \in LaneBlocks /\ Stamped(b) /\ b.samples # <<>>
  /\ q = Len(b.samples) \div Decim
  /\ fed = IF b.done + MaxChunk < q THEN b.done + MaxChunk ELSE q
  /\ c = SubSeq(b.samples, b.done * Decim + 1, fed * Decim)
  /\ a = IF fed < q THEN [b EXCEPT !.done = fed] ELSE NoSub

LEMMA Feeds ==
  ASSUME NEW b, NEW q, NEW fed, NEW c, NEW a, Takes(b, q, fed, c, a)
  PROVE  /\ a \in LaneBlocks /\ Stamped(a) /\ c \in Seq(Int)
         /\ Cat(c, RestOf(a)) = RestOf(b)
         /\ \E l \in Nat : Len(c) = Decim * l
         /\ Len(b.samples) - b.done * Decim = Len(c) + (Len(a.samples) - a.done * Decim)
         /\ \A j \in Decim .. Len(c) : c[j] = b.base + b.done * Decim + j - 1
<1> /\ b \in LaneBlocks /\ Stamped(b) /\ b.samples # <<>>
    /\ q = Len(b.samples) \div Decim
    /\ fed = IF b.done + MaxChunk < q THEN b.done + MaxChunk ELSE q
    /\ c = SubSeq(b.samples, b.done * Decim + 1, fed * Decim)
    /\ a = IF fed < q THEN [b EXCEPT !.done = fed] ELSE NoSub
  BY DEF Takes
<1>1. PICK s \in Seq(Int) : s = b.samples
  BY DEF LaneBlocks
<1>2. PICK d \in Nat : d = b.done
  BY DEF LaneBlocks
<1>3. Decim \in Nat \ {0} /\ MaxChunk \in Nat \ {0} /\ Len(s) \in Nat
  BY LaneWidths
<1>4. Len(s) = Decim * q /\ q \in Nat /\ d < q
  <2>1. PICK p \in Nat : Len(s) = Decim * p /\ (p > 0 => d < p)
    BY <1>1, <1>2 DEF Stamped
  <2>2. p = q
    <3>1. Len(s) \div Decim = p
      BY <1>3, <2>1
    <3>2. QED BY <1>1, <3>1
  <2>3. Len(s) # 0
    BY <1>1
  <2>4. p # 0
    BY <1>3, <2>1, <2>3
  <2>5. QED BY <2>1, <2>2, <2>4
<1>5. fed \in Nat /\ d < fed /\ fed <= q
  <2>1. fed = IF d + MaxChunk < q THEN d + MaxChunk ELSE q
    BY <1>2
  <2>2. MaxChunk \in Nat \ {0} /\ q \in Nat /\ d < q
    BY <1>3, <1>4
  <2>3. QED BY <2>1, <2>2
<1>6. PICK o \in Nat : o = d * Decim
  BY <1>3
<1>7. PICK e \in Nat : e = fed * Decim
  BY <1>3, <1>5
<1>8. o < e /\ e <= Len(s) /\ e - o = Decim * (fed - d)
  <2>1. d * Decim < fed * Decim /\ fed * Decim <= Decim * q
    <3>1. \A x, y \in Nat : /\ (x < y => x * Decim < y * Decim)
                            /\ (x <= y => x * Decim <= Decim * y)
      BY <1>3
    <3>2. QED BY <1>4, <1>5, <3>1
  <2>2. fed * Decim - d * Decim = Decim * (fed - d)
    BY <1>3, <1>5
  <2>3. QED BY <1>4, <1>6, <1>7, <2>1, <2>2
<1>9. c = SubSeq(s, o + 1, e)
  BY <1>1, <1>2, <1>6, <1>7
<1>10. /\ c \in Seq(Int) /\ Len(c) = e - o
       /\ \A j \in 1 .. Len(c) : c[j] = s[o + j]
  <2>1. o <= e /\ e <= Len(s)
    BY <1>8
  <2>2. /\ SubSeq(s, o + 1, e) \in Seq(Int) /\ Len(SubSeq(s, o + 1, e)) = e - o
        /\ \A j \in 1 .. e - o : SubSeq(s, o + 1, e)[j] = s[o + j]
    BY <2>1, SubSeqIs
  <2>3. QED BY <1>9, <2>2
<1>11. \E l \in Nat : Len(c) = Decim * l
  <2>1. fed - d \in Nat /\ Len(c) = Decim * (fed - d)
    <3>1. \A x, y \in Nat : x < y => y - x \in Nat
      OBVIOUS
    <3>2. QED BY <1>5, <1>8, <1>10, <3>1
  <2>2. QED BY <2>1
<1>12. \A j \in Decim .. Len(c) : c[j] = b.base + b.done * Decim + j - 1
  <2>1. ASSUME NEW j \in Decim .. Len(c)
        PROVE  c[j] = b.base + b.done * Decim + j - 1
    <3>1. j \in 1 .. Len(c) /\ o + j \in Decim .. Len(s)
      <4>1. j \in Decim .. e - o
        BY <1>10
      <4>2. j \in 1 .. e - o /\ o + j \in Decim .. Len(s)
        <5>1. o < e /\ e <= Len(s) /\ Len(s) \in Nat
          BY <1>3, <1>8
        <5>2. j \in Int /\ Decim <= j /\ j <= e - o
          BY <1>3, <4>1
        <5>3. 1 <= j
          BY <1>3, <5>2
        <5>4. Decim <= o + j /\ o + j <= Len(s)
          BY <1>3, <5>1, <5>2
        <5>5. QED BY <5>2, <5>3, <5>4, <5>1, <1>3
      <4>3. QED BY <1>10, <4>2
    <3>2. s[o + j] = b.base + (o + j) - 1
      BY <1>1, <3>1 DEF Stamped
    <3>3. b.base \in Int
      BY DEF LaneBlocks
    <3>4. b.base + (o + j) - 1 = b.base + o + j - 1
      BY <3>1, <3>3
    <3>5. b.base + b.done * Decim + j - 1 = b.base + o + j - 1
      BY <1>2, <1>6
    <3>6. QED BY <1>10, <3>1, <3>2, <3>4, <3>5
  <2>2. QED BY <2>1
<1>13. RestOf(b) = SubSeq(s, o + 1, Len(s))
  BY <1>1, <1>2, <1>6 DEF RestOf
<1>14. CASE fed < q
  <2>1. /\ a.samples = s /\ a.done = fed /\ a.base = b.base /\ a \in LaneBlocks
    BY <1>1, <1>5, <1>14 DEF LaneBlocks
  <2>2. Stamped(a)
    <3>1. \E p \in Nat : Len(a.samples) = Decim * p /\ (p > 0 => a.done < p)
      BY <1>4, <1>14, <2>1
    <3>2. a.samples # <<>>
      BY <1>1, <2>1
    <3>3. \A x \in Decim .. Len(a.samples) : a.samples[x] = a.base + x - 1
      BY <1>1, <2>1 DEF Stamped
    <3>4. QED BY <3>1, <3>2, <3>3 DEF Stamped
  <2>3. RestOf(a) = SubSeq(s, e + 1, Len(s))
    BY <1>7, <2>1 DEF RestOf
  <2>4. SubSeq(s, o + 1, e) \o SubSeq(s, e + 1, Len(s)) = SubSeq(s, o + 1, Len(s))
    <3>1. /\ o + 1 \in 1 .. Len(s) + 1 /\ e \in (o + 1) - 1 .. Len(s)
          /\ Len(s) \in e .. Len(s)
      <4>1. o < e /\ e <= Len(s) /\ Len(s) \in Nat /\ (o + 1) - 1 = o
        BY <1>3, <1>8
      <4>2. QED BY <4>1
    <3>2. QED BY <3>1, ConcatAdjacentSubSeq
  <2>5. Cat(c, RestOf(a)) = RestOf(b)
    BY <1>9, <1>13, <2>3, <2>4 DEF Cat
  <2>6. Len(b.samples) - b.done * Decim = Len(c) + (Len(a.samples) - a.done * Decim)
    <3>1. Len(s) - o = (e - o) + (Len(s) - e)
      BY <1>3
    <3>2. QED BY <1>1, <1>2, <1>6, <1>7, <1>10, <2>1, <3>1
  <2>7. QED BY <1>10, <1>11, <1>12, <2>1, <2>2, <2>5, <2>6
<1>15. CASE ~ (fed < q)
  <2>1. fed = q /\ a = NoSub /\ e = Len(s)
    <3>1. fed = q
      BY <1>4, <1>5, <1>15
    <3>2. fed * Decim = Decim * q
      BY <1>3, <1>4, <3>1
    <3>3. QED BY <1>4, <1>7, <1>15, <3>1, <3>2
  <2>2. NoSub \in LaneBlocks /\ Stamped(NoSub)
    BY NoSubIs
  <2>3. RestOf(a) = <<>> /\ Len(a.samples) = 0 /\ a.done * Decim = 0
    BY <2>1, NoSubIs
  <2>4. Cat(c, RestOf(a)) = RestOf(b)
    <3>1. c \o <<>> = c
      BY <1>10, ConcatEmptySeq
    <3>2. QED BY <1>9, <1>13, <2>1, <2>3, <3>1 DEF Cat
  <2>5. Len(b.samples) - b.done * Decim = Len(c) + (Len(a.samples) - a.done * Decim)
    <3>1. Len(s) - o = (e - o) + (0 - 0)
      BY <1>3, <2>1
    <3>2. QED BY <1>1, <1>2, <1>6, <1>10, <2>3, <3>1
  <2>6. QED BY <1>10, <1>11, <1>12, <2>1, <2>2, <2>4, <2>5
<1>16. QED BY <1>14, <1>15
\* What the bank makes of a chunk and of what it had carried.
Gathers(k0, n0, c, l, st, w) ==
  /\ k0 \in Seq(Int) /\ n0 \in 0 .. HalfFrame - 1 /\ Len(k0) = Decim * n0
  /\ c \in Seq(Int) /\ l \in Nat /\ Len(c) = Decim * l
  /\ st \in Int /\ \A j \in Decim .. Len(c) : c[j] = st + j - 1
  /\ w = Cat(k0, c)

LEMMA BankCuts ==
  ASSUME NEW k0, NEW n0, NEW c, NEW l, NEW st, NEW w, Gathers(k0, n0, c, l, st, w)
  PROVE  /\ w \in Seq(Int) /\ Filled(w, FrameSpan) \in Seq(Int)
         /\ Ragged(w, FrameSpan) \in Seq(Int)
         /\ Cat(Filled(w, FrameSpan), Ragged(w, FrameSpan)) = w
         /\ \E n \in 0 .. HalfFrame - 1 : Len(Ragged(w, FrameSpan)) = Decim * n
         /\ Len(Frames(w)) \in Nat
         /\ Len(Frames(w)) * FrameSpan + Len(Ragged(w, FrameSpan)) = Len(k0) + Len(c)
         /\ \A k \in DOMAIN Frames(w) :
              Whole(Frames(w)[k]) =>
                st + (k - 1) * FrameSpan - Head(Frames(w)[k]) = Decim * n0
         /\ Mixed(Frames(w)) \in Nat
         /\ \A r \in Seq(Int) :
              Mixed(Frames(w)) + Cardinality(Breaks(r))
                <= Cardinality(Breaks(Cat(Filled(w, FrameSpan), r)))
<1> /\ k0 \in Seq(Int) /\ n0 \in 0 .. HalfFrame - 1 /\ Len(k0) = Decim * n0
    /\ c \in Seq(Int) /\ l \in Nat /\ Len(c) = Decim * l
    /\ st \in Int /\ \A j \in Decim .. Len(c) : c[j] = st + j - 1
    /\ w = Cat(k0, c)
  BY DEF Gathers
<1>1. /\ Decim \in Nat \ {0} /\ HalfFrame \in Nat \ {0} /\ FrameSpan \in Nat \ {0}
      /\ FrameSpan = HalfFrame * Decim
  BY LaneWidths
<1>0. Decim \in Nat \ {0} /\ HalfFrame \in Nat \ {0} /\ FrameSpan \in Nat \ {0}
  BY <1>1
<1>2. /\ w \in Seq(Int) /\ Len(w) = Len(k0) + Len(c) /\ Len(k0) \in Nat /\ Len(c) \in Nat
      /\ Len(w) \in Nat
      /\ \A i \in 1 .. Len(c) : w[Len(k0) + i] = c[i]
  BY CatJoins DEF Joins
<1>3. PICK m \in Nat : m = Len(w) \div FrameSpan
  BY <1>1, <1>2, Quotient
<1>4. /\ Filled(w, FrameSpan) \in Seq(Int) /\ Len(Filled(w, FrameSpan)) = FrameSpan * m
      /\ Ragged(w, FrameSpan) \in Seq(Int)
      /\ Len(Ragged(w, FrameSpan)) = Len(w) - FrameSpan * m
      /\ Len(Ragged(w, FrameSpan)) < FrameSpan
      /\ \A x \in 1 .. FrameSpan * m : Filled(w, FrameSpan)[x] = w[x]
      /\ Cat(Filled(w, FrameSpan), Ragged(w, FrameSpan)) = w
  <2>1. w \in Seq(Int) /\ FrameSpan \in Nat \ {0} /\ Len(w) \div FrameSpan = m
    BY <1>0, <1>2, <1>3
  <2>2. /\ Filled(w, FrameSpan) \in Seq(Int)
        /\ Len(Filled(w, FrameSpan)) = FrameSpan * (Len(w) \div FrameSpan)
        /\ Ragged(w, FrameSpan) \in Seq(Int)
        /\ Len(Ragged(w, FrameSpan)) = Len(w) - FrameSpan * (Len(w) \div FrameSpan)
        /\ Len(Ragged(w, FrameSpan)) < FrameSpan
        /\ \A x \in 1 .. FrameSpan * (Len(w) \div FrameSpan) : Filled(w, FrameSpan)[x] = w[x]
        /\ Cat(Filled(w, FrameSpan), Ragged(w, FrameSpan)) = w
    BY <2>1, CutIs
  <2>3. QED BY <2>1, <2>2
<1>5. /\ DOMAIN Frames(w) = 1 .. m /\ Len(Frames(w)) = m
      /\ \A k \in 1 .. m :
           /\ Frames(w)[k] \in Seq(Int) /\ Len(Frames(w)[k]) = FrameSpan
           /\ (k - 1) * FrameSpan \in Nat /\ (k - 1) * FrameSpan + FrameSpan = k * FrameSpan
           /\ k * FrameSpan <= FrameSpan * m
           /\ \A x \in 1 .. FrameSpan : Frames(w)[k][x] = w[(k - 1) * FrameSpan + x]
  <2>1. w \in Seq(Int) /\ m = Len(w) \div FrameSpan
    BY <1>2, <1>3
  <2>2. QED BY <2>1, FramesAre
<1>6. FrameSpan * m <= Len(w) /\ FrameSpan * m \in Nat /\ m * FrameSpan = FrameSpan * m
  <2>1. Len(Ragged(w, FrameSpan)) \in Nat
    BY <1>4
  <2>2. FrameSpan * m \in Nat /\ m * FrameSpan = FrameSpan * m
    BY <1>1
  <2>3. PICK x \in Nat : x = FrameSpan * m
    BY <2>2
  <2>4. PICK y \in Nat : y = Len(Ragged(w, FrameSpan))
    BY <2>1
  <2>5. Len(w) \in Nat /\ y = Len(w) - x
    BY <1>2, <1>4, <2>3, <2>4
  <2>6. x <= Len(w)
    BY <2>5
  <2>7. QED BY <2>2, <2>3, <2>6
<1>7. \E n \in 0 .. HalfFrame - 1 : Len(Ragged(w, FrameSpan)) = Decim * n
  <2>1. Len(w) = Decim * (n0 + l) /\ FrameSpan * m = Decim * (HalfFrame * m)
    <3>1. Decim * n0 + Decim * l = Decim * (n0 + l)
      BY <1>1
    <3>2. (HalfFrame * Decim) * m = Decim * (HalfFrame * m)
      BY <1>1
    <3>3. QED BY <1>1, <1>2, <3>1, <3>2
  <2>2. PICK n \in Int : n = n0 + l - HalfFrame * m
    BY <1>1
  <2>3. Len(Ragged(w, FrameSpan)) = Decim * n
    <3>1. PICK y \in Int : y = HalfFrame * m
      BY <1>1
    <3>2. Decim * (n0 + l) - Decim * y = Decim * (n0 + l - y)
      BY <1>1
    <3>3. QED BY <1>4, <2>1, <2>2, <3>1, <3>2
  <2>4. Decim * n >= 0 /\ Decim * n < HalfFrame * Decim
    <3>1. Len(Ragged(w, FrameSpan)) \in Nat
      BY <1>4
    <3>2. Len(Ragged(w, FrameSpan)) < HalfFrame * Decim
      BY <1>1, <1>4
    <3>3. Len(Ragged(w, FrameSpan)) >= 0
      BY <3>1
    <3>4. QED BY <2>3, <3>2, <3>3
  <2>5. n >= 0 /\ n < HalfFrame
    BY <1>0, <2>4
  <2>6. n \in 0 .. HalfFrame - 1
    BY <1>0, <2>5
  <2>7. QED BY <2>3, <2>6
<1>8. Len(Frames(w)) * FrameSpan + Len(Ragged(w, FrameSpan)) = Len(k0) + Len(c)
  <2>1. PICK x \in Nat : x = FrameSpan * m
    BY <1>6
  <2>2. Len(Frames(w)) * FrameSpan = x
    BY <1>5, <1>6, <2>1
  <2>3. Len(Ragged(w, FrameSpan)) = Len(w) - x
    BY <1>4, <2>1
  <2>4. x + (Len(w) - x) = Len(w)
    BY <1>2
  <2>5. Len(Frames(w)) * FrameSpan + Len(Ragged(w, FrameSpan)) = Len(w)
    BY <2>2, <2>3, <2>4
  <2>6. QED BY <1>2, <2>5
<1>9. ASSUME NEW k \in 1 .. m, Whole(Frames(w)[k])
      PROVE  st + (k - 1) * FrameSpan - Head(Frames(w)[k]) = Decim * n0
  <2>1. PICK g \in Seq(Int) : g = Frames(w)[k]
    BY <1>5
  <2>2. PICK o \in Nat : o = (k - 1) * FrameSpan
    BY <1>5
  <2>3. /\ Len(g) = FrameSpan /\ o + FrameSpan <= Len(w)
        /\ \A x \in 1 .. FrameSpan : g[x] = w[o + x]
    <3>1. o + FrameSpan = k * FrameSpan /\ k * FrameSpan <= FrameSpan * m
      BY <1>5, <2>2
    <3>2. k * FrameSpan \in Int
      BY <1>1
    <3>3. o + FrameSpan <= Len(w)
      BY <1>2, <1>6, <3>1, <3>2
    <3>4. QED BY <1>5, <2>1, <2>2, <3>3
  <2>4. g[FrameSpan] = g[1] + FrameSpan - 1 /\ g[1] \in Int
    <3>1. Whole(g) /\ Len(g) > 0
      BY <1>1, <1>9, <2>1, <2>3
    <3>2. \A i \in 1 .. Len(g) : g[i] = g[1] + i - 1
      BY <3>1, WholeRuns
    <3>3. 1 \in 1 .. FrameSpan /\ FrameSpan \in 1 .. FrameSpan
      BY <1>0
    <3>4. g[1] \in Int
      BY <2>3, <3>3
    <3>5. QED BY <2>3, <3>2, <3>3, <3>4
  <2>5. PICK j \in Int : j = o + FrameSpan - Len(k0)
    BY <1>1, <1>2
  <2>6. j \in Decim .. Len(c) /\ j \in 1 .. Len(c) /\ Len(k0) + j = o + FrameSpan
    <3>1. Len(k0) + Decim <= FrameSpan
      <4>1. n0 \in Int /\ n0 + 1 <= HalfFrame
        BY <1>1
      <4>2. Decim * (n0 + 1) <= HalfFrame * Decim
        BY <1>1, <4>1
      <4>3. Decim * (n0 + 1) = Decim * n0 + Decim
        BY <1>1
      <4>4. QED BY <1>1, <1>2, <4>2, <4>3
    <3>2. Decim <= j /\ j <= Len(c) /\ Len(k0) + j = o + FrameSpan
      <4>1. FrameSpan \in Nat /\ Len(w) = Len(k0) + Len(c) /\ Len(k0) \in Nat
            /\ Len(c) \in Nat /\ o + FrameSpan <= Len(w)
        BY <1>0, <1>2, <2>3
      <4>2. Decim \in Nat
        BY <1>0
      <4>3. QED BY <2>5, <3>1, <4>1, <4>2
    <3>3. QED BY <1>0, <1>2, <3>2
  <2>7. g[FrameSpan] = st + j - 1
    <3>1. FrameSpan \in 1 .. FrameSpan
      BY <1>0
    <3>2. g[FrameSpan] = w[o + FrameSpan]
      BY <2>3, <3>1
    <3>3. w[Len(k0) + j] = c[j] /\ c[j] = st + j - 1
      BY <1>2, <2>6
    <3>4. QED BY <2>6, <3>2, <3>3
  <2>8. Head(g) = g[1]
    <3>1. g # <<>>
      BY <1>1, <2>3
    <3>2. QED BY <3>1
  <2>9. st + o - g[1] = Len(k0)
    <3>1. g[1] + FrameSpan - 1 = st + j - 1
      BY <2>4, <2>7
    <3>2. FrameSpan \in Nat /\ Len(k0) \in Nat /\ g[1] \in Int
      BY <1>0, <1>2, <2>4
    <3>3. \A x, y \in Int : x + FrameSpan - 1 = st + y - 1 => st - x = FrameSpan - y
      BY <3>2
    <3>4. st - g[1] = FrameSpan - j
      BY <3>1, <3>2, <3>3
    <3>5. PICK x \in Int : x = g[1]
      BY <3>2
    <3>6. PICK y \in Int : y = Len(k0)
      BY <3>2
    <3>7. PICK z \in Int : z = FrameSpan
      BY <3>2
    <3>8. st - x = z - j /\ j = o + z - y
      BY <2>5, <3>4, <3>5, <3>6, <3>7
    <3>9. st \in Int
      OBVIOUS
    <3>10. st + o - x = y
      BY <3>8, <3>9
    <3>11. QED BY <3>5, <3>6, <3>10
  <2>10. QED BY <2>1, <2>2, <2>8, <2>9
<1>10. ASSUME NEW r \in Seq(Int)
       PROVE  /\ Mixed(Frames(w)) \in Nat
              /\ Mixed(Frames(w)) + Cardinality(Breaks(r))
                   <= Cardinality(Breaks(Cat(Filled(w, FrameSpan), r)))
  <2>1. PICK h \in Seq(Int) : h = Filled(w, FrameSpan)
    BY <1>4
  <2>2. Len(h) = m * FrameSpan
    BY <1>4, <1>6, <2>1
  <2>3. ASSUME NEW k \in 1 .. m
        PROVE  /\ Len(Frames(w)[k]) = FrameSpan
               /\ \A x \in 1 .. FrameSpan : Frames(w)[k][x] = h[(k - 1) * FrameSpan + x]
    <3>1. PICK o \in Nat : o = (k - 1) * FrameSpan
      BY <1>5
    <3>2. o + FrameSpan <= FrameSpan * m
      BY <1>5, <3>1
    <3>3. ASSUME NEW x \in 1 .. FrameSpan PROVE Frames(w)[k][x] = h[o + x]
      <4>1. o + x \in 1 .. FrameSpan * m
        BY <1>1, <1>6, <3>2
      <4>2. Frames(w)[k][x] = w[o + x]
        BY <1>5, <3>1
      <4>3. h[o + x] = w[o + x]
        BY <1>4, <2>1, <4>1
      <4>4. QED BY <4>2, <4>3
    <3>4. Len(Frames(w)[k]) = FrameSpan
      BY <1>5
    <3>5. QED BY <3>1, <3>3, <3>4
  <2>4. Joins(Cat(h, r), h, r)
    BY CatJoins
  <2>5. DOMAIN Frames(w) = 1 .. m
    BY <1>5
  <2>6. /\ Mixed(Frames(w)) \in Nat
        /\ Mixed(Frames(w)) + Cardinality(Breaks(r)) <= Cardinality(Breaks(Cat(h, r)))
    <3>1. PICK fs : fs = Frames(w)
      OBVIOUS
    <3>2. Spoils(h, r, m, FrameSpan, fs)
      BY <1>0, <2>2, <2>3, <2>5, <3>1 DEF Spoils
    <3>3. QED BY <2>4, <3>1, <3>2, MixedTakeBreaks
  <2>7. QED BY <2>1, <2>6
<1>11. Mixed(Frames(w)) \in Nat
  BY <1>4, <1>10
<1>12. Len(Frames(w)) \in Nat
  BY <1>5
<1>13. QED BY <1>2, <1>4, <1>5, <1>7, <1>8, <1>9, <1>10, <1>11, <1>12
LEMMA AheadIs ==
  ASSUME NEW c \in Seq(Int), NEW p \in Int
  PROVE  /\ Cat(c, <<p>>) \in Seq(Int) /\ Cat(c, <<p>>) # <<>>
BY DEF Cat

LEMMA OneIs ==
  ASSUME NEW p \in Int
  PROVE  \E d \in Seq(Int) : d = <<p>> /\ Len(d) = 1 /\ d[1] = p
<1>1. <<p>> \in Seq(Int) /\ Len(<<p>>) = 1 /\ <<p>>[1] = p
  OBVIOUS
<1>2. QED BY <1>1, Zenon

LEMMA LaneStarts == LaneInit => LaneInv
<1> SUFFICES ASSUME LaneInit PROVE LaneInv
  OBVIOUS
<1>1. /\ Decim \in Nat \ {0} /\ HalfFrame \in Nat \ {0} /\ FrameSpan \in Nat \ {0}
  BY LaneWidths
<1>2. /\ position = 0 /\ ddcCarry = <<>> /\ bankCarry = <<>> /\ sub = NoSub
      /\ emitted = [stamp |-> 0, frames |-> <<>>]
      /\ gaps = 0 /\ mixed = 0 /\ framed = 0 /\ unsent = 0
      /\ Len(ddcCarry) = 0 /\ Len(bankCarry) = 0
  BY DEF LaneInit
<1>3. LaneTypeOK
  BY <1>2, EmptySeq, NoSubIs DEF LaneTypeOK
<1>4. CarriesAreShort
  <2>1. Decim * 0 = 0 /\ 0 \in 0 .. HalfFrame - 1
    BY <1>1
  <2>2. QED BY <1>1, <1>2, <2>1 DEF CarriesAreShort
<1>5. Stamped(sub)
  BY <1>2, NoSubIs
<1>6. SkipsAreLosses
  <2>1. Pending = <<0>>
    <3>1. <<>> \in Seq(Int) /\ <<0>> \in Seq(Int)
      OBVIOUS
    <3>2. Cat(<<>>, <<0>>) = <<0>> /\ Cat(<<>>, <<>>) = <<>>
      BY <3>1, ConcatEmptySeq DEF Cat
    <3>3. QED BY <1>2, <3>2, NoSubIs DEF Pending, Ahead
  <2>2. Breaks(Pending) = {}
    <3>1. Len(<<0>>) - 1 = 0
      OBVIOUS
    <3>2. QED BY <2>1, <3>1 DEF Breaks
  <2>3. Cardinality(Breaks(Pending)) = 0
    BY <2>2, FS_EmptySet
  <2>4. QED BY <1>2, <2>3 DEF SkipsAreLosses
<1>7. SamplesAreSomewhere
  <2>1. 0 * FrameSpan = 0
    BY <1>1
  <2>2. QED BY <1>2, <2>1, NoSubIs DEF SamplesAreSomewhere
<1>8. StampsAreClose
  <2>1. DOMAIN emitted.frames = {}
    BY <1>2
  <2>2. QED BY <2>1 DEF StampsAreClose
<1>9. QED BY <1>3, <1>4, <1>5, <1>6, <1>7, <1>8 DEF LaneInv

\* A block of the radio's turns into a lane block and what is carried over.
LEMMA DdcKeeps ==
  ASSUME LaneInv, DdcRuns
  PROVE  LaneInv'
<1>1. /\ Decim \in Nat \ {0} /\ HalfFrame \in Nat \ {0} /\ FrameSpan \in Nat \ {0}
  BY LaneWidths
<1>2. /\ position \in Nat /\ ddcCarry \in Seq(Int) /\ bankCarry \in Seq(Int)
      /\ sub \in LaneBlocks /\ gaps \in Nat /\ mixed \in Nat /\ framed \in Nat
      /\ unsent \in Nat /\ Len(ddcCarry) < Decim /\ Stamped(sub)
  BY DEF LaneInv, LaneTypeOK, CarriesAreShort
<1>3. PICK n \in BlockSizes :
        /\ position' = position + n
        /\ ddcCarry' = Ragged(ddcCarry \o Block(n), Decim)
        /\ sub' = IF Len(ddcCarry \o Block(n)) < Decim THEN NoSub
                  ELSE [base |-> DdcBase(position),
                        samples |-> Filled(ddcCarry \o Block(n), Decim), done |-> 0]
  BY DEF DdcRuns
<1>4. n \in Nat \ {0}
  BY LaneAssumption
<1>5. PICK r \in Seq(Int) : /\ r = Block(n) /\ Len(r) = n
                            /\ \A i \in 1 .. n : r[i] = position + i - 1
  <2>1. /\ Block(n) \in Seq(Int) /\ Len(Block(n)) = n
        /\ \A i \in 1 .. n : Block(n)[i] = position + i - 1
    BY <1>2, <1>4 DEF Block
  <2>2. QED BY <2>1
<1>6. PICK w \in Seq(Int) : w = Cat(ddcCarry, r)
  BY <1>2, CatIs
<1>7. PICK b : b = sub'
  OBVIOUS
<1>8. /\ ddcCarry' = Ragged(w, Decim)
      /\ b = IF Len(w) < Decim THEN NoSub
             ELSE [base |-> position - Len(ddcCarry), samples |-> Filled(w, Decim),
                   done |-> 0]
  BY <1>3, <1>5, <1>6, <1>7 DEF Cat, DdcBase
<1>9. /\ Stamped(b) /\ b.done * Decim = 0 /\ b \in LaneBlocks
      /\ ddcCarry' \in Seq(Int) /\ Len(ddcCarry') < Decim
      /\ Cat(RestOf(b), ddcCarry') = w
      /\ Len(b.samples) + Len(ddcCarry') = Len(ddcCarry) + Len(r)
  <2>1. \A i \in 1 .. Len(r) : r[i] = position + i - 1
    BY <1>5
  <2>2. /\ b \in LaneBlocks /\ Stamped(b) /\ b.done * Decim = 0
        /\ Ragged(w, Decim) \in Seq(Int) /\ Len(Ragged(w, Decim)) < Decim
        /\ Cat(RestOf(b), Ragged(w, Decim)) = w
        /\ Len(b.samples) + Len(Ragged(w, Decim)) = Len(ddcCarry) + Len(r)
    <3>1. Makes(b, ddcCarry, position, r, w)
      BY <1>2, <1>6, <1>8, <2>1 DEF Makes
    <3>2. QED BY <3>1, DdcMakes
  <2>3. QED BY <1>8, <2>2
<1>10. /\ UNCHANGED <<bankCarry, emitted, gaps, mixed, framed, unsent>> /\ sub = NoSub
  BY DEF DdcRuns, Idle
<1>11. LaneTypeOK'
  BY <1>2, <1>3, <1>4, <1>7, <1>9, <1>10 DEF LaneTypeOK
<1>12. CarriesAreShort'
  BY <1>9, <1>10 DEF LaneInv, CarriesAreShort
<1>13. SkipsAreLosses'
  <2>1. PICK p \in Nat : p = position /\ p + n = position'
    BY <1>2, <1>3
  <2>2. PICK k \in Seq(Int) : k = bankCarry /\ k = bankCarry'
    BY <1>2, <1>10
  <2>3. PICK c \in Seq(Int) : c = ddcCarry
    BY <1>2
  <2>4. PICK c1 \in Seq(Int) : c1 = ddcCarry'
    BY <1>9
  <2>5. PICK u \in Seq(Int) : u = Cat(k, c)
    BY CatIs
  <2>6. PICK d \in Seq(Int) : d = <<p>> /\ Len(d) = 1 /\ d[1] = p
    <3>1. p \in Int
      OBVIOUS
    <3>2. QED BY <3>1, OneIs, Zenon
  <2>7. PICK e \in Seq(Int) : e = <<p + n>> /\ Len(e) = 1 /\ e[1] = p + n
    <3>1. p + n \in Int
      BY <1>4
    <3>2. QED BY <3>1, OneIs, Zenon
  <2>8. Pending = Cat(u, d)
    <3>1. PICK nil \in Seq(Int) : nil = <<>>
      BY EmptySeq
    <3>2. RestOf(sub) = nil
      BY <1>10, <3>1, NoSubIs
    <3>3. Cat(k, nil) = k
      BY <3>1, ConcatEmptySeq DEF Cat
    <3>4. Pending = Cat(Cat(k, nil), Cat(c, d))
      BY <2>1, <2>2, <2>3, <2>6, <3>2 DEF Pending, Ahead
    <3>5. QED BY <2>5, <3>3, <3>4, CatIs
  <2>9. Pending' = Cat(Cat(u, r), e)
    <3>1. PICK f \in Seq(Int) : f = RestOf(b)
      BY <1>9, RestIs
    <3>2. Pending' = Cat(Cat(k, f), Cat(c1, e))
      BY <1>7, <2>1, <2>2, <2>4, <2>7, <3>1 DEF Pending, Ahead
    <3>3. Pending' = Cat(Cat(k, Cat(f, c1)), e)
      BY <3>2, Regroup
    <3>4. Cat(f, c1) = Cat(c, r)
      BY <1>6, <1>9, <2>3, <2>4, <3>1
    <3>5. Cat(k, Cat(c, r)) = Cat(u, r)
      BY <2>5, CatIs
    <3>6. QED BY <3>3, <3>4, <3>5
  <2>10. Breaks(Cat(Cat(u, r), e)) = Breaks(Cat(u, d))
    <3>1. PICK ur \in Seq(Int) : ur = Cat(u, r)
      BY CatIs
    <3>6. PICK s : s = Cat(ur, e)
      OBVIOUS
    <3>7. PICK t : t = Cat(u, d)
      OBVIOUS
    <3>2. Joins(ur, u, r) /\ Joins(s, ur, e) /\ Joins(t, u, d)
      BY <3>1, <3>6, <3>7, CatJoins
    <3>3. e[1] = p + Len(r) /\ \A i \in 1 .. Len(r) : r[i] = p + i - 1
      BY <1>5, <2>1, <2>7
    <3>4. Breaks(s) = Breaks(t)
      <4>1. p \in Int
        OBVIOUS
      <4>2. Goes(u, r, p, d, e)
        BY <2>6, <2>7, <3>3, <4>1 DEF Goes
      <4>3. QED BY <3>2, <4>2, RunAddsNoBreak
    <3>5. QED BY <3>1, <3>4, <3>6, <3>7
  <2>11. mixed + Cardinality(Breaks(Pending)) <= gaps
    BY DEF LaneInv, SkipsAreLosses
  <2>12. mixed' + Cardinality(Breaks(Pending')) <= gaps'
    BY <1>10, <2>8, <2>9, <2>10, <2>11
  <2>13. QED BY <2>12 DEF SkipsAreLosses
<1>14. SamplesAreSomewhere'
  <2>1. position = unsent + framed * FrameSpan + Len(ddcCarry) + Len(bankCarry) + 0 - 0
    BY <1>10, NoSubIs DEF LaneInv, SamplesAreSomewhere
  <2>2. PICK x \in Int : x = framed * FrameSpan
    BY <1>1, <1>2
  <2>3. /\ Len(ddcCarry) \in Nat /\ Len(bankCarry) \in Nat /\ Len(ddcCarry') \in Nat
        /\ Len(b.samples) \in Nat
    BY <1>2, <1>9 DEF LaneBlocks
  <2>4. Len(b.samples) + Len(ddcCarry') = Len(ddcCarry) + n
    BY <1>5, <1>9
  <2>5. position + n = unsent + x + Len(ddcCarry') + Len(bankCarry) + Len(b.samples) - 0
    <3>1. PICK k \in Int : k = Len(bankCarry)
      BY <2>3
    <3>2. PICK c \in Int : c = Len(ddcCarry)
      BY <2>3
    <3>3. PICK c1 \in Int : c1 = Len(ddcCarry')
      BY <2>3
    <3>4. PICK m \in Int : m = Len(b.samples)
      BY <2>3
    <3>5. position = unsent + x + c + k + 0 - 0 /\ m + c1 = c + n
      BY <2>1, <2>2, <2>4, <3>1, <3>2, <3>3, <3>4
    <3>6. position + n = unsent + x + c1 + k + m - 0
      BY <1>2, <1>4, <3>5
    <3>7. QED BY <3>1, <3>3, <3>4, <3>6
  <2>6. QED BY <1>3, <1>7, <1>9, <1>10, <2>2, <2>5 DEF SamplesAreSomewhere
<1>15. StampsAreClose'
  BY <1>10 DEF LaneInv, StampsAreClose
<1>16. Stamped(sub)'
  BY <1>7, <1>9 DEF Stamped
<1>17. QED BY <1>11, <1>12, <1>13, <1>14, <1>15, <1>16 DEF LaneInv
\* What is lost makes one skip at most.
LEMMA SkipOnce ==
  ASSUME NEW k \in Seq(Int), NEW f \in Seq(Int), NEW a \in Seq(Int), a # <<>>
  PROVE  Cardinality(Breaks(Cat(Cat(k, <<>>), a)))
           <= Cardinality(Breaks(Cat(Cat(k, f), a))) + 1
<1>1. PICK kf \in Seq(Int) : kf = Cat(k, f)
  BY CatIs
<1>2. PICK s : s = Cat(k, a)
  OBVIOUS
<1>3. PICK t : t = Cat(kf, a)
  OBVIOUS
<1>4. Joins(s, k, a) /\ Joins(kf, k, f) /\ Joins(t, kf, a)
  BY <1>1, <1>2, <1>3, CatJoins
<1>5. Cardinality(Breaks(s)) <= Cardinality(Breaks(t)) + 1
  BY <1>4, CutBreaksOnce
<1>6. Cat(k, <<>>) = k
  BY ConcatEmptySeq DEF Cat
<1>7. QED BY <1>1, <1>2, <1>3, <1>5, <1>6

LEMMA PendingIsSeq ==
  ASSUME LaneInv
  PROVE  /\ RestOf(sub) \in Seq(Int) /\ Ahead \in Seq(Int) /\ Ahead # <<>>
         /\ Pending \in Seq(Int) /\ Cardinality(Breaks(Pending)) \in Nat
<1>1. RestOf(sub) \in Seq(Int)
  BY RestIs DEF LaneInv, LaneTypeOK
<1>2. Ahead \in Seq(Int) /\ Ahead # <<>>
  BY AheadIs DEF LaneInv, LaneTypeOK, Ahead
<1>3. PICK u \in Seq(Int) : u = Cat(bankCarry, RestOf(sub))
  BY <1>1, CatIs DEF LaneInv, LaneTypeOK
<1>4. Pending \in Seq(Int)
  BY <1>2, <1>3, CatIs DEF Pending
<1>5. QED BY <1>1, <1>2, <1>4, BreaksCounted

\* A block of the radio's is lost.
LEMMA RadioLossKeeps ==
  ASSUME LaneInv, RadioBlockLost
  PROVE  LaneInv'
<1>1. /\ Decim \in Nat \ {0} /\ HalfFrame \in Nat \ {0} /\ FrameSpan \in Nat \ {0}
  BY LaneWidths
<1>2. /\ position \in Nat /\ ddcCarry \in Seq(Int) /\ bankCarry \in Seq(Int)
      /\ sub \in LaneBlocks /\ gaps \in Nat /\ mixed \in Nat /\ framed \in Nat
      /\ unsent \in Nat /\ Stamped(sub)
  BY DEF LaneInv, LaneTypeOK
<1>3. PICK n \in Nat : position' = position + n /\ unsent' = unsent + n
  BY LaneAssumption DEF RadioBlockLost
<1>4. /\ UNCHANGED <<ddcCarry, bankCarry, sub, emitted, mixed, framed>>
      /\ gaps' = gaps + 1
  BY DEF RadioBlockLost
<1>5. LaneTypeOK'
  BY <1>2, <1>3, <1>4 DEF LaneTypeOK
<1>6. CarriesAreShort' /\ StampsAreClose' /\ Stamped(sub)'
  BY <1>4 DEF LaneInv, CarriesAreShort, StampsAreClose, Stamped
<1>7. SkipsAreLosses'
  <2>1. PICK d \in Seq(Int) : d = <<position>> /\ Len(d) = 1 /\ d[1] = position
    <3>1. position \in Int
      BY <1>2
    <3>2. QED BY <3>1, OneIs
  <2>2. PICK e \in Seq(Int) : e = <<position'>> /\ Len(e) = 1 /\ e[1] = position'
    <3>1. position' \in Int
      BY <1>2, <1>3
    <3>2. QED BY <3>1, OneIs
  <2>3. PICK v \in Seq(Int) : v = Cat(bankCarry, RestOf(sub))
    BY <1>2, CatIs, PendingIsSeq
  <2>4. PICK u \in Seq(Int) : u = Cat(v, ddcCarry)
    BY <1>2, CatIs
  <2>5. Pending = Cat(u, d)
    <3>1. Pending = Cat(v, Cat(ddcCarry, d))
      BY <2>1, <2>3 DEF Pending, Ahead
    <3>2. QED BY <1>2, <2>4, <3>1, CatIs
  <2>6. Pending' = Cat(u, e)
    <3>1. Pending' = Cat(v, Cat(ddcCarry, e))
      BY <1>4, <2>2, <2>3 DEF Pending, Ahead
    <3>2. QED BY <1>2, <2>4, <3>1, CatIs
  <2>7. PICK s : s = Pending'
    OBVIOUS
  <2>8. PICK t : t = Pending
    OBVIOUS
  <2>9. Joins(s, u, e) /\ Joins(t, u, d)
    BY <2>5, <2>6, <2>7, <2>8, CatJoins
  <2>10. Cardinality(Breaks(s)) <= Cardinality(Breaks(t)) + 1
    BY <2>1, <2>2, <2>9, JumpBreaksOnce
  <2>11. /\ Cardinality(Breaks(s)) \in Nat /\ Cardinality(Breaks(t)) \in Nat
    <3>1. s \in Seq(Int) /\ t \in Seq(Int)
      BY <2>9 DEF Joins
    <3>2. QED BY <3>1, BreaksCounted
  <2>12. mixed + Cardinality(Breaks(t)) <= gaps
    BY <2>8 DEF LaneInv, SkipsAreLosses
  <2>13. mixed + Cardinality(Breaks(s)) <= gaps + 1
    BY <1>2, <2>10, <2>11, <2>12
  <2>14. QED BY <1>4, <2>7, <2>13 DEF SkipsAreLosses
<1>8. SamplesAreSomewhere'
  <2>1. PICK x \in Int : x = Len(sub.samples)
    BY <1>2 DEF LaneBlocks
  <2>2. PICK y \in Int : y = framed * FrameSpan
    BY <1>1, <1>2
  <2>3. PICK o \in Int : o = sub.done * Decim
    BY <1>1, <1>2 DEF LaneBlocks
  <2>4. Len(ddcCarry) \in Int /\ Len(bankCarry) \in Int
    BY <1>2
  <2>5. position = unsent + y + Len(ddcCarry) + Len(bankCarry) + x - o
    BY <2>1, <2>2, <2>3 DEF LaneInv, SamplesAreSomewhere
  <2>6. position + n = unsent + n + y + Len(ddcCarry) + Len(bankCarry) + x - o
    BY <1>2, <2>4, <2>5
  <2>7. QED BY <1>3, <1>4, <2>1, <2>2, <2>3, <2>6 DEF SamplesAreSomewhere
<1>9. QED BY <1>5, <1>6, <1>7, <1>8 DEF LaneInv

\* The lane block held is given up, the whole of it or what is left.
LEMMA GivingUpKeeps ==
  ASSUME LaneInv, sub' = NoSub, gaps' = gaps + 1,
         unsent' = unsent + Len(sub.samples) - sub.done * Decim,
         UNCHANGED <<position, ddcCarry, bankCarry, emitted, mixed, framed>>
  PROVE  LaneInv'
<1>1. /\ Decim \in Nat \ {0} /\ HalfFrame \in Nat \ {0} /\ FrameSpan \in Nat \ {0}
  BY LaneWidths
<1>2. /\ position \in Nat /\ ddcCarry \in Seq(Int) /\ bankCarry \in Seq(Int)
      /\ sub \in LaneBlocks /\ gaps \in Nat /\ mixed \in Nat /\ framed \in Nat
      /\ unsent \in Nat /\ Stamped(sub)
  BY DEF LaneInv, LaneTypeOK
<1>3. PICK x \in Nat : x = Len(sub.samples) - sub.done * Decim
  <2>1. PICK l \in Nat : l = Len(sub.samples)
    BY <1>2 DEF LaneBlocks
  <2>2. PICK o \in Nat : o = sub.done * Decim
    BY <1>1, <1>2 DEF LaneBlocks
  <2>3. o <= l
    BY <1>2, <2>1, <2>2, RestIs
  <2>4. QED BY <2>1, <2>2, <2>3
<1>4. LaneTypeOK'
  <2>1. unsent' = unsent + x
    <3>1. Len(sub.samples) \in Int /\ sub.done * Decim \in Int
      BY <1>1, <1>2 DEF LaneBlocks
    <3>2. QED BY <1>2, <1>3, <3>1
  <2>2. QED BY <1>2, <2>1, NoSubIs DEF LaneTypeOK
<1>5. CarriesAreShort' /\ StampsAreClose'
  BY DEF LaneInv, CarriesAreShort, StampsAreClose
<1>6. Stamped(sub)'
  BY NoSubIs DEF Stamped
<1>7. SkipsAreLosses'
  <2>1. Pending' = Cat(Cat(bankCarry, <<>>), Ahead)
    BY NoSubIs DEF Pending, Ahead
  <2>2. Cardinality(Breaks(Pending')) <= Cardinality(Breaks(Pending)) + 1
    BY <1>2, <2>1, PendingIsSeq, SkipOnce DEF Pending
  <2>3. Cardinality(Breaks(Pending)) \in Nat
    BY PendingIsSeq
  <2>4. Cardinality(Breaks(Pending')) \in Nat
    <3>1. PICK nil \in Seq(Int) : nil = <<>>
      BY EmptySeq
    <3>2. PICK v \in Seq(Int) : v = Cat(bankCarry, nil)
      BY <1>2, CatIs
    <3>3. PICK t \in Seq(Int) : t = Cat(v, Ahead)
      BY PendingIsSeq, CatIs
    <3>4. Pending' = t
      BY <2>1, <3>1, <3>2, <3>3
    <3>5. QED BY <3>4, BreaksCounted
  <2>5. mixed + Cardinality(Breaks(Pending)) <= gaps
    BY DEF LaneInv, SkipsAreLosses
  <2>6. mixed + Cardinality(Breaks(Pending')) <= gaps + 1
    BY <1>2, <2>2, <2>3, <2>4, <2>5
  <2>7. QED BY <2>6 DEF SkipsAreLosses
<1>8. SamplesAreSomewhere'
  <2>1. PICK y \in Int : y = framed * FrameSpan
    BY <1>1, <1>2
  <2>2. PICK l \in Int : l = Len(sub.samples)
    BY <1>2 DEF LaneBlocks
  <2>3. PICK o \in Int : o = sub.done * Decim
    BY <1>1, <1>2 DEF LaneBlocks
  <2>4. Len(ddcCarry) \in Int /\ Len(bankCarry) \in Int
    BY <1>2
  <2>5. position = unsent + y + Len(ddcCarry) + Len(bankCarry) + l - o
    BY <2>1, <2>2, <2>3 DEF LaneInv, SamplesAreSomewhere
  <2>6. position = unsent + l - o + y + Len(ddcCarry) + Len(bankCarry) + 0 - 0
    BY <1>2, <2>4, <2>5
  <2>7. QED BY <2>1, <2>2, <2>3, <2>6, NoSubIs DEF SamplesAreSomewhere
<1>9. QED BY <1>4, <1>5, <1>6, <1>7, <1>8 DEF LaneInv

LEMMA LaneLossKeeps ==
  ASSUME LaneInv, LaneBlockLost
  PROVE  LaneInv'
<1>1. /\ sub' = NoSub /\ gaps' = gaps + 1 /\ unsent' = unsent + Len(sub.samples)
      /\ sub.done = 0
      /\ UNCHANGED <<position, ddcCarry, bankCarry, emitted, mixed, framed>>
  BY DEF LaneBlockLost
<1>2. unsent' = unsent + Len(sub.samples) - sub.done * Decim
  <2>1. unsent \in Nat /\ Len(sub.samples) \in Nat
    BY DEF LaneInv, LaneTypeOK, LaneBlocks
  <2>2. sub.done * Decim = 0
    BY <1>1, LaneWidths
  <2>3. QED BY <1>1, <2>1, <2>2
<1>3. QED BY <1>1, <1>2, GivingUpKeeps

LEMMA GiveUpKeeps ==
  ASSUME LaneInv, BankGivesUp
  PROVE  LaneInv'
BY GivingUpKeeps DEF BankGivesUp

\* A chunk of the lane block goes through the bank.
LEMMA BankKeepsInv ==
  ASSUME LaneInv, BankRuns
  PROVE  LaneInv'
<1>1. /\ Decim \in Nat \ {0} /\ HalfFrame \in Nat \ {0} /\ FrameSpan \in Nat \ {0}
  BY LaneWidths
<1>2. /\ position \in Nat /\ ddcCarry \in Seq(Int) /\ bankCarry \in Seq(Int)
      /\ sub \in LaneBlocks /\ gaps \in Nat /\ mixed \in Nat /\ framed \in Nat
      /\ unsent \in Nat /\ Stamped(sub) /\ Len(ddcCarry) < Decim
  BY DEF LaneInv, LaneTypeOK, CarriesAreShort
<1>3. PICK n0 \in 0 .. HalfFrame - 1 : Len(bankCarry) = Decim * n0
  BY DEF LaneInv, CarriesAreShort
<1>4. PICK c : c = Chunk
  OBVIOUS
<1>5. PICK b : b = sub'
  OBVIOUS
<1>6. /\ b \in LaneBlocks /\ Stamped(b) /\ c \in Seq(Int)
      /\ Cat(c, RestOf(b)) = RestOf(sub)
      /\ \E l \in Nat : Len(c) = Decim * l
      /\ Len(sub.samples) - sub.done * Decim = Len(c) + (Len(b.samples) - b.done * Decim)
      /\ \A j \in Decim .. Len(c) : c[j] = sub.base + sub.done * Decim + j - 1
  <2>1. sub.samples # <<>> /\ b = IF Fed < SubCount THEN [sub EXCEPT !.done = Fed] ELSE NoSub
    BY <1>5 DEF BankRuns
  <2>2. PICK q : q = SubCount /\ q = Len(sub.samples) \div Decim
    BY DEF SubCount
  <2>3. PICK fed : fed = Fed /\ fed = IF sub.done + MaxChunk < q THEN sub.done + MaxChunk ELSE q
    BY <2>2 DEF Fed
  <2>4. c = SubSeq(sub.samples, sub.done * Decim + 1, fed * Decim)
    BY <1>4, <2>3 DEF Chunk
  <2>5. b = IF fed < q THEN [sub EXCEPT !.done = fed] ELSE NoSub
    BY <2>1, <2>2, <2>3
  <2>6. Takes(sub, q, fed, c, b)
    BY <1>2, <2>1, <2>2, <2>3, <2>4, <2>5 DEF Takes
  <2>7. QED BY <2>6, Feeds
<1>7. PICK l \in Nat : Len(c) = Decim * l
  BY <1>6
<1>8. PICK w : w = Cat(bankCarry, c)
  OBVIOUS
<1>9. PICK st \in Int : st = FrameBase /\ st = sub.base + sub.done * Decim
  BY <1>1, <1>2 DEF FrameBase, LaneBlocks
<1>10. /\ w \in Seq(Int) /\ Filled(w, FrameSpan) \in Seq(Int)
       /\ Ragged(w, FrameSpan) \in Seq(Int)
       /\ Cat(Filled(w, FrameSpan), Ragged(w, FrameSpan)) = w
       /\ \E n \in 0 .. HalfFrame - 1 : Len(Ragged(w, FrameSpan)) = Decim * n
       /\ Len(Frames(w)) \in Nat
       /\ Len(Frames(w)) * FrameSpan + Len(Ragged(w, FrameSpan)) = Len(bankCarry) + Len(c)
       /\ \A k \in DOMAIN Frames(w) :
            Whole(Frames(w)[k]) =>
              st + (k - 1) * FrameSpan - Head(Frames(w)[k]) = Decim * n0
       /\ Mixed(Frames(w)) \in Nat
       /\ \A r \in Seq(Int) :
            Mixed(Frames(w)) + Cardinality(Breaks(r))
              <= Cardinality(Breaks(Cat(Filled(w, FrameSpan), r)))
  <2>1. \A j \in Decim .. Len(c) : c[j] = st + j - 1
    BY <1>6, <1>9
  <2>2. Gathers(bankCarry, n0, c, l, st, w)
    BY <1>2, <1>3, <1>6, <1>7, <1>8, <2>1 DEF Gathers
  <2>3. QED BY <2>2, BankCuts
<1>11. /\ emitted' = [stamp |-> st, frames |-> Frames(w)]
       /\ bankCarry' = Ragged(w, FrameSpan)
       /\ mixed' = mixed + Mixed(Frames(w))
       /\ framed' = framed + Len(Frames(w))
       /\ UNCHANGED <<position, ddcCarry, gaps, unsent>>
  BY <1>4, <1>8, <1>9 DEF BankRuns, BankKeeps, Cat
<1>12. LaneTypeOK'
  <2>1. mixed' \in Nat /\ framed' \in Nat
    <3>1. \A x, y \in Nat : x + y \in Nat
      OBVIOUS
    <3>2. QED BY <1>2, <1>10, <1>11, <3>1
  <2>2. /\ position' \in Nat /\ ddcCarry' \in Seq(Int) /\ bankCarry' \in Seq(Int)
        /\ sub' \in LaneBlocks /\ gaps' \in Nat /\ unsent' \in Nat
    BY <1>2, <1>5, <1>6, <1>10, <1>11
  <2>3. QED BY <2>1, <2>2 DEF LaneTypeOK
<1>13. CarriesAreShort'
  BY <1>2, <1>10, <1>11 DEF CarriesAreShort
<1>14. Stamped(sub)'
  BY <1>5, <1>6 DEF Stamped
<1>15. StampsAreClose'
  <2>1. emitted'.frames = Frames(w) /\ emitted'.stamp = st
    BY <1>11
  <2>2. Decim * n0 \in {Decim * n : n \in 0 .. HalfFrame - 1}
    OBVIOUS
  <2>3. \A k \in DOMAIN emitted'.frames :
          Whole(emitted'.frames[k]) =>
            emitted'.stamp + (k - 1) * FrameSpan - Head(emitted'.frames[k])
              \in {Decim * n : n \in 0 .. HalfFrame - 1}
    BY <1>10, <2>1, <2>2
  <2>4. QED BY <2>3 DEF StampsAreClose
<1>16. SkipsAreLosses'
  <2>1. PICK h \in Seq(Int) : h = Filled(w, FrameSpan)
    BY <1>10
  <2>2. PICK k \in Seq(Int) : k = Ragged(w, FrameSpan) /\ k = bankCarry'
    BY <1>10, <1>11
  <2>3. PICK f \in Seq(Int) : f = RestOf(b)
    BY <1>6, RestIs
  <2>4. PICK a \in Seq(Int) : a = Ahead /\ a = Ahead'
    BY <1>11, PendingIsSeq DEF Ahead
  <2>5. Pending' = Cat(Cat(k, f), a)
    BY <1>5, <2>2, <2>3, <2>4 DEF Pending
  <2>6. Pending = Cat(Cat(bankCarry, Cat(c, f)), a)
    BY <1>6, <2>3, <2>4 DEF Pending
  <2>7. Cat(bankCarry, Cat(c, f)) = Cat(w, f)
    BY <1>2, <1>6, <1>8, CatIs
  <2>8. Pending = Cat(Cat(Cat(h, k), f), a)
    BY <1>10, <2>1, <2>2, <2>6, <2>7
  <2>9. Pending = Cat(h, Cat(Cat(k, f), a))
    BY <2>8, Regroup
  <2>10. PICK r \in Seq(Int) : r = Pending'
    <3>1. Cat(k, f) \in Seq(Int)
      BY CatIs
    <3>2. QED BY <2>5, <3>1, CatIs
  <2>11. Mixed(Frames(w)) + Cardinality(Breaks(r)) <= Cardinality(Breaks(Pending))
    BY <1>10, <2>1, <2>5, <2>9, <2>10
  <2>12. Cardinality(Breaks(r)) \in Nat /\ Cardinality(Breaks(Pending)) \in Nat
    BY BreaksCounted, PendingIsSeq
  <2>13. mixed + Cardinality(Breaks(Pending)) <= gaps
    BY DEF LaneInv, SkipsAreLosses
  <2>14. mixed + Mixed(Frames(w)) + Cardinality(Breaks(r)) <= gaps
    <3>1. PICK x \in Nat : x = Cardinality(Breaks(r))
      BY <2>12
    <3>2. PICK y \in Nat : y = Cardinality(Breaks(Pending))
      BY <2>12
    <3>3. PICK z \in Nat : z = Mixed(Frames(w))
      BY <1>10
    <3>4. z + x <= y /\ mixed + y <= gaps
      BY <2>11, <2>13, <3>1, <3>2, <3>3
    <3>5. mixed + z + x <= gaps
      BY <1>2, <3>4
    <3>6. QED BY <3>1, <3>3, <3>5
  <2>15. QED BY <1>11, <2>10, <2>14 DEF SkipsAreLosses
<1>17. SamplesAreSomewhere'
  <2>1. PICK y \in Int : y = framed * FrameSpan
    BY <1>1, <1>2
  <2>2. PICK m \in Nat : m = Len(Frames(w))
    BY <1>10
  <2>3. PICK z \in Int : z = m * FrameSpan
    BY <1>1
  <2>4. framed' * FrameSpan = y + z
    <3>1. (framed + m) * FrameSpan = framed * FrameSpan + m * FrameSpan
      BY <1>1, <1>2
    <3>2. QED BY <1>11, <2>1, <2>2, <2>3, <3>1
  <2>5. PICK x \in Int : x = Len(sub.samples) - sub.done * Decim
    BY <1>1, <1>2 DEF LaneBlocks
  <2>6. PICK x1 \in Int : x1 = Len(b.samples) - b.done * Decim
    BY <1>1, <1>6 DEF LaneBlocks
  <2>7. PICK k \in Int : k = Len(bankCarry)
    BY <1>2
  <2>8. PICK k1 \in Int : k1 = Len(Ragged(w, FrameSpan))
    BY <1>10
  <2>9. PICK c0 \in Int : c0 = Len(ddcCarry)
    BY <1>2
  <2>10. PICK lc \in Int : lc = Len(c)
    BY <1>6
  <2>11. x = lc + x1 /\ z + k1 = k + lc
    BY <1>6, <1>10, <2>2, <2>3, <2>5, <2>6, <2>7, <2>8, <2>10
  <2>12. position = unsent + y + c0 + k + x
    <3>1. position = unsent + y + c0 + k + Len(sub.samples) - sub.done * Decim
      BY <2>1, <2>7, <2>9 DEF LaneInv, SamplesAreSomewhere
    <3>2. Len(sub.samples) \in Int /\ sub.done * Decim \in Int
      BY <1>1, <1>2 DEF LaneBlocks
    <3>3. QED BY <1>2, <2>5, <3>1, <3>2
  <2>13. position = unsent + (y + z) + c0 + k1 + x1
    BY <1>2, <2>11, <2>12
  <2>14. position = unsent + (y + z) + c0 + k1 + Len(b.samples) - b.done * Decim
    <3>1. Len(b.samples) \in Int /\ b.done * Decim \in Int
      BY <1>1, <1>6 DEF LaneBlocks
    <3>2. QED BY <1>2, <2>6, <2>13, <3>1
  <2>15. QED BY <1>5, <1>11, <2>4, <2>8, <2>9, <2>14 DEF SamplesAreSomewhere
<1>18. QED BY <1>12, <1>13, <1>14, <1>15, <1>16, <1>17 DEF LaneInv

LEMMA LaneStutters ==
  ASSUME LaneInv, UNCHANGED laneVars
  PROVE  LaneInv'
BY DEF LaneInv, LaneTypeOK, CarriesAreShort, Stamped, SkipsAreLosses, Pending, RestOf,
       Ahead, SamplesAreSomewhere, StampsAreClose, laneVars

\* The index a reader computes for a frame is at most the carry of the bank
\* after its first sample, a loss spoils at most one frame, and no sample is
\* dropped or repeated by the workers of the lane.
THEOREM LaneKeepsTime == LaneSpec => []LanesKeepTime
<1>1. LaneInit => LaneInv
  BY LaneStarts
<1>2. LaneInv /\ [LaneNext]_laneVars => LaneInv'
  <2> SUFFICES ASSUME LaneInv, [LaneNext]_laneVars PROVE LaneInv'
    OBVIOUS
  <2>1. CASE DdcRuns
    BY <2>1, DdcKeeps
  <2>2. CASE RadioBlockLost
    BY <2>2, RadioLossKeeps
  <2>3. CASE LaneBlockLost
    BY <2>3, LaneLossKeeps
  <2>4. CASE BankRuns
    BY <2>4, BankKeepsInv
  <2>5. CASE BankGivesUp
    BY <2>5, GiveUpKeeps
  <2>6. CASE UNCHANGED laneVars
    BY <2>6, LaneStutters
  <2>7. QED BY <2>1, <2>2, <2>3, <2>4, <2>5, <2>6 DEF LaneNext
<1>3. LaneInv => LanesKeepTime
  <2> SUFFICES ASSUME LaneInv PROVE LanesKeepTime
    OBVIOUS
  <2>1. mixed <= gaps
    <3>1. Cardinality(Breaks(Pending)) \in Nat /\ mixed \in Nat /\ gaps \in Nat
      BY PendingIsSeq DEF LaneInv, LaneTypeOK
    <3>2. mixed + Cardinality(Breaks(Pending)) <= gaps
      BY DEF LaneInv, SkipsAreLosses
    <3>3. QED BY <3>1, <3>2
  <2>2. QED BY <2>1 DEF LaneInv, LanesKeepTime, LossesAreContained, SamplesAreSomewhere
<1>4. QED BY <1>1, <1>2, <1>3, PTL DEF LaneSpec
==============================================================================
