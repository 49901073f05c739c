----------------------------- MODULE BredrLink -----------------------------
(* One BR/EDR connection: the link the registry keeps for a LAP             *)
(* (bredr_link.c), the recovery of the connection's UAP and clock           *)
(* (bredr_clock_recovery.c) and the part of bredr_registry_submit that      *)
(* drives them for a connection it has found.                               *)
(*                                                                          *)
(* A received event carries a frame.  What the model keeps of a frame is    *)
(* what the recovery can learn from it: whether it has a header and whether *)
(* the header's 1/3 FEC was free of errors ("clean"), and, for each value   *)
(* c of the central's CLK1-6, the UAP its HEC yields when unwhitened with c *)
(* ("uap"), the LT_ADDR it then reads ("lt"), and the verdict of the header *)
(* and payload checks ("says"): "prune" for -1 and 0, "weak" for 1 and 2,   *)
(* "strong" for 10 and 1000.  The eSCO discipline of LT_ADDRs is one of     *)
(* those checks.                                                            *)
(*                                                                          *)
(* Time is the start of a frame in quarters of a 625 us slot: fine enough   *)
(* to tell the two roundings, to slots and to half slots, apart.            *)
EXTENDS Integers, Sequences, SequencesExt

CONSTANTS
  Clocks,        \* how many values CLK1-6 has (64 in the code)
  Uaps,          \* the UAPs a HEC may yield
  Dci,           \* the well-known UAP of the inquiry access codes
  Inquiry,       \* whether this LAP is the GIAC or the LIAC
  Lts,           \* the LT_ADDRs
  Events,        \* the events that may be received
  QueueSize,     \* BREDR_LINK_QUEUE_SIZE
  HistoryCutoff, \* CLK1_6_HISTORY_CUTOFF_CLK1600, in slots
  IdleReset,     \* idle_reset_clkn, in half slots; 0 disables
  MaxConfidence, \* the strongest tracking_state (5)
  MaxPackets     \* bound of the model: packets received

ASSUME BredrLinkAssumption ==
  /\ Clocks \in Nat \ {0}
  /\ QueueSize \in Nat \ {0}
  /\ HistoryCutoff \in Nat
  /\ IdleReset \in Nat
  /\ MaxConfidence \in Nat \ {0}
  /\ Uaps \subseteq Nat
  /\ Dci \in Uaps
  /\ Inquiry \in BOOLEAN

VARIABLES
  link,      \* bredr_link_t with the registry's last_clkn
  heard,     \* history: the event received last
  lastHit,   \* history: the delta at which the last header tried against the
             \* tracked clock validated, or NoHit
  fed        \* history: the headers the surviving candidates were tried on

vars == <<link, heard, lastHit, fed>>

Clock == 0 .. Clocks - 1
Slot == 0 .. QueueSize - 1

\* What a frame tells the recovery, at each value of the central's clock.
HeardFrames ==
  [header : BOOLEAN, clean : BOOLEAN, uap : [Clock -> Uaps], lt : [Clock -> Lts],
   says : [Clock -> {"prune", "weak", "strong"}]]

ASSUME EventAssumption ==
  Events \subseteq [start : Nat, rssi : BOOLEAN, frame : HeardFrames]

NoUap == -1
NoHit == 99
Never == -1
Empty == [start |-> -1]

-----------------------------------------------------------------------------
(* Receive clocks.                                                          *)

RxClk(e) == (e.start + 2) \div 4
Clkn(e) == (e.start + 1) \div 2

Hec(f, u, c) == f.header /\ f.uap[c] = u
CleanHec(f, u, c) == f.clean /\ Hec(f, u, c)

-----------------------------------------------------------------------------
(* The ring of the most recent events, in the order they started.           *)

OldestIndex(l, fill) == (l.head + QueueSize - fill) % QueueSize
IndexAt(l, fill, pos) == (OldestIndex(l, fill) + pos) % QueueSize

Before(l, e, pos) == l.queue[IndexAt(l, l.fill, pos)].start <= e.start

InsertPos(l, e) ==
  CHOOSE pos \in 0 .. l.fill :
    /\ \A p \in 0 .. pos - 1 : Before(l, e, p)
    /\ pos < l.fill => ~Before(l, e, pos)

IsNewest(l, e) == InsertPos(l, e) = l.fill

\* The event at logical position pos of a ring of "fill" events: later ones
\* move up by one slot.
Placed(l, e, fill, pos) ==
  LET logical(i) == (i + QueueSize - OldestIndex(l, fill)) % QueueSize
  IN [l EXCEPT
        !.queue = [i \in Slot |->
                     CASE logical(i) < pos \/ logical(i) > fill -> l.queue[i]
                       [] logical(i) = pos -> e
                       [] OTHER -> l.queue[(i + QueueSize - 1) % QueueSize]],
        !.head = (@ + 1) % QueueSize,
        !.fill = fill + 1]

\* Mutant: a full ring's positions are not moved down with its oldest event.
Insert_Unshifted(l, e) ==
  LET pos == InsertPos(l, e)
  IN CASE l.fill < QueueSize -> Placed(l, e, l.fill, pos)
       [] l.fill = QueueSize /\ pos = 0 -> l
       [] OTHER -> Placed(l, e, l.fill - 1, Min({pos, l.fill - 1}))

\* A full ring gives up its oldest event, and refuses an even older one.
Insert(l, e) ==
  LET pos == InsertPos(l, e)
  IN CASE l.fill < QueueSize -> Placed(l, e, l.fill, pos)
       [] l.fill = QueueSize /\ pos = 0 -> l
       [] OTHER -> Placed(l, e, l.fill - 1, pos - 1)

-----------------------------------------------------------------------------
(* Tracking and recovery state.                                             *)

RecoveryReset(l) ==
  [l EXCEPT !.candidates = [c \in Clock |-> NoUap],
            !.uapValid = FALSE, !.offset = 0, !.drift = 0,
            !.firstTime = 0, !.gotFirst = FALSE]

\* Mutant: the offset is taken with its sign reversed.
SetUap_Reversed(l, u, clk6, rx) ==
  [l EXCEPT !.uap = u, !.uapValid = TRUE,
            !.offset = (rx - clk6) % Clocks,
            !.clkKnown = TRUE, !.tracking = 1, !.drift = 0]

SetUap(l, u, clk6, rx) ==
  [l EXCEPT !.uap = u, !.uapValid = TRUE,
            !.offset = (clk6 - rx) % Clocks,
            !.clkKnown = TRUE, !.tracking = 1, !.drift = 0]

CentralClk(l, rx) == (rx + l.offset) % Clocks

LinkInit ==
  [queue |-> [i \in Slot |-> Empty], head |-> 0, fill |-> 0,
   uap |-> Dci, uapValid |-> Inquiry, clkKnown |-> FALSE,
   offset |-> 0, drift |-> 0, tracking |-> -1,
   candidates |-> [c \in Clock |-> NoUap], firstTime |-> 0, gotFirst |-> FALSE,
   total |-> 0, firstSeen |-> 0, lastSeen |-> 0,
   central |-> 0, peripheral |-> [lt \in Lts |-> 0],
   lastClkn |-> Never]

Followed(l) == l.uapValid /\ l.clkKnown

-----------------------------------------------------------------------------
(* Acquisition: one candidate UAP for each clock the first header may have  *)
(* been sent at, dropped as later headers contradict it.                    *)

Anchor(l, clk1) == IF l.gotFirst THEN l.firstTime ELSE clk1

\* The clock a packet received at clk1 was sent at, if candidate c is right.
ClockOf(l, clk1, c) == (c + clk1 - Anchor(l, clk1)) % Clocks

Considered(l, c) == l.candidates[c] # NoUap \/ ~l.gotFirst

\* Mutant: a later header is not held against the UAP the candidate stands for.
Verdict_Unmatched(l, f, clk1, c) ==
  LET u == f.uap[ClockOf(l, clk1, c)]
  IN IF f.clean /\ (l.uapValid => u = l.uap)
     THEN f.says[ClockOf(l, clk1, c)]
     ELSE "prune"

Verdict(l, f, clk1, c) ==
  LET u == f.uap[ClockOf(l, clk1, c)]
  IN IF /\ f.clean
        /\ l.gotFirst => u = l.candidates[c]
        /\ l.uapValid => u = l.uap
     THEN f.says[ClockOf(l, clk1, c)]
     ELSE "prune"

\* The candidate whose verdict ends the scan, one beyond the last if none does.
FirstStrong(l, f, clk1) ==
  Min({c \in Clock : Considered(l, c) /\ Verdict(l, f, clk1, c) = "strong"}
        \cup {Clocks})

\* The candidates after the scan has passed those below "upto".
Narrowed(l, f, clk1, upto) ==
  [c \in Clock |->
     IF c >= upto \/ ~Considered(l, c) THEN l.candidates[c]
     ELSE IF Verdict(l, f, clk1, c) = "weak" THEN f.uap[ClockOf(l, clk1, c)]
     ELSE NoUap]

Solution(l, c, u) ==
  [l EXCEPT !.offset = (c - l.firstTime) % Clocks,
            !.uap = u, !.uapValid = TRUE]

\* What solve_uap_clock_candidates leaves, and whether it solved.
Solve(l, f, clk1) ==
  LET strong == FirstStrong(l, f, clk1)
      scanned == [l EXCEPT !.firstTime = Anchor(l, clk1),
                           !.candidates = Narrowed(l, f, clk1, strong)]
      left == {c \in Clock : scanned.candidates[c] # NoUap}
      fed1 == [scanned EXCEPT !.gotFirst = TRUE]
  IN CASE strong < Clocks ->
            [solved |-> TRUE,
             link |-> Solution(scanned, strong,
                               f.uap[ClockOf(l, clk1, strong)])]
       [] strong = Clocks /\ left = {} ->
            [solved |-> FALSE, link |-> RecoveryReset(fed1)]
       [] strong = Clocks /\ \E c \in Clock : left = {c} ->
            [solved |-> TRUE,
             link |-> LET c == Min(left)
                      IN Solution(fed1, c, fed1.candidates[c])]
       [] OTHER -> [solved |-> FALSE, link |-> fed1]

-----------------------------------------------------------------------------
(* The clocks the solved UAP allows for the newest packet, narrowed by the  *)
(* headers before it in the ring, newest first, while more than one is left.*)

NthNewest(l, i) == l.queue[IndexAt(l, l.fill, l.fill - 1 - i)]

InHistory(l, i) ==
  /\ i \in 1 .. l.fill - 1
  /\ RxClk(NthNewest(l, 0)) - RxClk(NthNewest(l, i)) <= HistoryCutoff

Agrees(l, i, c) ==
  LET past == NthNewest(l, i)
      age == RxClk(NthNewest(l, 0)) - RxClk(past)
  IN past.frame.header => Hec(past.frame, l.uap, (c - age) % Clocks)

IsSmall(cs) == \A c, d \in cs : c = d

\* The clocks that agree with the "depth" packets before the newest.
Agreeing(l, depth) ==
  {c \in Clock : /\ Hec(NthNewest(l, 0).frame, l.uap, c)
                 /\ \A i \in 1 .. depth : Agrees(l, i, c)}

\* The scan stops at the cutoff, at the ring's end, or with one clock left.
ScanDepth(l) ==
  CHOOSE d \in 0 .. QueueSize :
    /\ \A i \in 1 .. d : InHistory(l, i) /\ ~IsSmall(Agreeing(l, i - 1))
    /\ ~InHistory(l, d + 1) \/ IsSmall(Agreeing(l, d))

ValidClocks(l) == Agreeing(l, ScanDepth(l))

\* How far the code takes clock c to be from the solver's hint.
HintDistance(c, hint) ==
  LET d == IF c < hint THEN hint - c ELSE c - hint
  IN IF d > Clocks \div 2 THEN Clocks - d ELSE d

Closest(cs, hint) ==
  CHOOSE c \in cs : \A other \in cs :
    \/ HintDistance(c, hint) < HintDistance(other, hint)
    \/ HintDistance(c, hint) = HintDistance(other, hint) /\ c <= other

\* What acquire_uap_and_clock leaves, and whether the clock became known.
Acquire(l, e) ==
  LET s == Solve(l, e.frame, Clkn(e) \div 2)
      valid == ValidClocks(s.link)
  IN IF ~s.solved \/ valid = {}
     THEN [locked |-> FALSE, link |-> s.link]
     ELSE [locked |-> TRUE,
           link |-> SetUap(s.link, s.link.uap,
                           Closest(valid, s.link.offset), RxClk(e))]

-----------------------------------------------------------------------------
(* Tracking: the tracked clock first, then its neighbours.                  *)

Deltas == <<0, 1, -1, 2, -2>>

HitAt(l, e, d) ==
  CleanHec(e.frame, l.uap, (CentralClk(l, RxClk(e)) + d) % Clocks)

Hit(l, e) ==
  LET hits == {k \in DOMAIN Deltas : HitAt(l, e, Deltas[k])}
  IN IF hits = {} THEN NoHit ELSE Deltas[Min(hits)]

Raised(n) == IF n < MaxConfidence THEN n + 1 ELSE n
Lowered(n) == IF n > 0 THEN n - 1 ELSE n

Missed(l) ==
  LET n == Lowered(l.tracking)
  IN [l EXCEPT !.drift = 0, !.tracking = n,
               !.clkKnown = IF n = 0 THEN FALSE ELSE @]

Sighted(l, d) ==
  [l EXCEPT !.drift = 0, !.offset = (@ + d) % Clocks,
            !.tracking = Raised(@), !.clkKnown = TRUE]

\* Mutant: the first sighting of a drift is applied at once.
Track_Eager(l, e) ==
  LET d == Hit(l, e)
  IN IF d = NoHit THEN [locked |-> FALSE, link |-> Missed(l)]
     ELSE [locked |-> TRUE, link |-> Sighted(l, d)]

\* recover_clock_drift: the first sighting of a delta is only remembered.
Track(l, e) ==
  LET d == Hit(l, e)
  IN CASE d = NoHit -> [locked |-> FALSE, link |-> Missed(l)]
       [] d = 0 -> [locked |-> TRUE, link |-> Sighted(l, 0)]
       [] d \notin {0, NoHit} /\ l.drift = 0 ->
            [locked |-> TRUE, link |-> [l EXCEPT !.drift = d]]
       [] d \notin {0, NoHit} /\ l.drift = d ->
            [locked |-> TRUE, link |-> Sighted(l, d)]
       [] OTHER -> [locked |-> TRUE, link |-> [l EXCEPT !.drift = 0]]

\* bredr_recovery_process
Recover(l, e) ==
  CASE ~e.frame.header -> [locked |-> FALSE, link |-> l]
    [] e.frame.header /\ Followed(l) -> Track(l, e)
    [] OTHER -> Acquire(l, e)

-----------------------------------------------------------------------------
(* The handlers.                                                            *)

HasActiveTrack(l) == Followed(l) /\ l.tracking > 0

\* The role a packet is counted for: the central transmits in even slots.
Routed(l, e) ==
  LET c == CentralClk(l, RxClk(e))
  IN IF c % 2 = 0 THEN [l EXCEPT !.central = @ + 1]
     ELSE [l EXCEPT !.peripheral[e.frame.lt[c]] = @ + 1]

\* bredr_link_add_packet
AddPacket(l, e) ==
  LET queued == [Insert(l, e) EXCEPT
                   !.total = @ + 1,
                   !.firstSeen = IF l.total = 0 THEN RxClk(e) ELSE @,
                   !.lastSeen = IF IsNewest(l, e) THEN RxClk(e) ELSE @]
      r == Recover(queued, e)
  IN IF ~IsNewest(l, e) THEN queued
     ELSE IF HasActiveTrack(queued) /\ r.locked /\ e.rssi
     THEN Routed(r.link, e)
     ELSE r.link

\* Whether the LAP has been silent long enough to start recovery over.
Silent(l, e) ==
  /\ l.lastClkn # Never /\ IdleReset # 0
  /\ Clkn(e) - l.lastClkn > IdleReset

\* What bredr_registry_submit does to the link before it adds the packet.
Submitted(l, e) ==
  [(IF Silent(l, e) THEN RecoveryReset(l) ELSE l) EXCEPT
     !.lastClkn = IF Clkn(e) > @ THEN Clkn(e) ELSE @]

\* The recovery runs for this event, on this state of the link.
Drives(l, e) == IsNewest(l, e) /\ e.frame.header

NextFed(l, e) ==
  LET s == Solve(l, e.frame, Clkn(e) \div 2)
      this == [clk1 |-> Clkn(e) \div 2, frame |-> e.frame]
  IN IF ~Drives(l, e) \/ Followed(l) THEN IF l.gotFirst THEN fed ELSE {}
     ELSE IF ~s.link.gotFirst THEN {}
     ELSE IF s.solved /\ FirstStrong(l, e.frame, Clkn(e) \div 2) < Clocks THEN fed
     ELSE IF l.gotFirst THEN fed \cup {this} ELSE {this}

NextHit(l, e) ==
  CASE ~Followed(l) -> NoHit
    [] Followed(l) /\ Drives(l, e) -> Hit(l, e)
    [] OTHER -> lastHit

Submit(e) ==
  LET l == Submitted(link, e)
  IN /\ link.total < MaxPackets
     /\ link' = AddPacket(l, e)
     /\ heard' = e
     /\ lastHit' = NextHit(l, e)
     /\ fed' = NextFed(l, e)

Init == link = LinkInit /\ heard = Empty /\ lastHit = NoHit /\ fed = {}

Next == \E e \in Events : Submit(e)

Spec == Init /\ [][Next]_vars

-----------------------------------------------------------------------------
(* Properties.                                                              *)

CandidateUap == Uaps \cup {NoUap}
Drift == -2 .. 2
Confidence == -1 .. MaxConfidence

Links ==
  [queue : [Slot -> Events \cup {Empty}], head : Slot, fill : 0 .. QueueSize,
   uap : Uaps, uapValid : BOOLEAN, clkKnown : BOOLEAN,
   offset : Clock, drift : Drift, tracking : Confidence,
   candidates : [Clock -> CandidateUap], firstTime : Nat, gotFirst : BOOLEAN,
   total : Nat, firstSeen : Nat, lastSeen : Nat,
   central : Nat, peripheral : [Lts -> Nat], lastClkn : Nat \cup {Never}]

\* Type correctness.
TypeOK ==
  /\ link \in Links
  /\ heard \in Events \cup {Empty}
  /\ lastHit \in Drift \cup {NoHit}
  /\ \A h \in fed : h.clk1 \in Nat

Window(l) == [p \in 1 .. l.fill |-> l.queue[IndexAt(l, l.fill, p - 1)]]

Ordered(w) == \A i, j \in DOMAIN w : i < j => w[i].start <= w[j].start

\* The ring holds its events from the oldest one on, in the order they started.
RingInv ==
  /\ \A p \in 1 .. link.fill : Window(link)[p] \in Events
  /\ Ordered(Window(link))
  /\ link.fill > 0 => link.lastSeen = RxClk(Last(Window(link)))

\* A suspected drift is the delta of the last header tried on the tracked clock.
DriftInv == link.drift # 0 => Followed(link) /\ lastHit = link.drift

\* The clock is known exactly while there is confidence in it, across misses,
\* relocks and idle resets, and a drift is only suspected of a tracked clock
\* (bredr_link.h:112-126).
TrackInv ==
  /\ link.clkKnown <=> link.tracking > 0
  /\ link.drift # 0 => Followed(link)

\* A candidate that survives has the UAP that every header tried on it since
\* the first one yields at that candidate's clock, and each of those headers
\* was free of errors: no header is forgotten, tried at a clock of another
\* candidate, or left over from before a reset.
SurvivorsAgree ==
  link.gotFirst =>
    \A c \in Clock : \A h \in fed :
      link.candidates[c] # NoUap =>
        CleanHec(h.frame, link.candidates[c],
                 (c + h.clk1 - link.firstTime) % Clocks)

\* What started no later than e are the first p events of window w.
Belongs(w, e, p) ==
  /\ \A i \in 1 .. p : w[i].start <= e.start
  /\ \A i \in p + 1 .. Len(w) : w[i].start > e.start

LatestOf(w) == IF Len(w) > QueueSize THEN Tail(w) ELSE w

\* Whatever order the channels deliver a connection's packets in, the ring
\* holds the latest ones to have started, in that order, those of equal start
\* in order of arrival, and last_seen is the slot of the last of them
\* (bredr_queue_insert_event).
WindowIsLatest ==
  [][/\ \E p \in 0 .. link.fill :
          /\ Belongs(Window(link), heard', p)
          /\ Window(link') = LatestOf(InsertAt(Window(link), p + 1, heard'))
     /\ link'.lastSeen = RxClk(Last(Window(link')))]_vars

\* The link the recovery sees when the event heard in this step reaches it.
Before1 == Submitted(link, heard')

\* The acquisition this step runs, if it runs one, and the clocks it may adopt:
\* the step leaves the packet in the ring, and the UAP it solved for.
Acquires == Drives(Before1, heard') /\ ~Followed(Before1)
Solved == Solve(Before1, heard'.frame, Clkn(heard') \div 2)
Found == ValidClocks(link')

BecomesTracked == ~Followed(Before1) /\ Followed(link')
Moves == Followed(Before1) /\ Followed(link') /\ link'.offset # Before1.offset

\* The one way to a tracked link without a proof: an idle reset took the UAP and
\* left the clock known, the UAP was solved again, and no clock validated it.
\* What is then tracked is the solver's own offset, which is a hint.
LeftKnown ==
  /\ Acquires /\ Solved.solved /\ Found = {}
  /\ Before1.clkKnown /\ ~Before1.uapValid
  /\ link'.offset = Solved.link.offset

\* A link becomes tracked, and the clock of a tracked link moves, only if the
\* packet that made it so has an error-free header that validates at the clock
\* adopted; the only exception is LeftKnown, which KeepsAcquiring is about.
LockIsProved ==
  [][BecomesTracked \/ Moves =>
       \/ CleanHec(heard'.frame, link'.uap, CentralClk(link', RxClk(heard')))
       \/ LeftKnown]_vars

\* One packet never moves a tracked clock: the header tried before it, with
\* nothing tried in between, validated at the same delta (bredr_link.h:107-119).
TwoToMove ==
  [][Moves
     => /\ lastHit \notin {0, NoHit}
        /\ Hit(Before1, heard') = lastHit
        /\ link'.offset = (Before1.offset + lastHit) % Clocks]_vars

-----------------------------------------------------------------------------
(* What the comments of the code say, and the code does not do.             *)

\* "Direction comes from the recovered central clock for this packet"
\* (bredr_link.c:236): the clock a packet's role and LT_ADDR are read with is
\* one its header validates at.
RoutedByItsClock ==
  [][link'.central # link.central \/ link'.peripheral # link.peripheral
     => CleanHec(heard'.frame, link'.uap, CentralClk(link', RxClk(heard')))]_vars

Apart(a, b) == Min({(a - b) % Clocks, (b - a) % Clocks})

\* "fall back to the candidate closest to the recovery backend's clock-offset
\* hint" (bredr_clock_recovery.c:895-896): no other clock the header and the
\* history allow has an offset closer to the solver's than the one adopted.
HintIsFollowed ==
  [][Acquires /\ Solved.solved =>
       \A c \in Found :
         Apart(link'.offset, Solved.link.offset)
           <= Apart((c - RxClk(heard')) % Clocks, Solved.link.offset)]_vars

\* "leave state unchanged and let acquisition accumulate more packets before
\* trying again" (bredr_clock_recovery.c:915-916): an acquisition that finds no
\* clock leaves a link that is still acquiring; one that is tracked found one.
KeepsAcquiring ==
  [][Acquires /\ Followed(link') => Solved.solved /\ Found # {}]_vars
=============================================================================
