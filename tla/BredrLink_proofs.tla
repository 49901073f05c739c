-------------------------- MODULE BredrLink_proofs --------------------------
(***************************************************************************)
(* Proofs about BredrLink: the ring of events, the elimination of UAP and  *)
(* clock candidates, and the tracked clock of one connection, for every    *)
(* number of clocks, every ring size and every set of events.              *)
(***************************************************************************)
EXTENDS BredrLink, SequenceTheorems, FiniteSetTheorems,
        WellFoundedInduction, TLAPS

(* Arithmetic *)

LEMMA Sizes == QueueSize \in Nat \ {0} /\ Clocks \in Nat \ {0}
BY BredrLinkAssumption

LEMMA WrappedSlot ==
  ASSUME NEW x \in 0 .. 2 * QueueSize - 1
  PROVE  x % QueueSize = IF x < QueueSize THEN x ELSE x - QueueSize
<1>1. QueueSize \in Nat \ {0} /\ x \in Nat
  BY Sizes
<1>2. QED BY <1>1, Z3

LEMMA QuotientUnique ==
  ASSUME NEW n \in Nat \ {0}, NEW q \in Int, NEW p \in Int,
         NEW r \in 0 .. n - 1, NEW s \in 0 .. n - 1, q * n + r = p * n + s
  PROVE  r = s
<1>1. (q - p) * n = s - r
  BY Z3
<1>2. CASE q = p
  BY <1>1, <1>2
<1>3. CASE q - p >= 1
  <2>1. (q - p) * n >= n
    BY <1>3, Z3
  <2>2. QED BY <1>1, <2>1
<1>4. CASE p - q >= 1
  <2>1. (q - p) * n <= 0 - n
    BY <1>4, Z3
  <2>2. QED BY <1>1, <2>1
<1>5. QED BY <1>2, <1>3, <1>4

LEMMA ModDef ==
  ASSUME NEW n \in Nat \ {0}, NEW x \in Int
  PROVE  /\ x % n \in 0 .. n - 1
         /\ x = (x \div n) * n + (x % n)
         /\ x \div n \in Int
<1>1. x % n \in 0 .. n - 1
  BY Z3
<1>2. x \div n \in Int
  BY Z3
<1>3. x = (x \div n) * n + (x % n)
  BY Z3
<1>4. QED BY <1>1, <1>2, <1>3

LEMMA ModIs ==
  ASSUME NEW n \in Nat \ {0}, NEW x \in Int, NEW q \in Int, NEW r \in 0 .. n - 1,
         x = q * n + r
  PROVE  x % n = r
<1>1. /\ x % n \in 0 .. n - 1 /\ x \div n \in Int
      /\ x = (x \div n) * n + (x % n)
  BY ModDef
<1>2. QED BY <1>1, QuotientUnique

\* A sum may be reduced before or after its terms.
LEMMA ModAdd ==
  ASSUME NEW n \in Nat \ {0}, NEW a \in Int, NEW b \in Int
  PROVE  (a + (b % n)) % n = (a + b) % n
<1> DEFINE r == (a + b) % n
           k == b \div n
           m == b % n
           q == (a + b) \div n
<1>1. r \in 0 .. n - 1 /\ q \in Int /\ a + b = q * n + r
  <2>1. PICK x \in Int : x = a + b
    OBVIOUS
  <2>2. x % n \in 0 .. n - 1 /\ x = (x \div n) * n + (x % n) /\ x \div n \in Int
    BY ModDef
  <2>3. QED BY <2>1, <2>2
<1>2. m \in 0 .. n - 1 /\ k \in Int /\ b = k * n + m
  BY ModDef
<1>3. a + m = (q - k) * n + r
  <2>1. (q - k) * n = q * n - k * n
    BY <1>1, <1>2, Z3
  <2> HIDE DEF r, k, m, q
  <2>2. /\ q * n \in Int /\ k * n \in Int
    BY <1>1, <1>2
  <2>3. QED BY <1>1, <1>2, <2>1, <2>2
<1>4. QED
  <2> HIDE DEF r, k, m, q
  <2>1. a + m \in Int /\ q - k \in Int
    BY <1>1, <1>2
  <2>2. (a + m) % n = r
    BY <1>1, <1>3, <2>1, ModIs
  <2>3. QED BY <2>2 DEF r, m

LEMMA LeastNat ==
  ASSUME NEW T \in SUBSET Nat, T # {}
  PROVE  \E x \in T : \A y \in T : x <= y
<1> DEFINE Below(n) == {y \in T : y <= n}
           Family == {Below(n) : n \in T}
<1>1. \A n \in T : Below(n) \in FiniteSubsetsOf(Nat)
  BY FS_BoundedSetOfNaturals DEF FiniteSubsetsOf
<1>2. PICK S \in Family : \A U \in Family : ~ (<<U, S>> \in StrictSubsetOrdering(Nat))
  <2>1. Family \subseteq FiniteSubsetsOf(Nat) /\ Family # {}
    BY <1>1
  <2> HIDE DEF Family
  <2>2. QED BY <2>1, WFMin, FS_StrictSubsetOrderingWellFounded
<1>3. PICK n \in T : S = Below(n)
  BY <1>2
<1>4. ASSUME NEW y \in T, ~ (n <= y) PROVE FALSE
  <2>1. Below(y) \subseteq S /\ n \notin Below(y) /\ n \in S
    <3>1. n \in Nat /\ y \in Nat /\ y < n
      BY <1>4
    <3>2. \A z \in T : z <= y => z <= n
      BY <3>1
    <3>3. Below(y) \subseteq Below(n) /\ n \notin Below(y) /\ n \in Below(n)
      <4>1. Below(y) \subseteq Below(n)
        BY <3>2
      <4>2. n \notin Below(y)
        BY <1>4
      <4>3. n \in Below(n)
        BY <3>1
      <4>4. QED BY <4>1, <4>2, <4>3
    <3> HIDE DEF Below
    <3>4. QED BY <1>3, <3>3
  <2>2. <<Below(y), S>> \in StrictSubsetOrdering(Nat)
    BY <2>1, <1>1, <1>3 DEF StrictSubsetOrdering, FiniteSubsetsOf
  <2>3. QED BY <1>2, <2>2
<1>5. QED BY <1>4

-----------------------------------------------------------------------------
(* Types *)

SameRing(l, m) == m.queue = l.queue /\ m.head = l.head /\ m.fill = l.fill

SameRecovery(l, m) ==
  /\ m.uap = l.uap /\ m.uapValid = l.uapValid /\ m.clkKnown = l.clkKnown
  /\ m.offset = l.offset /\ m.drift = l.drift /\ m.tracking = l.tracking
  /\ m.candidates = l.candidates /\ m.firstTime = l.firstTime
  /\ m.gotFirst = l.gotFirst

LEMMA EventTypes ==
  ASSUME NEW e \in Events
  PROVE  /\ e.start \in Nat /\ e.rssi \in BOOLEAN /\ e.frame \in HeardFrames
         /\ RxClk(e) \in Nat /\ Clkn(e) \in Nat /\ Clkn(e) \div 2 \in Nat
<1>1. e.start \in Nat /\ e.rssi \in BOOLEAN /\ e.frame \in HeardFrames
  BY EventAssumption
<1>2. RxClk(e) \in Nat /\ Clkn(e) \in Nat
  BY <1>1 DEF RxClk, Clkn
<1>3. QED BY <1>1, <1>2

LEMMA ClockMod ==
  ASSUME NEW x \in Int
  PROVE  x % Clocks \in Clock
BY Sizes, ModDef DEF Clock

LEMMA InsertPosFacts ==
  ASSUME NEW l, l.fill \in Nat, NEW e
  PROVE  /\ InsertPos(l, e) \in 0 .. l.fill
         /\ \A p \in 0 .. InsertPos(l, e) - 1 : Before(l, e, p)
         /\ InsertPos(l, e) < l.fill => ~Before(l, e, InsertPos(l, e))
<1> DEFINE Free == {p \in 0 .. l.fill : p < l.fill => ~Before(l, e, p)}
<1>1. l.fill \in Free /\ Free \in SUBSET Nat
  OBVIOUS
<1>2. PICK x \in Free : \A y \in Free : x <= y
  BY <1>1, LeastNat
<1>3. ASSUME NEW p \in 0 .. x - 1 PROVE Before(l, e, p)
  <2>1. p \in 0 .. l.fill /\ ~(x <= p) /\ p < l.fill
    BY <1>2
  <2>2. p \notin Free
    BY <1>2, <2>1
  <2>3. QED BY <2>1, <2>2
<1>4. \E pos \in 0 .. l.fill :
        /\ \A p \in 0 .. pos - 1 : Before(l, e, p)
        /\ pos < l.fill => ~Before(l, e, pos)
  BY <1>2, <1>3
<1>5. QED BY <1>4 DEF InsertPos

LEMMA PlacedTypes ==
  ASSUME NEW l \in Links, NEW e \in Events, NEW fill \in 0 .. QueueSize - 1,
         NEW pos \in 0 .. fill
  PROVE  /\ Placed(l, e, fill, pos) \in Links
         /\ SameRecovery(l, Placed(l, e, fill, pos))
         /\ Placed(l, e, fill, pos).lastSeen = l.lastSeen
<1> DEFINE q == Placed(l, e, fill, pos).queue
<1>1. \A i \in Slot : (i + QueueSize - 1) % QueueSize \in Slot
  <2>1. \A x \in Int : x % QueueSize \in Slot
    BY Sizes, ModDef DEF Slot
  <2>2. QED BY <2>1, Sizes DEF Slot
<1>2. (l.head + 1) % QueueSize \in Slot /\ fill + 1 \in 0 .. QueueSize
  <2>1. l.head + 1 \in Int
    BY Sizes DEF Slot, Links
  <2>2. \A x \in Int : x % QueueSize \in Slot
    BY Sizes, ModDef DEF Slot
  <2>3. QED BY <2>1, <2>2, Sizes
<1>3. l.queue \in [Slot -> Events \cup {Empty}]
  BY DEF Links
<1>4. \E f \in [Slot -> Events \cup {Empty}] :
        Placed(l, e, fill, pos) =
          [l EXCEPT !.queue = f, !.head = (l.head + 1) % QueueSize, !.fill = fill + 1]
  BY <1>1, <1>3 DEF Placed
<1>5. PICK f \in [Slot -> Events \cup {Empty}] :
        Placed(l, e, fill, pos) =
          [l EXCEPT !.queue = f, !.head = (l.head + 1) % QueueSize, !.fill = fill + 1]
  BY <1>4
<1> DEFINE h == (l.head + 1) % QueueSize  g == fill + 1
<1>6. h \in Slot /\ g \in 0 .. QueueSize
  BY <1>2
<1>7. Placed(l, e, fill, pos) = [l EXCEPT !.queue = f, !.head = h, !.fill = g]
  BY <1>5
<1> HIDE DEF h, g
<1>8. Placed(l, e, fill, pos) \in Links
  BY <1>6, <1>7 DEF Links
<1>9. SameRecovery(l, Placed(l, e, fill, pos))
      /\ Placed(l, e, fill, pos).lastSeen = l.lastSeen
  BY <1>6, <1>7 DEF Links, SameRecovery
<1>10. QED BY <1>8, <1>9

LEMMA InsertTypes ==
  ASSUME NEW l \in Links, NEW e \in Events
  PROVE  /\ Insert(l, e) \in Links /\ SameRecovery(l, Insert(l, e))
         /\ Insert(l, e).lastSeen = l.lastSeen
<1>1. l.fill \in 0 .. QueueSize /\ QueueSize \in Nat \ {0}
  BY Sizes DEF Links
<1>2. InsertPos(l, e) \in 0 .. l.fill
  BY <1>1, InsertPosFacts
<1>3. CASE l.fill < QueueSize
  BY <1>1, <1>2, <1>3, PlacedTypes DEF Insert
<1>4. CASE l.fill = QueueSize /\ InsertPos(l, e) = 0
  BY <1>1, <1>4 DEF Insert, SameRecovery
<1>5. CASE l.fill = QueueSize /\ InsertPos(l, e) # 0
  <2>1. /\ l.fill - 1 \in 0 .. QueueSize - 1
        /\ InsertPos(l, e) - 1 \in 0 .. l.fill - 1
        /\ Insert(l, e) = Placed(l, e, l.fill - 1, InsertPos(l, e) - 1)
    BY <1>1, <1>2, <1>5 DEF Insert
  <2>2. QED BY <2>1, PlacedTypes
<1>6. QED BY <1>1, <1>3, <1>4, <1>5

LEMMA ResetTypes ==
  ASSUME NEW l \in Links
  PROVE  /\ RecoveryReset(l) \in Links
         /\ SameRing(l, RecoveryReset(l))
         /\ ~RecoveryReset(l).gotFirst /\ ~RecoveryReset(l).uapValid
         /\ RecoveryReset(l).drift = 0 /\ RecoveryReset(l).lastSeen = l.lastSeen
         /\ RecoveryReset(l).clkKnown = l.clkKnown
         /\ RecoveryReset(l).tracking = l.tracking
<1> DEFINE none == [c \in Clock |-> NoUap]
           zero == 0
           m == [l EXCEPT !.candidates = none, !.uapValid = FALSE, !.offset = zero]
           n == [m EXCEPT !.drift = 0, !.firstTime = 0, !.gotFirst = FALSE]
<1>1. RecoveryReset(l) = n
  BY DEF RecoveryReset
<1>2. none \in [Clock -> CandidateUap]
  BY DEF CandidateUap
<1>3. zero \in Clock /\ 0 \in Drift
  BY Sizes DEF Clock, Drift
<1> HIDE DEF none, zero
<1>4. /\ m \in Links /\ SameRing(l, m) /\ ~m.uapValid /\ m.lastSeen = l.lastSeen
      /\ m.clkKnown = l.clkKnown /\ m.tracking = l.tracking
  BY <1>2, <1>3 DEF Links, SameRing
<1> HIDE DEF m
<1>5. /\ n \in Links /\ SameRing(l, n) /\ ~n.uapValid /\ n.lastSeen = l.lastSeen
      /\ n.clkKnown = l.clkKnown /\ n.tracking = l.tracking
      /\ ~n.gotFirst /\ n.drift = 0
  BY <1>3, <1>4 DEF Links, SameRing
<1> HIDE DEF n
<1>6. QED BY <1>1, <1>5

LEMMA SetUapTypes ==
  ASSUME NEW l \in Links, NEW u \in Uaps, NEW c \in Clock, NEW rx \in Nat
  PROVE  LET m == SetUap(l, u, c, rx) IN
         /\ m \in Links /\ SameRing(l, m)
         /\ m.uap = u /\ m.uapValid /\ m.offset = (c - rx) % Clocks
         /\ m.clkKnown /\ m.tracking = 1 /\ m.drift = 0
         /\ m.candidates = l.candidates /\ m.firstTime = l.firstTime
         /\ m.gotFirst = l.gotFirst /\ m.lastSeen = l.lastSeen
<1> DEFINE o == (c - rx) % Clocks
           m == [l EXCEPT !.uap = u, !.uapValid = TRUE, !.offset = o]
           n == [m EXCEPT !.clkKnown = TRUE, !.tracking = 1, !.drift = 0]
<1>1. SetUap(l, u, c, rx) = n
  BY DEF SetUap
<1>2. o \in Clock
  BY ClockMod DEF Clock
<1>3. 1 \in Confidence /\ 0 \in Drift
  BY BredrLinkAssumption DEF Confidence, Drift
<1> HIDE DEF o
<1>4. /\ m \in Links /\ SameRing(l, m) /\ m.uap = u /\ m.uapValid /\ m.offset = o
      /\ m.candidates = l.candidates /\ m.firstTime = l.firstTime
      /\ m.gotFirst = l.gotFirst /\ m.lastSeen = l.lastSeen
  BY <1>2 DEF Links, SameRing
<1> HIDE DEF m
<1>5. /\ n \in Links /\ SameRing(l, n) /\ n.uap = u /\ n.uapValid /\ n.offset = o
      /\ n.candidates = l.candidates /\ n.firstTime = l.firstTime
      /\ n.gotFirst = l.gotFirst /\ n.lastSeen = l.lastSeen
      /\ n.clkKnown /\ n.tracking = 1 /\ n.drift = 0
  BY <1>3, <1>4 DEF Links, SameRing
<1> HIDE DEF n
<1>6. QED BY <1>1, <1>5 DEF o

LEMMA ClockOfTypes ==
  ASSUME NEW l \in Links, NEW clk1 \in Nat, NEW c \in Clock
  PROVE  Anchor(l, clk1) \in Nat /\ ClockOf(l, clk1, c) \in Clock
<1>1. Anchor(l, clk1) \in Nat
  BY DEF Anchor, Links
<1>2. c + clk1 - Anchor(l, clk1) \in Int
  BY <1>1 DEF Clock
<1>3. QED BY <1>1, <1>2, ClockMod DEF ClockOf

LEMMA VerdictFacts ==
  ASSUME NEW l \in Links, NEW f \in HeardFrames, NEW clk1 \in Nat, NEW c \in Clock,
         Verdict(l, f, clk1, c) # "prune"
  PROVE  /\ f.clean
         /\ f.uap[ClockOf(l, clk1, c)] \in Uaps
         /\ l.gotFirst => f.uap[ClockOf(l, clk1, c)] = l.candidates[c]
<1>1. ClockOf(l, clk1, c) \in Clock
  BY ClockOfTypes
<1>2. QED BY <1>1 DEF Verdict, HeardFrames

\* The scan ends at the first candidate of strong evidence.
LEMMA StrongFacts ==
  ASSUME NEW l, NEW f, NEW clk1
  PROVE  /\ FirstStrong(l, f, clk1) \in 0 .. Clocks
         /\ FirstStrong(l, f, clk1) < Clocks =>
              Verdict(l, f, clk1, FirstStrong(l, f, clk1)) = "strong"
<1> DEFINE S == {c \in Clock : Considered(l, c) /\ Verdict(l, f, clk1, c) = "strong"}
                  \cup {Clocks}
<1>1. S # {} /\ S \in SUBSET Nat /\ S \subseteq 0 .. Clocks
  BY Sizes DEF Clock
<1>2. \E x \in S : \A y \in S : x <= y
  <2> HIDE DEF S
  <2>1. QED BY <1>1, LeastNat
<1>3. FirstStrong(l, f, clk1) \in S
  BY <1>2 DEF FirstStrong, Min
<1>4. QED BY <1>1, <1>3, Sizes

LEMMA NarrowedTypes ==
  ASSUME NEW l \in Links, NEW f \in HeardFrames, NEW clk1 \in Nat, NEW upto
  PROVE  Narrowed(l, f, clk1, upto) \in [Clock -> CandidateUap]
<1>1. \A c \in Clock : l.candidates[c] \in CandidateUap
  BY DEF Links
<1>2. \A c \in Clock : f.uap[ClockOf(l, clk1, c)] \in CandidateUap
  BY ClockOfTypes DEF HeardFrames, CandidateUap
<1>3. QED BY <1>1, <1>2 DEF Narrowed, CandidateUap

LEMMA SolutionTypes ==
  ASSUME NEW l \in Links, NEW c \in Clock, NEW u \in Uaps
  PROVE  /\ Solution(l, c, u) \in Links
         /\ Solution(l, c, u) = [l EXCEPT !.offset = (c - l.firstTime) % Clocks,
                                           !.uap = u, !.uapValid = TRUE]
<1>1. c - l.firstTime \in Int
  BY DEF Links, Clock
<1>2. QED BY <1>1, ClockMod DEF Solution, Links

\* The candidates a solver's step leaves.
Left(l, f, clk1) ==
  {c \in Clock : Narrowed(l, f, clk1, FirstStrong(l, f, clk1))[c] # NoUap}

\* The clock a step that solves settles on.
SolvedClock(l, f, clk1) ==
  IF FirstStrong(l, f, clk1) < Clocks THEN FirstStrong(l, f, clk1)
  ELSE Min(Left(l, f, clk1))

\* Where a solver's step leaves the link.
SolveOutcome(l, f, clk1, s) ==
  /\ s.link \in Links /\ SameRing(l, s.link) /\ s.link.lastSeen = l.lastSeen
  /\ s.link.clkKnown = l.clkKnown /\ s.link.tracking = l.tracking
  /\ s.link.drift \in {0, l.drift}
  /\ s.solved => f.clean
  /\ s.solved <=> \/ FirstStrong(l, f, clk1) < Clocks
                  \/ \E c \in Clock : Left(l, f, clk1) = {c}
  /\ s.solved => s.link.offset = (SolvedClock(l, f, clk1) - Anchor(l, clk1)) % Clocks
  /\ s.link.uapValid => s.solved \/ l.uapValid
  /\ s.link.gotFirst <=> IF FirstStrong(l, f, clk1) < Clocks THEN l.gotFirst
                         ELSE Left(l, f, clk1) # {}
  /\ \/ ~s.link.gotFirst
     \/ /\ l.gotFirst /\ s.solved /\ FirstStrong(l, f, clk1) < Clocks
        /\ s.link.firstTime = l.firstTime
        /\ s.link.candidates = Narrowed(l, f, clk1, FirstStrong(l, f, clk1))
     \/ /\ FirstStrong(l, f, clk1) = Clocks
        /\ s.link.firstTime = Anchor(l, clk1)
        /\ s.link.candidates = Narrowed(l, f, clk1, Clocks)

LEMMA SolveFacts ==
  ASSUME NEW l \in Links, NEW f \in HeardFrames, NEW clk1 \in Nat
  PROVE  SolveOutcome(l, f, clk1, Solve(l, f, clk1))
<1> DEFINE strong == FirstStrong(l, f, clk1)
           at == Anchor(l, clk1)
           kept == Narrowed(l, f, clk1, strong)
           sc == [l EXCEPT !.firstTime = at, !.candidates = kept]
           fd == [sc EXCEPT !.gotFirst = TRUE]
           left == {c \in Clock : sc.candidates[c] # NoUap}
           u == f.uap[ClockOf(l, clk1, strong)]
<1>1. /\ strong \in 0 .. Clocks
      /\ strong < Clocks => Verdict(l, f, clk1, strong) = "strong"
  BY StrongFacts
<1>2. at \in Nat /\ kept \in [Clock -> CandidateUap] /\ (l.gotFirst => at = l.firstTime)
  BY ClockOfTypes, NarrowedTypes, Sizes DEF Clock, Anchor
<1>3. Solve(l, f, clk1) =
        CASE strong < Clocks -> [solved |-> TRUE, link |-> Solution(sc, strong, u)]
          [] strong = Clocks /\ left = {} -> [solved |-> FALSE, link |-> RecoveryReset(fd)]
          [] strong = Clocks /\ \E c \in Clock : left = {c} ->
               [solved |-> TRUE,
                link |-> LET c == Min(left) IN Solution(fd, c, fd.candidates[c])]
          [] OTHER -> [solved |-> FALSE, link |-> fd]
  BY DEF Solve
<1>a. Clocks \in Nat /\ strong \in Nat /\ (strong = Clocks => ~(strong < Clocks))
      /\ (strong < Clocks => strong # Clocks)
  BY <1>1, Sizes
<1>4. strong = Clocks => kept = Narrowed(l, f, clk1, Clocks)
  OBVIOUS
<1>5. strong < Clocks => strong \in Clock /\ u \in Uaps /\ f.clean
  <2>1. ASSUME strong < Clocks PROVE strong \in Clock
    BY <1>1, <2>1, Sizes DEF Clock
  <2>2. QED BY <1>1, <2>1, VerdictFacts
<1>6. ASSUME strong = Clocks, NEW c \in Clock, kept[c] # NoUap
      PROVE  f.clean /\ kept[c] \in Uaps
  <2>1. c < strong /\ kept[c] \in CandidateUap
    BY <1>2, <1>6, Sizes DEF Clock
  <2>2. CASE Considered(l, c)
    <3>1. Verdict(l, f, clk1, c) = "weak"
      <4>1. ~(c >= strong)
        BY <1>a, <2>1 DEF Clock
      <4>2. kept[c] = IF Verdict(l, f, clk1, c) = "weak"
                      THEN f.uap[ClockOf(l, clk1, c)] ELSE NoUap
        BY <2>2, <4>1 DEF Narrowed
      <4>3. QED BY <1>6, <4>2
    <3>2. QED BY <3>1, <2>1, <1>6, VerdictFacts DEF CandidateUap
  <2>3. CASE ~Considered(l, c)
    BY <2>1, <2>3, <1>6 DEF Considered, Narrowed
  <2>4. QED BY <2>2, <2>3
<1> HIDE DEF strong, at, kept, u
<1>7. /\ sc \in Links /\ SameRing(l, sc) /\ sc.lastSeen = l.lastSeen
      /\ sc.clkKnown = l.clkKnown /\ sc.tracking = l.tracking /\ sc.drift = l.drift
      /\ sc.gotFirst = l.gotFirst /\ sc.firstTime = at /\ sc.candidates = kept
      /\ sc.uapValid = l.uapValid
  BY <1>2 DEF Links, SameRing
<1> HIDE DEF sc
<1>8. /\ fd \in Links /\ SameRing(l, fd) /\ fd.lastSeen = l.lastSeen
      /\ fd.clkKnown = l.clkKnown /\ fd.tracking = l.tracking /\ fd.drift = l.drift
      /\ fd.gotFirst /\ fd.firstTime = at /\ fd.candidates = kept
      /\ fd.uapValid = l.uapValid
  BY <1>7 DEF Links, SameRing
<1> HIDE DEF fd
<1>b. left = Left(l, f, clk1)
  BY <1>7 DEF Left, kept, strong
<1>9. CASE strong < Clocks
  <2>1. Solve(l, f, clk1) = [solved |-> TRUE, link |-> Solution(sc, strong, u)]
    BY <1>3, <1>9, <1>a
  <2> DEFINE m == Solution(sc, strong, u)
  <2>2. m \in Links
    BY <1>5, <1>7, <1>9, SolutionTypes
  <2>3. /\ SameRing(l, m) /\ m.lastSeen = l.lastSeen /\ m.drift = l.drift
        /\ m.clkKnown = l.clkKnown /\ m.tracking = l.tracking
        /\ m.gotFirst = l.gotFirst /\ m.firstTime = at /\ m.candidates = kept
        /\ m.offset = (strong - at) % Clocks
    BY <1>7 DEF Links, SameRing, Solution
  <2> HIDE DEF m
  <2>4. Solve(l, f, clk1).solved /\ Solve(l, f, clk1).link = m
    BY <2>1 DEF m
  <2>c. m.offset = (SolvedClock(l, f, clk1) - Anchor(l, clk1)) % Clocks
    BY <1>9, <2>3 DEF SolvedClock, strong, at
  <2>5. QED BY <1>2, <1>5, <1>9, <1>b, <2>2, <2>3, <2>4, <2>c DEF SolveOutcome, strong, kept
<1>10. CASE strong = Clocks /\ left = {}
  <2>1. Solve(l, f, clk1) = [solved |-> FALSE, link |-> RecoveryReset(fd)]
    BY <1>a, <1>3, <1>10
  <2>2. ~Solve(l, f, clk1).solved /\ Solve(l, f, clk1).link = RecoveryReset(fd)
    BY <2>1
  <2>3. \A c \in Clock : {} # {c}
    OBVIOUS
  <2>4. QED BY <1>8, <1>10, <1>a, <1>b, <2>2, <2>3, ResetTypes DEF SolveOutcome, SameRing, strong
<1>11. CASE strong = Clocks /\ \E c \in Clock : left = {c}
  <2>1. PICK c \in Clock : left = {c}
    BY <1>11
  <2>2. left # {} /\ c \in left
    BY <2>1
  <2>3. Min(left) = c
    BY <2>1 DEF Min, Clock
  <2>4. Solve(l, f, clk1) = [solved |-> TRUE, link |-> Solution(fd, c, fd.candidates[c])]
    BY <1>a, <1>3, <1>11, <2>1, <2>2, <2>3
  <2>5. f.clean /\ kept[c] \in Uaps
    BY <1>6, <1>7, <1>11, <2>2
  <2> DEFINE m == Solution(fd, c, fd.candidates[c])
  <2>6. m \in Links
    BY <1>8, <2>5, SolutionTypes
  <2>7. /\ SameRing(l, m) /\ m.lastSeen = l.lastSeen /\ m.drift = l.drift
        /\ m.clkKnown = l.clkKnown /\ m.tracking = l.tracking /\ m.gotFirst
        /\ m.firstTime = at /\ m.candidates = kept
        /\ m.offset = (c - at) % Clocks
    BY <1>8 DEF Links, SameRing, Solution
  <2> HIDE DEF m
  <2>8. Solve(l, f, clk1).solved /\ Solve(l, f, clk1).link = m
    BY <2>4 DEF m
  <2>c. m.offset = (SolvedClock(l, f, clk1) - Anchor(l, clk1)) % Clocks
    <3>1. SolvedClock(l, f, clk1) = Min(Left(l, f, clk1))
      BY <1>11, <1>a DEF SolvedClock, strong
    <3>2. QED BY <1>b, <2>3, <2>7, <3>1 DEF at
  <2>9. QED BY <1>4, <1>11, <1>a, <1>b, <2>2, <2>5, <2>6, <2>7, <2>8, <2>c
            DEF SolveOutcome, strong, kept, at
<1>12. CASE strong = Clocks /\ left # {} /\ ~ \E c \in Clock : left = {c}
  <2>1. Solve(l, f, clk1) = [solved |-> FALSE, link |-> fd]
    BY <1>a, <1>3, <1>12
  <2>2. ~Solve(l, f, clk1).solved /\ Solve(l, f, clk1).link = fd
    BY <2>1
  <2>3. QED BY <1>4, <1>8, <1>12, <1>a, <1>b, <2>2 DEF SolveOutcome, strong, kept, at
<1>13. QED BY <1>1, <1>a, <1>9, <1>10, <1>11, <1>12

\* The hint chooses one of the clocks there are.
LEMMA ClosestFacts ==
  ASSUME NEW cs \in SUBSET Clock, cs # {}, NEW hint \in Clock
  PROVE  Closest(cs, hint) \in cs
<1>1. \A c \in cs : HintDistance(c, hint) \in Nat
  BY Sizes DEF HintDistance, Clock
<1> DEFINE D == {HintDistance(c, hint) : c \in cs}
<1>2. PICK d \in D : \A x \in D : d <= x
  <2>1. D \in SUBSET Nat /\ D # {}
    BY <1>1
  <2> HIDE DEF D
  <2>2. QED BY <2>1, LeastNat
<1> DEFINE C == {c \in cs : HintDistance(c, hint) = d}
<1>3. PICK c \in C : \A x \in C : c <= x
  <2>1. C \in SUBSET Nat /\ C # {}
    BY <1>2 DEF Clock
  <2> HIDE DEF C
  <2>2. QED BY <2>1, LeastNat
<1>4. ASSUME NEW other \in cs
      PROVE  \/ HintDistance(c, hint) < HintDistance(other, hint)
             \/ HintDistance(c, hint) = HintDistance(other, hint) /\ c <= other
  <2>1. /\ HintDistance(c, hint) = d /\ d <= HintDistance(other, hint)
        /\ d \in Nat /\ HintDistance(other, hint) \in Nat
    BY <1>1, <1>2, <1>3
  <2>2. CASE HintDistance(other, hint) = d
    BY <1>3, <2>1, <2>2
  <2>3. CASE HintDistance(other, hint) # d
    BY <2>1, <2>3
  <2>4. QED BY <2>2, <2>3
<1>5. QED BY <1>3, <1>4 DEF Closest

\* An acquisition that locks adopts a clock the newest header allows.
AcquireOutcome(l, e, s, a) ==
  \/ /\ ~a.locked /\ a.link = s.link
     /\ s.solved => ValidClocks(s.link) = {}
  \/ /\ a.locked /\ s.solved
     /\ \E c \in Clock :
          /\ Hec(NthNewest(s.link, 0).frame, s.link.uap, c)
          /\ a.link = SetUap(s.link, s.link.uap, c, RxClk(e))

LEMMA AcquireFacts ==
  ASSUME NEW l \in Links, NEW e \in Events
  PROVE  AcquireOutcome(l, e, Solve(l, e.frame, Clkn(e) \div 2), Acquire(l, e))
<1> DEFINE s == Solve(l, e.frame, Clkn(e) \div 2)
<1>1. s.link \in Links
  BY EventTypes, SolveFacts DEF SolveOutcome
<1> HIDE DEF s
<1> DEFINE valid == ValidClocks(s.link)
<1>2. \A c \in valid : c \in Clock /\ Hec(NthNewest(s.link, 0).frame, s.link.uap, c)
  BY DEF ValidClocks, Agreeing
<1>3. Acquire(l, e) =
        IF ~s.solved \/ valid = {}
        THEN [locked |-> FALSE, link |-> s.link]
        ELSE [locked |-> TRUE,
              link |-> SetUap(s.link, s.link.uap, Closest(valid, s.link.offset), RxClk(e))]
  BY DEF Acquire, s
<1> HIDE DEF valid
<1>4. CASE ~s.solved \/ valid = {}
  BY <1>3, <1>4 DEF AcquireOutcome, s, valid
<1>5. CASE s.solved /\ valid # {}
  <2>1. Closest(valid, s.link.offset) \in valid
    BY <1>1, <1>2, <1>5, ClosestFacts DEF Links
  <2>2. /\ Acquire(l, e).locked
        /\ Acquire(l, e).link =
             SetUap(s.link, s.link.uap, Closest(valid, s.link.offset), RxClk(e))
    BY <1>3, <1>5
  <2>3. QED BY <1>2, <1>5, <2>1, <2>2 DEF AcquireOutcome, s
<1>6. QED BY <1>4, <1>5

LEMMA HitFacts ==
  ASSUME NEW l, NEW e
  PROVE  /\ Hit(l, e) \in Drift \cup {NoHit}
         /\ Hit(l, e) # NoHit => HitAt(l, e, Hit(l, e))
<1> DEFINE hits == {k \in DOMAIN Deltas : HitAt(l, e, Deltas[k])}
<1>1. DOMAIN Deltas = 1 .. 5 /\ \A k \in 1 .. 5 : Deltas[k] \in Drift
  <2>1. DOMAIN Deltas = 1 .. 5
    BY DEF Deltas
  <2>2. /\ Deltas[1] = 0 /\ Deltas[2] = 1 /\ Deltas[3] = -1
        /\ Deltas[4] = 2 /\ Deltas[5] = -2
    BY DEF Deltas
  <2>3. QED BY <2>1, <2>2 DEF Drift
<1>2. ASSUME hits # {} PROVE Min(hits) \in hits
  <2>1. hits \in SUBSET Nat
    BY <1>1
  <2> HIDE DEF hits
  <2>2. QED BY <1>2, <2>1, LeastNat DEF Min
<1>3. QED BY <1>1, <1>2 DEF Hit

LEMMA NumberFacts ==
  /\ NoHit \notin Drift /\ 0 \in Drift
  /\ \A n \in Confidence : Raised(n) \in Confidence /\ Lowered(n) \in Confidence
  /\ \A n \in Confidence : n >= 0 => Raised(n) > 0
  /\ \A n \in Confidence : Lowered(n) = 0 \/ (Lowered(n) > 0 <=> n > 0)
  /\ \A n \in Confidence : Lowered(n) > 0 => n > 0
BY BredrLinkAssumption DEF NoHit, Drift, Confidence, Raised, Lowered

LEMMA MissedFacts ==
  ASSUME NEW l \in Links
  PROVE  LET m == Missed(l) IN
         /\ m \in Links /\ SameRing(l, m) /\ m.lastSeen = l.lastSeen
         /\ m.uap = l.uap /\ m.uapValid = l.uapValid /\ m.offset = l.offset
         /\ m.candidates = l.candidates /\ m.firstTime = l.firstTime
         /\ m.gotFirst = l.gotFirst /\ m.drift = 0
         /\ m.tracking = Lowered(l.tracking)
         /\ m.clkKnown = (Lowered(l.tracking) # 0 /\ l.clkKnown)
<1>1. Lowered(l.tracking) \in Confidence /\ 0 \in Drift
  BY NumberFacts DEF Links
<1> DEFINE n == Lowered(l.tracking)
           k == (n # 0 /\ l.clkKnown)
           m == [l EXCEPT !.drift = 0, !.tracking = n, !.clkKnown = k]
<1>2. Missed(l) = m
  BY DEF Missed, Links
<1>3. k \in BOOLEAN
  OBVIOUS
<1> HIDE DEF n, k
<1>4. /\ m \in Links /\ SameRing(l, m) /\ m.lastSeen = l.lastSeen
      /\ m.uap = l.uap /\ m.uapValid = l.uapValid /\ m.offset = l.offset
      /\ m.candidates = l.candidates /\ m.firstTime = l.firstTime
      /\ m.gotFirst = l.gotFirst /\ m.drift = 0 /\ m.tracking = n /\ m.clkKnown = k
  BY <1>1, <1>3 DEF Links, SameRing, n
<1> HIDE DEF m
<1>5. QED BY <1>2, <1>4 DEF n, k

LEMMA SightedFacts ==
  ASSUME NEW l \in Links, NEW d \in Drift
  PROVE  LET m == Sighted(l, d) IN
         /\ m \in Links /\ SameRing(l, m) /\ m.lastSeen = l.lastSeen
         /\ m.uap = l.uap /\ m.uapValid = l.uapValid
         /\ m.offset = (l.offset + d) % Clocks
         /\ m.candidates = l.candidates /\ m.firstTime = l.firstTime
         /\ m.gotFirst = l.gotFirst /\ m.drift = 0
         /\ m.tracking = Raised(l.tracking) /\ m.clkKnown
<1> DEFINE o == (l.offset + d) % Clocks
           n == Raised(l.tracking)
           m1 == [l EXCEPT !.drift = 0, !.offset = o]
           m == [m1 EXCEPT !.tracking = n, !.clkKnown = TRUE]
<1>1. n \in Confidence /\ 0 \in Drift
  BY NumberFacts DEF Links
<1>2. o \in Clock
  <2>1. l.offset + d \in Int
    BY DEF Links, Clock, Drift
  <2>2. QED BY <2>1, ClockMod
<1>3. Sighted(l, d) = m
  BY DEF Sighted, Links
<1> HIDE DEF o, n
<1>4. /\ m1 \in Links /\ SameRing(l, m1) /\ m1.lastSeen = l.lastSeen
      /\ m1.uap = l.uap /\ m1.uapValid = l.uapValid /\ m1.offset = o
      /\ m1.candidates = l.candidates /\ m1.firstTime = l.firstTime
      /\ m1.gotFirst = l.gotFirst /\ m1.drift = 0
  BY <1>1, <1>2 DEF Links, SameRing
<1> HIDE DEF m1
<1>5. /\ m \in Links /\ SameRing(l, m) /\ m.lastSeen = l.lastSeen
      /\ m.uap = l.uap /\ m.uapValid = l.uapValid /\ m.offset = o
      /\ m.candidates = l.candidates /\ m.firstTime = l.firstTime
      /\ m.gotFirst = l.gotFirst /\ m.drift = 0 /\ m.tracking = n /\ m.clkKnown
  BY <1>1, <1>4 DEF Links, SameRing
<1> HIDE DEF m
<1>6. QED BY <1>3, <1>5 DEF o, n

LEMMA TrackFacts ==
  ASSUME NEW l \in Links, NEW e \in Events
  PROVE  LET m == Track(l, e).link  d == Hit(l, e) IN
         /\ m \in Links /\ SameRing(l, m) /\ m.lastSeen = l.lastSeen
         /\ m.uap = l.uap /\ m.uapValid = l.uapValid
         /\ m.candidates = l.candidates /\ m.firstTime = l.firstTime
         /\ m.gotFirst = l.gotFirst
         /\ \/ d = NoHit /\ m = Missed(l)
            \/ d = 0 /\ m = Sighted(l, 0)
            \/ /\ d \notin {0, NoHit} /\ m.drift \in {0, d}
               /\ m.offset = l.offset /\ m.tracking = l.tracking /\ m.clkKnown = l.clkKnown
            \/ d \notin {0, NoHit} /\ l.drift = d /\ m = Sighted(l, d)
<1> DEFINE d == Hit(l, e)  t == Track(l, e)
<1>1. d \in Drift \cup {NoHit} /\ 0 \in Drift /\ NoHit \notin Drift
  BY HitFacts, NumberFacts
<1>2. t = CASE d = NoHit -> [locked |-> FALSE, link |-> Missed(l)]
            [] d = 0 -> [locked |-> TRUE, link |-> Sighted(l, 0)]
            [] d \notin {0, NoHit} /\ l.drift = 0 ->
                 [locked |-> TRUE, link |-> [l EXCEPT !.drift = d]]
            [] d \notin {0, NoHit} /\ l.drift = d ->
                 [locked |-> TRUE, link |-> Sighted(l, d)]
            [] OTHER -> [locked |-> TRUE, link |-> [l EXCEPT !.drift = 0]]
  BY DEF Track
<1> HIDE DEF d, t
<1>3. CASE d = NoHit
  <2>1. t.link = Missed(l)
    BY <1>1, <1>2, <1>3
  <2>2. QED BY <1>3, <2>1, MissedFacts DEF t, d
<1>4. CASE d = 0
  <2>1. t.link = Sighted(l, 0)
    BY <1>1, <1>2, <1>4
  <2>2. QED BY <1>1, <1>4, <2>1, SightedFacts DEF t, d
<1>5. ASSUME NEW x \in Drift, d \notin {0, NoHit}, x \in {0, d}, t.link = [l EXCEPT !.drift = x]
      PROVE  LET m == t.link IN
             /\ m \in Links /\ SameRing(l, m) /\ m.lastSeen = l.lastSeen
             /\ m.uap = l.uap /\ m.uapValid = l.uapValid
             /\ m.candidates = l.candidates /\ m.firstTime = l.firstTime
             /\ m.gotFirst = l.gotFirst /\ m.drift = x
             /\ m.offset = l.offset /\ m.tracking = l.tracking /\ m.clkKnown = l.clkKnown
  BY <1>5 DEF Links, SameRing
<1>6. CASE d \notin {0, NoHit} /\ l.drift = 0
  <2>1. t.link = [l EXCEPT !.drift = d]
    BY <1>1, <1>2, <1>6
  <2>2. QED BY <1>1, <1>5, <1>6, <2>1 DEF t, d
<1>7. CASE d \notin {0, NoHit} /\ l.drift = d
  <2>1. t.link = Sighted(l, d)
    BY <1>1, <1>2, <1>7
  <2>2. QED BY <1>1, <1>7, <2>1, SightedFacts DEF t, d
<1>8. CASE d \notin {0, NoHit} /\ l.drift \notin {0, d}
  <2>1. t.link = [l EXCEPT !.drift = 0]
    BY <1>1, <1>2, <1>8
  <2>2. QED BY <1>1, <1>5, <1>8, <2>1 DEF t, d
<1>9. QED BY <1>1, <1>3, <1>4, <1>6, <1>7, <1>8

\* The recovery looks at nothing but its own state.
LEMMA SameScan ==
  ASSUME NEW l \in Links, NEW m \in Links, SameRecovery(l, m), NEW f \in HeardFrames,
         NEW clk1 \in Nat
  PROVE  /\ Anchor(m, clk1) = Anchor(l, clk1)
         /\ FirstStrong(m, f, clk1) = FirstStrong(l, f, clk1)
         /\ \A upto : Narrowed(m, f, clk1, upto) = Narrowed(l, f, clk1, upto)
         /\ Left(m, f, clk1) = Left(l, f, clk1)
<1>1. Anchor(m, clk1) = Anchor(l, clk1)
  BY DEF Anchor, SameRecovery
<1>2. \A c \in Clock : /\ ClockOf(m, clk1, c) = ClockOf(l, clk1, c)
                       /\ Considered(m, c) = Considered(l, c)
                       /\ Verdict(m, f, clk1, c) = Verdict(l, f, clk1, c)
  BY <1>1 DEF ClockOf, Considered, Verdict, SameRecovery
<1>3. {c \in Clock : Considered(m, c) /\ Verdict(m, f, clk1, c) = "strong"}
        = {c \in Clock : Considered(l, c) /\ Verdict(l, f, clk1, c) = "strong"}
  BY <1>2
<1>4. FirstStrong(m, f, clk1) = FirstStrong(l, f, clk1)
  BY <1>3 DEF FirstStrong
<1>5. ASSUME NEW upto PROVE Narrowed(m, f, clk1, upto) = Narrowed(l, f, clk1, upto)
  BY <1>2 DEF Narrowed, SameRecovery
<1>6. QED BY <1>1, <1>4, <1>5 DEF Left

LEMMA SameHit ==
  ASSUME NEW l \in Links, NEW m \in Links, SameRecovery(l, m), NEW e
  PROVE  Hit(m, e) = Hit(l, e)
<1>1. \A d : HitAt(m, e, d) = HitAt(l, e, d)
  BY DEF HitAt, CentralClk, SameRecovery
<1>2. QED BY <1>1 DEF Hit

-----------------------------------------------------------------------------
(* The ring *)

\* Where the event at a position is, without the remainders.
Oldest(h, n) == IF h >= n THEN h - n ELSE h - n + QueueSize
At(h, n, p) == IF Oldest(h, n) + p < QueueSize THEN Oldest(h, n) + p
               ELSE Oldest(h, n) + p - QueueSize

LEMMA IndexIs ==
  ASSUME NEW l, l.head \in Slot, NEW n \in 0 .. QueueSize, NEW p \in 0 .. QueueSize
  PROVE  /\ OldestIndex(l, n) = Oldest(l.head, n) /\ Oldest(l.head, n) \in Slot
         /\ IndexAt(l, n, p) = At(l.head, n, p) /\ At(l.head, n, p) \in Slot
<1>a. QueueSize \in Nat \ {0} /\ l.head \in 0 .. QueueSize - 1 /\ Slot = 0 .. QueueSize - 1
  BY Sizes DEF Slot
<1>1. OldestIndex(l, n) = Oldest(l.head, n) /\ Oldest(l.head, n) \in Slot
  <2>1. PICK x \in 0 .. 2 * QueueSize - 1 : x = l.head + QueueSize - n
    BY <1>a
  <2>2. x % QueueSize = IF x < QueueSize THEN x ELSE x - QueueSize
    BY WrappedSlot
  <2>3. QED BY <1>a, <2>1, <2>2 DEF OldestIndex, Oldest
<1>2. IndexAt(l, n, p) = At(l.head, n, p) /\ At(l.head, n, p) \in Slot
  <2> DEFINE o == Oldest(l.head, n)
  <2> HIDE DEF o
  <2>a. o \in Slot
    BY <1>1 DEF o
  <2>1. PICK x \in 0 .. 2 * QueueSize - 1 : x = o + p
    BY <1>a, <2>a
  <2>2. x % QueueSize = IF x < QueueSize THEN x ELSE x - QueueSize
    BY WrappedSlot
  <2>3. IndexAt(l, n, p) = (o + p) % QueueSize
    BY <1>1 DEF IndexAt, o
  <2>4. At(l.head, n, p) = IF o + p < QueueSize THEN o + p ELSE o + p - QueueSize
    BY DEF At, o
  <2>5. QED BY <1>a, <2>a, <2>1, <2>2, <2>3, <2>4
<1>3. QED BY <1>1, <1>2

\* A place is made for the event, and the later ones move up.
LEMMA PlacedWindow ==
  ASSUME NEW l \in Links, NEW e \in Events, NEW fill \in 0 .. QueueSize - 1,
         NEW pos \in 0 .. fill
  PROVE  LET m == Placed(l, e, fill, pos) IN
         /\ m.fill = fill + 1
         /\ \A p \in 0 .. fill :
              m.queue[IndexAt(m, fill + 1, p)] =
                IF p < pos THEN l.queue[IndexAt(l, fill, p)]
                ELSE IF p = pos THEN e ELSE l.queue[IndexAt(l, fill, p - 1)]
<1> DEFINE m == Placed(l, e, fill, pos)
           h == l.head
           logical(i) == (i + QueueSize - OldestIndex(l, fill)) % QueueSize
<1>a. /\ QueueSize \in Nat \ {0} /\ Slot = 0 .. QueueSize - 1
      /\ l.head \in Slot /\ h \in 0 .. QueueSize - 1
      /\ fill \in 0 .. QueueSize /\ fill + 1 \in 0 .. QueueSize
  BY Sizes DEF Slot, Links
<1>1. /\ m.fill = fill + 1 /\ m.head = (h + 1) % QueueSize
      /\ m.queue = [i \in Slot |->
                      CASE logical(i) < pos \/ logical(i) > fill -> l.queue[i]
                        [] logical(i) = pos -> e
                        [] OTHER -> l.queue[(i + QueueSize - 1) % QueueSize]]
  BY DEF Placed, Links
<1>2. m.head = IF h + 1 < QueueSize THEN h + 1 ELSE 0
  <2>1. PICK x \in 0 .. 2 * QueueSize - 1 : x = h + 1
    BY <1>a
  <2>2. x % QueueSize = IF x < QueueSize THEN x ELSE x - QueueSize
    BY WrappedSlot
  <2>3. (h + 1) % QueueSize = IF h + 1 < QueueSize THEN h + 1 ELSE 0
    <3>1. h + 1 < QueueSize \/ h + 1 = QueueSize
      BY <1>a
    <3>2. CASE h + 1 < QueueSize BY <2>1, <2>2, <3>2
    <3>3. CASE h + 1 = QueueSize
      <4>1. ~(x < QueueSize) /\ x - QueueSize = 0
        BY <1>a, <2>1, <3>3
      <4>2. QED BY <1>a, <2>1, <2>2, <3>3, <4>1
    <3>4. QED BY <3>1, <3>2, <3>3
  <2>4. QED BY <1>1, <2>3
<1> HIDE DEF m, h
<1>3. m.head \in Slot /\ Oldest(m.head, fill + 1) = Oldest(h, fill)
  BY <1>a, <1>2 DEF Oldest
<1>4. ASSUME NEW p \in 0 .. fill
      PROVE  m.queue[IndexAt(m, fill + 1, p)] =
               IF p < pos THEN l.queue[IndexAt(l, fill, p)]
               ELSE IF p = pos THEN e ELSE l.queue[IndexAt(l, fill, p - 1)]
  <2> DEFINE i == At(h, fill, p)  o == Oldest(h, fill)
  <2>1. IndexAt(m, fill + 1, p) = At(m.head, fill + 1, p) /\ p \in 0 .. QueueSize
    <3>1. PICK n \in 0 .. QueueSize : n = fill + 1
      BY <1>a
    <3>2. p \in 0 .. QueueSize
      BY <1>a
    <3>3. IndexAt(m, n, p) = At(m.head, n, p)
      BY <1>3, <3>2, IndexIs
    <3>4. QED BY <3>1, <3>2, <3>3
  <2>2. IndexAt(l, fill, p) = i /\ OldestIndex(l, fill) = o /\ i \in Slot /\ o \in Slot
    BY <1>a, <2>1, IndexIs DEF h
  <2>3. IndexAt(m, fill + 1, p) = i
    BY <1>3, <2>1 DEF At
  <2>4. i = IF o + p < QueueSize THEN o + p ELSE o + p - QueueSize
    BY DEF At
  <2> HIDE DEF i, o
  <2>5. logical(i) = p
    <3>1. PICK x \in 0 .. 2 * QueueSize - 1 : x = i + QueueSize - o
      BY <1>a, <2>2
    <3>2. x % QueueSize = IF x < QueueSize THEN x ELSE x - QueueSize
      BY WrappedSlot
    <3>3. QED BY <1>a, <2>2, <2>4, <3>1, <3>2
  <2>6. ASSUME p > pos PROVE (i + QueueSize - 1) % QueueSize = IndexAt(l, fill, p - 1)
    <3>1. PICK x \in 0 .. 2 * QueueSize - 1 : x = i + QueueSize - 1
      BY <1>a, <2>2
    <3>2. x % QueueSize = IF x < QueueSize THEN x ELSE x - QueueSize
      BY WrappedSlot
    <3>3. PICK y \in 0 .. QueueSize : y = p - 1
      BY <1>a, <2>6
    <3>4. IndexAt(l, fill, y) = At(h, fill, y)
      BY <1>a, IndexIs DEF h
    <3>5. At(h, fill, y) = IF o + y < QueueSize THEN o + y ELSE o + y - QueueSize
      BY DEF At, o
    <3>6. QED BY <1>a, <2>2, <2>4, <2>6, <3>1, <3>2, <3>3, <3>4, <3>5
  <2>7. m.queue[i] = CASE logical(i) < pos \/ logical(i) > fill -> l.queue[i]
                       [] logical(i) = pos -> e
                       [] OTHER -> l.queue[(i + QueueSize - 1) % QueueSize]
    BY <1>1, <2>2
  <2> HIDE DEF logical
  <2>8. CASE p < pos
    BY <2>2, <2>3, <2>5, <2>7, <2>8
  <2>9. CASE p = pos
    <3>1. ~(p < pos) /\ ~(p > fill)
      BY <2>9
    <3>2. QED BY <2>3, <2>5, <2>7, <2>9, <3>1
  <2>10. CASE p > pos
    <3>1. ~(p < pos) /\ ~(p > fill) /\ p # pos
      BY <2>10
    <3>2. QED BY <2>3, <2>5, <2>6, <2>7, <2>10, <3>1
  <2>11. QED BY <2>8, <2>9, <2>10
<1>5. QED BY <1>1, <1>4 DEF m

\* A place is made in a ring that is full, too, whose oldest event goes.
LEMMA DroppedWindow ==
  ASSUME NEW l, l.head \in Slot, NEW p \in 0 .. QueueSize - 1
  PROVE  IndexAt(l, QueueSize - 1, p) = IndexAt(l, QueueSize, p + 1)
<1>a. QueueSize \in Nat \ {0} /\ l.head \in 0 .. QueueSize - 1
  BY Sizes DEF Slot
<1>1. PICK n \in 0 .. QueueSize : n = QueueSize - 1
  BY <1>a
<1>2. PICK q \in 0 .. QueueSize : q = p + 1
  BY <1>a
<1>3. p \in 0 .. QueueSize /\ QueueSize \in 0 .. QueueSize
  BY <1>a
<1>4. IndexAt(l, n, p) = At(l.head, n, p) /\ IndexAt(l, QueueSize, q) = At(l.head, QueueSize, q)
  BY <1>3, IndexIs
<1>5. At(l.head, n, p) = At(l.head, QueueSize, q)
  BY <1>a, <1>1, <1>2 DEF At, Oldest
<1>6. QED BY <1>1, <1>2, <1>4, <1>5

\* What Insert does to the window of events, seen as a sequence.
Inserted(l, m, e) ==
  \E p \in 0 .. l.fill :
    /\ Belongs(Window(l), e, p)
    /\ Window(m) = LatestOf(InsertAt(Window(l), p + 1, e))
    /\ m.fill = IF l.fill < QueueSize THEN l.fill + 1 ELSE QueueSize
    /\ IsNewest(l, e) <=> p = l.fill

\* The events of a ring, in the order they started.
GoodRing(l) ==
  /\ \A p \in 1 .. l.fill : Window(l)[p] \in Events
  /\ Ordered(Window(l))

LEMMA InsertAtIs ==
  ASSUME NEW S, NEW w \in Seq(S), NEW e \in S, NEW p \in 0 .. Len(w)
  PROVE  /\ InsertAt(w, p + 1, e) \in Seq(S)
         /\ Len(InsertAt(w, p + 1, e)) = Len(w) + 1
         /\ \A i \in 1 .. Len(w) + 1 :
              InsertAt(w, p + 1, e)[i] =
                IF i <= p THEN w[i] ELSE IF i = p + 1 THEN e ELSE w[i - 1]
<1>1. Len(w) \in Nat
  BY LenProperties
<1> DEFINE a == SubSeq(w, 1, p)  b == <<e>>  c == SubSeq(w, p + 1, Len(w))
<1>2. InsertAt(w, p + 1, e) = (a \o b) \o c
  <2>1. PICK q \in Nat : q = p + 1
    BY <1>1
  <2>2. q - 1 = p
    BY <1>1, <2>1
  <2>3. InsertAt(w, q, e) = (SubSeq(w, 1, q - 1) \o <<e>>) \o SubSeq(w, q, Len(w))
    BY DEF InsertAt
  <2>4. InsertAt(w, q, e) = (a \o b) \o SubSeq(w, q, Len(w))
    BY <2>2, <2>3
  <2>5. QED BY <2>1, <2>4
<1>3. a \in Seq(S) /\ Len(a) = p /\ \A i \in 1 .. p : a[i] = w[i]
  BY <1>1, SubSeqProperties
<1>4. /\ c \in Seq(S) /\ Len(c) = Len(w) - p
      /\ \A i \in 1 .. Len(w) - p : c[i] = w[p + i]
  BY <1>1, SubSeqProperties
<1>5. b \in Seq(S) /\ Len(b) = 1 /\ b[1] = e
  OBVIOUS
<1> HIDE DEF a, b, c
<1>6. /\ a \o b \in Seq(S) /\ Len(a \o b) = p + 1
      /\ \A i \in 1 .. p + 1 : (a \o b)[i] = IF i <= p THEN w[i] ELSE e
  <2>1. /\ a \o b \in Seq(S) /\ Len(a \o b) = Len(a) + Len(b)
        /\ \A i \in 1 .. Len(a) + Len(b) :
             (a \o b)[i] = IF i <= Len(a) THEN a[i] ELSE b[i - Len(a)]
    BY <1>3, <1>5, ConcatProperties
  <2>2. ASSUME NEW i \in 1 .. p + 1 PROVE (a \o b)[i] = IF i <= p THEN w[i] ELSE e
    BY <1>1, <1>3, <1>5, <2>1
  <2>3. QED BY <1>3, <1>5, <2>1, <2>2
<1> DEFINE ab == a \o b
<1> HIDE DEF ab
<1>7. /\ ab \o c \in Seq(S) /\ Len(ab \o c) = Len(w) + 1
      /\ \A i \in 1 .. Len(w) + 1 :
           (ab \o c)[i] = IF i <= p + 1 THEN ab[i] ELSE c[i - (p + 1)]
  <2>a. ab \in Seq(S) /\ Len(ab) = p + 1
    BY <1>6 DEF ab
  <2>1. /\ ab \o c \in Seq(S) /\ Len(ab \o c) = Len(ab) + Len(c)
        /\ \A i \in 1 .. Len(ab) + Len(c) :
             (ab \o c)[i] = IF i <= Len(ab) THEN ab[i] ELSE c[i - Len(ab)]
    BY <1>4, <2>a, ConcatProperties
  <2>2. Len(ab) + Len(c) = Len(w) + 1
    BY <1>1, <1>4, <2>a
  <2>3. QED BY <2>a, <2>1, <2>2
<1> DEFINE t == InsertAt(w, p + 1, e)
<1>t. t = ab \o c
  BY <1>2 DEF ab
<1> HIDE DEF t
<1>8. ASSUME NEW i \in 1 .. Len(w) + 1
      PROVE  (ab \o c)[i] =
               IF i <= p THEN w[i] ELSE IF i = p + 1 THEN e ELSE w[i - 1]
  <2>1. CASE i <= p + 1
    BY <1>1, <1>6, <1>7, <2>1 DEF ab
  <2>2. CASE ~(i <= p + 1)
    <3>1. i - (p + 1) \in 1 .. Len(w) - p /\ p + (i - (p + 1)) = i - 1
      BY <1>1, <2>2
    <3>2. c[i - (p + 1)] = w[i - 1]
      BY <1>4, <3>1
    <3>3. QED BY <1>1, <1>7, <2>2, <3>2
  <2>3. QED BY <2>1, <2>2
<1>9. /\ t \in Seq(S) /\ Len(t) = Len(w) + 1
      /\ \A i \in 1 .. Len(w) + 1 :
           t[i] = IF i <= p THEN w[i] ELSE IF i = p + 1 THEN e ELSE w[i - 1]
  BY <1>t, <1>7, <1>8
<1>10. QED BY <1>9, Zenon DEF t

LEMMA WindowFacts ==
  ASSUME NEW l \in Links, \A p \in 1 .. l.fill : Window(l)[p] \in Events
  PROVE  /\ l.fill \in Nat /\ l.fill <= QueueSize
         /\ Window(l) \in Seq(Events) /\ Len(Window(l)) = l.fill
         /\ \A p \in 1 .. l.fill : /\ Window(l)[p] = l.queue[IndexAt(l, l.fill, p - 1)]
                                   /\ Window(l)[p].start \in Nat
<1>1. l.fill \in Nat /\ l.fill <= QueueSize
  BY Sizes DEF Links
<1>2. \A p \in 1 .. l.fill : Window(l)[p] = l.queue[IndexAt(l, l.fill, p - 1)]
  BY DEF Window
<1>3. DOMAIN Window(l) = 1 .. l.fill
  BY DEF Window
<1>4. Window(l) = [p \in 1 .. l.fill |-> Window(l)[p]]
  BY DEF Window
<1>5. Window(l) \in Seq(Events) /\ Len(Window(l)) = l.fill
  <2> DEFINE w == Window(l)
  <2>1. w = [p \in 1 .. l.fill |-> w[p]] /\ \A p \in 1 .. l.fill : w[p] \in Events
    BY <1>4
  <2> HIDE DEF w
  <2>2. w \in [1 .. l.fill -> Events] /\ DOMAIN w = 1 .. l.fill
    BY <2>1
  <2>3. w \in Seq(Events) /\ Len(w) = l.fill
    BY <1>1, <2>2, SeqDef, LenProperties
  <2>4. QED BY <2>3 DEF w
<1>6. QED BY <1>1, <1>2, <1>5, EventTypes

\* An event put where it belongs keeps the order.
LEMMA InsertOrders ==
  ASSUME NEW w \in Seq(Events), NEW e \in Events, NEW p \in 0 .. Len(w),
         Ordered(w), Belongs(w, e, p)
  PROVE  Ordered(InsertAt(w, p + 1, e))
<1> DEFINE t == InsertAt(w, p + 1, e)
<1>1. Len(w) \in Nat /\ DOMAIN w = 1 .. Len(w) /\ \A i \in 1 .. Len(w) : w[i].start \in Nat
  BY LenProperties, EventTypes
<1>2. /\ t \in Seq(Events) /\ Len(t) = Len(w) + 1
      /\ \A i \in 1 .. Len(w) + 1 :
           t[i] = IF i <= p THEN w[i] ELSE IF i = p + 1 THEN e ELSE w[i - 1]
  BY InsertAtIs
<1> HIDE DEF t
<1>3. DOMAIN t = 1 .. Len(w) + 1
  BY <1>2, LenProperties
<1>4. ASSUME NEW i \in 1 .. Len(w) + 1, NEW j \in 1 .. Len(w) + 1, i < j
      PROVE  t[i].start <= t[j].start
  <2>a. \A a, b \in 1 .. Len(w) : a < b => w[a].start <= w[b].start
    BY <1>1 DEF Ordered
  <2>b. /\ \A a \in 1 .. p : w[a].start <= e.start
        /\ \A a \in p + 1 .. Len(w) : w[a].start > e.start
        /\ e.start \in Nat
    BY EventTypes DEF Belongs
  <2>1. CASE j <= p
    BY <1>1, <1>2, <1>4, <2>1, <2>a
  <2>2. CASE j = p + 1
    <3>1. i \in 1 .. p /\ ~(j <= p)
      BY <1>1, <1>4, <2>2
    <3>2. t[j] = e /\ t[i] = w[i]
      BY <1>2, <2>2, <3>1
    <3>3. QED BY <2>b, <3>1, <3>2
  <2>3. CASE j > p + 1 /\ i = p + 1
    <3>1. t[j] = w[j - 1] /\ t[i] = e /\ j - 1 \in p + 1 .. Len(w)
      BY <1>1, <1>2, <2>3
    <3>2. QED BY <1>1, <2>b, <3>1
  <2>4. CASE j > p + 1 /\ i <= p
    <3>1. t[j] = w[j - 1] /\ t[i] = w[i] /\ j - 1 \in 1 .. Len(w) /\ i < j - 1
          /\ i \in 1 .. Len(w)
      BY <1>1, <1>2, <2>4
    <3>2. QED BY <2>a, <3>1
  <2>5. CASE i > p + 1
    <3>1. t[j] = w[j - 1] /\ t[i] = w[i - 1] /\ j - 1 \in 1 .. Len(w) /\ i - 1 < j - 1
          /\ i - 1 \in 1 .. Len(w)
      BY <1>1, <1>2, <1>4, <2>5
    <3>2. QED BY <2>a, <3>1
  <2>6. QED BY <1>1, <2>1, <2>2, <2>3, <2>4, <2>5
<1>5. QED BY <1>3, <1>4 DEF Ordered, t

LEMMA LatestFacts ==
  ASSUME NEW t \in Seq(Events), Len(t) > 0, Ordered(t)
  PROVE  /\ LatestOf(t) \in Seq(Events) /\ Ordered(LatestOf(t))
         /\ Len(LatestOf(t)) = IF Len(t) > QueueSize THEN Len(t) - 1 ELSE Len(t)
         /\ Len(t) > QueueSize => \A i \in 1 .. Len(t) - 1 : LatestOf(t)[i] = t[i + 1]
<1>1. Len(t) \in Nat /\ DOMAIN t = 1 .. Len(t) /\ t # <<>>
  BY LenProperties, EmptySeq
<1>2. CASE Len(t) > QueueSize
  <2> DEFINE u == Tail(t)
  <2>1. /\ u \in Seq(Events) /\ Len(u) = Len(t) - 1
        /\ \A i \in 1 .. Len(u) : u[i] = t[i + 1]
    BY <1>1, HeadTailProperties
  <2> HIDE DEF u
  <2>2. DOMAIN u = 1 .. Len(t) - 1
    BY <2>1, LenProperties
  <2>3. ASSUME NEW i \in 1 .. Len(t) - 1, NEW j \in 1 .. Len(t) - 1, i < j
        PROVE  u[i].start <= u[j].start
    <3>1. u[i] = t[i + 1] /\ u[j] = t[j + 1]
      BY <2>1
    <3>2. i + 1 \in 1 .. Len(t) /\ j + 1 \in 1 .. Len(t) /\ i + 1 < j + 1
      BY <1>1, <2>3
    <3>3. QED BY <1>1, <3>1, <3>2 DEF Ordered
  <2>4. Ordered(u)
    BY <2>2, <2>3 DEF Ordered
  <2>5. LatestOf(t) = u
    BY <1>2 DEF LatestOf, u
  <2>6. QED BY <1>2, <2>1, <2>4, <2>5
<1>3. CASE ~(Len(t) > QueueSize)
  BY <1>3 DEF LatestOf
<1>4. QED BY <1>2, <1>3

LEMMA InsertWindow ==
  ASSUME NEW l \in Links, NEW e \in Events, GoodRing(l)
  PROVE  /\ Inserted(l, Insert(l, e), e)
         /\ GoodRing(Insert(l, e))
         /\ Insert(l, e).fill > 0
         /\ LET last == Last(Window(Insert(l, e))) IN
            IF IsNewest(l, e) THEN last = e ELSE last = Last(Window(l)) /\ l.fill > 0
<1> DEFINE w == Window(l)
           m == Insert(l, e)
           p == InsertPos(l, e)
           t == InsertAt(w, p + 1, e)
<1>1. /\ l.fill \in Nat /\ l.fill <= QueueSize /\ QueueSize \in Nat \ {0}
      /\ w \in Seq(Events) /\ Len(w) = l.fill /\ DOMAIN w = 1 .. l.fill
      /\ \A i \in 1 .. l.fill : /\ w[i] = l.queue[IndexAt(l, l.fill, i - 1)]
                               /\ w[i].start \in Nat
      /\ e.start \in Nat /\ l.head \in Slot /\ Ordered(w)
  BY Sizes, WindowFacts, EventTypes, LenProperties DEF GoodRing, Links
<1>2. /\ p \in 0 .. l.fill
      /\ \A q \in 0 .. p - 1 : Before(l, e, q)
      /\ p < l.fill => ~Before(l, e, p)
  BY <1>1, InsertPosFacts
<1>3. \A i \in 1 .. l.fill : Before(l, e, i - 1) <=> w[i].start <= e.start
  BY <1>1 DEF Before
<1> HIDE DEF w, p
<1>4. Belongs(w, e, p)
  <2>1. ASSUME NEW i \in 1 .. p PROVE w[i].start <= e.start
    <3>1. i - 1 \in 0 .. p - 1 /\ i \in 1 .. l.fill
      BY <1>1, <1>2
    <3>2. QED BY <1>2, <1>3, <3>1
  <2>2. ASSUME NEW i \in p + 1 .. l.fill PROVE w[i].start > e.start
    <3>1. p + 1 \in 1 .. l.fill /\ p < l.fill /\ i \in 1 .. l.fill
      BY <1>1, <1>2, <2>2
    <3>2. PICK q \in 1 .. l.fill : q = p + 1 /\ q - 1 = p
      BY <1>2, <3>1
    <3>3. w[q].start > e.start
      BY <1>1, <1>2, <1>3, <3>1, <3>2
    <3>4. w[q].start <= w[i].start
      <4>1. q = i \/ q < i
        BY <1>1, <3>1, <3>2
      <4>2. QED BY <1>1, <3>1, <3>2, <4>1 DEF Ordered
    <3>5. QED BY <1>1, <3>1, <3>3, <3>4
  <2>3. QED BY <1>1, <2>1, <2>2 DEF Belongs
<1>5. /\ t \in Seq(Events) /\ Len(t) = l.fill + 1
      /\ \A i \in 1 .. l.fill + 1 :
           t[i] = IF i <= p THEN w[i] ELSE IF i = p + 1 THEN e ELSE w[i - 1]
  <2>1. w \in Seq(Events) /\ p \in 0 .. Len(w) /\ Len(w) = l.fill
    BY <1>1, <1>2
  <2>2. /\ t \in Seq(Events) /\ Len(t) = Len(w) + 1
        /\ \A i \in 1 .. Len(w) + 1 :
             t[i] = IF i <= p THEN w[i] ELSE IF i = p + 1 THEN e ELSE w[i - 1]
    <3>1. \A v \in Seq(Events) : \A q \in 0 .. Len(v) :
            /\ InsertAt(v, q + 1, e) \in Seq(Events)
            /\ Len(InsertAt(v, q + 1, e)) = Len(v) + 1
            /\ \A i \in 1 .. Len(v) + 1 :
                 InsertAt(v, q + 1, e)[i] =
                   IF i <= q THEN v[i] ELSE IF i = q + 1 THEN e ELSE v[i - 1]
      BY InsertAtIs
    <3>2. QED BY <2>1, <3>1, ZenonT(40)
  <2> HIDE DEF t
  <2>3. QED BY <2>1, <2>2
<1>6. Ordered(t)
  BY <1>1, <1>2, <1>4, InsertOrders
<1> HIDE DEF t, m
<1>7. /\ LatestOf(t) \in Seq(Events) /\ Ordered(LatestOf(t))
      /\ Len(LatestOf(t)) = IF l.fill < QueueSize THEN l.fill + 1 ELSE QueueSize
      /\ l.fill < QueueSize => LatestOf(t) = t
      /\ l.fill = QueueSize =>
           \A i \in 1 .. QueueSize : LatestOf(t)[i] = t[i + 1]
  <2>1. Len(t) > 0 /\ (Len(t) > QueueSize <=> l.fill = QueueSize)
    BY <1>1, <1>5
  <2>2. Len(t) - 1 = l.fill
    BY <1>1, <1>5
  <2>3. /\ LatestOf(t) \in Seq(Events) /\ Ordered(LatestOf(t))
        /\ Len(LatestOf(t)) = IF Len(t) > QueueSize THEN Len(t) - 1 ELSE Len(t)
        /\ Len(t) > QueueSize => \A i \in 1 .. Len(t) - 1 : LatestOf(t)[i] = t[i + 1]
    BY <1>5, <1>6, <2>1, LatestFacts
  <2>4. l.fill < QueueSize => LatestOf(t) = t
    BY <1>1, <2>1 DEF LatestOf
  <2>5. Len(LatestOf(t)) = IF l.fill < QueueSize THEN l.fill + 1 ELSE QueueSize
    BY <1>1, <1>5, <2>1, <2>2, <2>3
  <2>6. QED BY <1>1, <2>1, <2>2, <2>3, <2>4, <2>5
<1>8. /\ m.fill = Len(LatestOf(t))
      /\ \A i \in 1 .. m.fill : m.queue[IndexAt(m, m.fill, i - 1)] = LatestOf(t)[i]
  <2>1. CASE l.fill < QueueSize
    <3>1. m = Placed(l, e, l.fill, p) /\ l.fill \in 0 .. QueueSize - 1
      BY <1>1, <2>1 DEF Insert, m, p
    <3>2. /\ m.fill = l.fill + 1
          /\ \A q \in 0 .. l.fill :
               m.queue[IndexAt(m, l.fill + 1, q)] =
                 IF q < p THEN l.queue[IndexAt(l, l.fill, q)]
                 ELSE IF q = p THEN e ELSE l.queue[IndexAt(l, l.fill, q - 1)]
      BY <1>2, <3>1, PlacedWindow
    <3>3. ASSUME NEW i \in 1 .. l.fill + 1
          PROVE  m.queue[IndexAt(m, m.fill, i - 1)] = t[i]
      <4>1. PICK q \in 0 .. l.fill : q = i - 1
        BY <1>1
      <4>2. m.queue[IndexAt(m, m.fill, i - 1)] =
              IF q < p THEN l.queue[IndexAt(l, l.fill, q)]
              ELSE IF q = p THEN e ELSE l.queue[IndexAt(l, l.fill, q - 1)]
        BY <3>2, <4>1
      <4>3. CASE q < p
        <5>1. i <= p /\ i \in 1 .. l.fill
          BY <1>1, <1>2, <4>1, <4>3
        <5>2. QED BY <1>1, <1>5, <4>1, <4>2, <4>3, <5>1
      <4>4. CASE q = p
        BY <1>1, <1>2, <1>5, <4>1, <4>2, <4>4
      <4>5. CASE q > p
        <5>1. PICK k \in 1 .. l.fill : k = q
          BY <1>1, <1>2, <4>5
        <5>2. ~(i <= p) /\ i # p + 1 /\ i - 1 = k /\ ~(q < p) /\ q # p
          BY <1>1, <1>2, <4>1, <4>5, <5>1
        <5>3. QED BY <1>1, <1>5, <4>2, <5>1, <5>2
      <4>6. QED BY <1>1, <1>2, <4>3, <4>4, <4>5
    <3>4. QED BY <1>7, <2>1, <3>2, <3>3
  <2>2. CASE l.fill = QueueSize /\ p = 0
    <3>1. m = l
      BY <1>1, <2>2 DEF Insert, m, p
    <3>2. ASSUME NEW i \in 1 .. QueueSize PROVE LatestOf(t)[i] = w[i]
      <4>1. PICK k \in 1 .. l.fill + 1 : k = i + 1 /\ k - 1 = i
        BY <1>1, <2>2
      <4>2. t[k] = w[k - 1]
        <5>1. ~(k <= p) /\ k # p + 1
          BY <2>2, <4>1
        <5>2. QED BY <1>5, <4>1, <5>1
      <4>3. LatestOf(t)[i] = t[k]
        BY <1>7, <2>2, <4>1
      <4>4. QED BY <4>1, <4>2, <4>3
    <3>3. QED BY <1>1, <1>7, <2>2, <3>1, <3>2
  <2>3. CASE l.fill = QueueSize /\ p > 0
    <3>1. /\ m = Placed(l, e, QueueSize - 1, p - 1)
          /\ QueueSize - 1 \in 0 .. QueueSize - 1 /\ p - 1 \in 0 .. QueueSize - 1
      BY <1>1, <1>2, <2>3 DEF Insert, m, p
    <3>a. PICK n \in 0 .. QueueSize - 1 : n = QueueSize - 1 /\ n + 1 = QueueSize
      BY <1>1
    <3>b. PICK r \in 0 .. n : r = p - 1
      BY <3>1, <3>a
    <3>2. /\ m.fill = QueueSize
          /\ \A q \in 0 .. n :
               m.queue[IndexAt(m, QueueSize, q)] =
                 IF q < r THEN l.queue[IndexAt(l, n, q)]
                 ELSE IF q = r THEN e ELSE l.queue[IndexAt(l, n, q - 1)]
      <4>1. m = Placed(l, e, n, r)
        BY <3>1, <3>a, <3>b
      <4>2. /\ m.fill = n + 1
            /\ \A q \in 0 .. n :
                 m.queue[IndexAt(m, n + 1, q)] =
                   IF q < r THEN l.queue[IndexAt(l, n, q)]
                   ELSE IF q = r THEN e ELSE l.queue[IndexAt(l, n, q - 1)]
        BY <4>1, PlacedWindow
      <4>3. QED BY <3>a, <4>2
    <3>3. ASSUME NEW i \in 1 .. QueueSize
          PROVE  m.queue[IndexAt(m, QueueSize, i - 1)] = t[i + 1]
      <4>1. PICK q \in 0 .. n : q = i - 1
        BY <1>1, <3>a
      <4>2. m.queue[IndexAt(m, QueueSize, i - 1)] =
              IF q < r THEN l.queue[IndexAt(l, n, q)]
              ELSE IF q = r THEN e ELSE l.queue[IndexAt(l, n, q - 1)]
        BY <3>2, <4>1
      <4>3. PICK k \in 1 .. l.fill + 1 : k = i + 1 /\ k - 1 = i
        BY <1>1, <2>3
      <4>4. t[k] = IF k <= p THEN w[k] ELSE IF k = p + 1 THEN e ELSE w[i]
        BY <1>5, <4>3
      <4>5. CASE q < r
        <5>1. k <= p /\ k \in 1 .. l.fill /\ q \in 0 .. QueueSize - 1 /\ k - 1 = q + 1
          BY <1>1, <1>2, <2>3, <3>a, <3>b, <4>1, <4>3, <4>5
        <5>2. l.queue[IndexAt(l, n, q)] = l.queue[IndexAt(l, QueueSize, q + 1)]
          BY <1>1, <3>a, <5>1, DroppedWindow
        <5>3. w[k] = l.queue[IndexAt(l, QueueSize, q + 1)]
          BY <1>1, <2>3, <5>1
        <5>4. QED BY <4>2, <4>3, <4>4, <4>5, <5>1, <5>2, <5>3
      <4>6. CASE q = r
        BY <1>1, <1>2, <3>b, <4>1, <4>2, <4>3, <4>4, <4>6
      <4>7. CASE q > r
        <5>1. PICK s \in 0 .. QueueSize - 1 : s = q - 1 /\ s + 1 = i - 1
          BY <1>1, <3>a, <4>1, <4>7
        <5>2. ~(k <= p) /\ k # p + 1 /\ ~(q < r) /\ q # r /\ i \in 1 .. l.fill
          BY <1>1, <1>2, <2>3, <3>b, <4>1, <4>3, <4>7
        <5>3. l.queue[IndexAt(l, n, q - 1)] = l.queue[IndexAt(l, QueueSize, s + 1)]
          BY <1>1, <3>a, <5>1, DroppedWindow
        <5>4. w[i] = l.queue[IndexAt(l, QueueSize, s + 1)]
          BY <1>1, <2>3, <5>1, <5>2
        <5>5. QED BY <4>2, <4>3, <4>4, <5>2, <5>3, <5>4
      <4>8. QED BY <1>1, <3>a, <4>5, <4>6, <4>7
    <3>4. QED BY <1>1, <1>7, <2>3, <3>2, <3>3
  <2>4. QED BY <1>1, <1>2, <2>1, <2>2, <2>3
<1>9. Window(m) = LatestOf(t) /\ m.fill > 0
  <2> DEFINE u == LatestOf(t)
  <2> HIDE DEF u
  <2>1. u \in Seq(Events) /\ Len(u) = m.fill /\ m.fill \in Nat /\ m.fill > 0
    BY <1>1, <1>7, <1>8 DEF u
  <2>2. u = [i \in 1 .. m.fill |-> u[i]]
    BY <2>1, LenProperties
  <2>3. \A i \in 1 .. m.fill : m.queue[IndexAt(m, m.fill, i - 1)] = u[i]
    BY <1>8 DEF u
  <2>4. Window(m) = u
    BY <2>2, <2>3 DEF Window
  <2>5. QED BY <2>1, <2>4 DEF u
<1>10. GoodRing(m)
  <2>1. \A i \in 1 .. m.fill : Window(m)[i] \in Events
    BY <1>7, <1>8, <1>9
  <2>2. QED BY <1>7, <1>9, <2>1 DEF GoodRing
<1>11. IsNewest(l, e) <=> p = l.fill
  BY DEF IsNewest, p
<1>12. Inserted(l, m, e)
  BY <1>2, <1>4, <1>7, <1>8, <1>9, <1>11 DEF Inserted, t, w
<1>13. Last(Window(m)) = t[l.fill + 1]
  <2>1. Last(Window(m)) = Window(m)[m.fill] /\ Window(m) = LatestOf(t)
    BY <1>7, <1>8, <1>9 DEF Last
  <2>2. CASE l.fill < QueueSize
    BY <1>7, <1>8, <2>1, <2>2
  <2>3. CASE l.fill = QueueSize
    BY <1>1, <1>7, <1>8, <2>1, <2>3
  <2>4. QED BY <1>1, <2>2, <2>3
<1>14. IF IsNewest(l, e) THEN Last(Window(m)) = e
       ELSE Last(Window(m)) = Last(w) /\ l.fill > 0
  <2>1. CASE p = l.fill
    BY <1>1, <1>2, <1>5, <1>11, <1>13, <2>1
  <2>2. CASE p < l.fill
    <3>1. PICK k \in 1 .. l.fill + 1 : k = l.fill + 1 /\ k - 1 = l.fill
      BY <1>1
    <3>2. t[k] = w[k - 1]
      BY <1>1, <1>2, <1>5, <2>2, <3>1
    <3>3. QED BY <1>1, <1>2, <1>11, <1>13, <2>2, <3>1, <3>2 DEF Last
  <2>3. QED BY <1>1, <1>2, <2>1, <2>2
<1>15. QED BY <1>9, <1>10, <1>12, <1>14 DEF m, w

-----------------------------------------------------------------------------
(* What one event does *)

LEMMA SubmittedFacts ==
  ASSUME NEW l \in Links, NEW e \in Events
  PROVE  LET m == Submitted(l, e) IN
         /\ m \in Links /\ SameRing(l, m) /\ m.lastSeen = l.lastSeen
         /\ m.clkKnown = l.clkKnown /\ m.tracking = l.tracking
         /\ \/ SameRecovery(l, m)
            \/ ~m.uapValid /\ ~m.gotFirst /\ m.drift = 0
<1> DEFINE k == IF Silent(l, e) THEN RecoveryReset(l) ELSE l
           t == IF Clkn(e) > k.lastClkn THEN Clkn(e) ELSE k.lastClkn
           m == [k EXCEPT !.lastClkn = t]
<1>1. Submitted(l, e) = m
  BY DEF Submitted
<1>2. /\ k \in Links /\ SameRing(l, k) /\ k.lastSeen = l.lastSeen
      /\ k.clkKnown = l.clkKnown /\ k.tracking = l.tracking
      /\ \/ SameRecovery(l, k)
         \/ ~k.uapValid /\ ~k.gotFirst /\ k.drift = 0
  BY ResetTypes DEF SameRing, SameRecovery
<1> HIDE DEF k
<1>3. t \in Nat \cup {Never}
  BY <1>2, EventTypes DEF Links
<1> HIDE DEF t
<1>4. /\ m \in Links /\ SameRing(l, m) /\ m.lastSeen = l.lastSeen
      /\ m.clkKnown = l.clkKnown /\ m.tracking = l.tracking
      /\ SameRecovery(k, m)
  BY <1>2, <1>3 DEF Links, SameRing, SameRecovery
<1> HIDE DEF m
<1>5. QED BY <1>1, <1>2, <1>4 DEF SameRecovery

\* The link with the event in its ring, before the recovery sees it.
Queued(l, e) ==
  [Insert(l, e) EXCEPT
     !.total = @ + 1,
     !.firstSeen = IF l.total = 0 THEN RxClk(e) ELSE @,
     !.lastSeen = IF IsNewest(l, e) THEN RxClk(e) ELSE @]

LEMMA QueuedFacts ==
  ASSUME NEW l \in Links, NEW e \in Events
  PROVE  LET q == Queued(l, e) IN
         /\ q \in Links /\ SameRing(Insert(l, e), q) /\ SameRecovery(l, q)
         /\ q.lastSeen = IF IsNewest(l, e) THEN RxClk(e) ELSE l.lastSeen
<1> DEFINE m == Insert(l, e)
           a == m.total + 1
           b == IF l.total = 0 THEN RxClk(e) ELSE m.firstSeen
           c == IF IsNewest(l, e) THEN RxClk(e) ELSE m.lastSeen
           q == [m EXCEPT !.total = a, !.firstSeen = b, !.lastSeen = c]
<1>1. Queued(l, e) = q
  BY DEF Queued
<1>2. m \in Links /\ SameRecovery(l, m) /\ m.lastSeen = l.lastSeen
  BY InsertTypes
<1> HIDE DEF m
<1>3. a \in Nat /\ b \in Nat /\ c \in Nat
  BY <1>2, EventTypes DEF Links
<1>4. c = IF IsNewest(l, e) THEN RxClk(e) ELSE l.lastSeen
  BY <1>2
<1> HIDE DEF a, b, c
<1>5. q \in Links /\ SameRing(m, q) /\ SameRecovery(m, q) /\ q.lastSeen = c
  BY <1>2, <1>3 DEF Links, SameRing, SameRecovery
<1> HIDE DEF q
<1>6. QED BY <1>1, <1>2, <1>4, <1>5 DEF SameRecovery, m

LEMMA RoutedFacts ==
  ASSUME NEW l \in Links, NEW e \in Events
  PROVE  LET m == Routed(l, e) IN
         /\ m \in Links /\ SameRing(l, m) /\ SameRecovery(l, m)
         /\ m.lastSeen = l.lastSeen
<1> DEFINE c == CentralClk(l, RxClk(e))
           lt == e.frame.lt[c]
<1>1. c \in Clock
  <2>1. RxClk(e) + l.offset \in Int
    BY EventTypes DEF Links, Clock
  <2>2. QED BY <2>1, ClockMod DEF CentralClk
<1>2. lt \in Lts
  BY <1>1, EventTypes DEF HeardFrames
<1> HIDE DEF lt
<1>3. CASE c % 2 = 0
  <2>1. Routed(l, e) = [l EXCEPT !.central = l.central + 1]
    BY <1>3 DEF Routed
  <2>2. QED BY <2>1 DEF Links, SameRing, SameRecovery
<1>4. CASE c % 2 # 0
  <2> DEFINE p == [l.peripheral EXCEPT ![lt] = l.peripheral[lt] + 1]
             m == [l EXCEPT !.peripheral = p]
  <2>1. Routed(l, e) = m
    BY <1>4 DEF Routed, lt
  <2>2. p \in [Lts -> Nat]
    BY <1>2 DEF Links
  <2> HIDE DEF p
  <2>3. m \in Links /\ SameRing(l, m) /\ SameRecovery(l, m) /\ m.lastSeen = l.lastSeen
    BY <2>2 DEF Links, SameRing, SameRecovery
  <2>4. QED BY <2>1, <2>3
<1>5. QED BY <1>3, <1>4

LEMMA AddPacketFacts ==
  ASSUME NEW l \in Links, NEW e \in Events
  PROVE  LET n == AddPacket(l, e)
             q == Queued(l, e)
             r == Recover(q, e).link
         IN IF IsNewest(l, e)
            THEN r \in Links =>
                   /\ n \in Links /\ SameRing(r, n) /\ SameRecovery(r, n)
                   /\ n.lastSeen = r.lastSeen
            ELSE n = q
<1> DEFINE q == Queued(l, e)
           r == Recover(q, e).link
<1>1. AddPacket(l, e) = IF ~IsNewest(l, e) THEN q
                        ELSE IF HasActiveTrack(q) /\ Recover(q, e).locked /\ e.rssi
                        THEN Routed(r, e) ELSE r
  BY DEF AddPacket, Queued
<1> HIDE DEF q, r
<1>2. QED
  BY <1>1, RoutedFacts DEF SameRing, SameRecovery, q, r

\* What a header does to a tracked clock at which it validates with delta d.
TrackOutcome(l, n, d) ==
  /\ n.uap = l.uap /\ n.uapValid = l.uapValid
  /\ n.candidates = l.candidates /\ n.firstTime = l.firstTime
  /\ n.gotFirst = l.gotFirst
  /\ \/ /\ d = NoHit /\ n.drift = 0 /\ n.offset = l.offset
        /\ n.tracking = Lowered(l.tracking)
        /\ n.clkKnown = (Lowered(l.tracking) # 0 /\ l.clkKnown)
     \/ /\ d # NoHit /\ (d = 0 \/ l.drift = d)
        /\ n.drift = 0 /\ n.offset = (l.offset + d) % Clocks
        /\ n.tracking = Raised(l.tracking) /\ n.clkKnown
     \/ /\ d \notin {0, NoHit} /\ n.drift \in {0, d} /\ n.offset = l.offset
        /\ n.tracking = l.tracking /\ n.clkKnown = l.clkKnown

LEMMA TrackStep ==
  ASSUME NEW l \in Links, NEW e \in Events
  PROVE  TrackOutcome(l, Track(l, e).link, Hit(l, e))
<1> DEFINE m == Track(l, e).link  d == Hit(l, e)
<1>1. /\ m.uap = l.uap /\ m.uapValid = l.uapValid
      /\ m.candidates = l.candidates /\ m.firstTime = l.firstTime
      /\ m.gotFirst = l.gotFirst
      /\ \/ d = NoHit /\ m = Missed(l)
         \/ d = 0 /\ m = Sighted(l, 0)
         \/ /\ d \notin {0, NoHit} /\ m.drift \in {0, d}
            /\ m.offset = l.offset /\ m.tracking = l.tracking /\ m.clkKnown = l.clkKnown
         \/ d \notin {0, NoHit} /\ l.drift = d /\ m = Sighted(l, d)
  BY TrackFacts
<1>2. d \in Drift \cup {NoHit} /\ 0 \in Drift /\ NoHit \notin Drift /\ NoHit # 0
  BY HitFacts, NumberFacts
<1> HIDE DEF m, d
<1>3. CASE d = NoHit /\ m = Missed(l)
  BY <1>1, <1>3, MissedFacts DEF TrackOutcome, m, d
<1>4. CASE d = 0 /\ m = Sighted(l, 0)
  <2>1. /\ m.offset = (l.offset + 0) % Clocks /\ m.drift = 0
        /\ m.tracking = Raised(l.tracking) /\ m.clkKnown
    BY <1>2, <1>4, SightedFacts
  <2>2. QED BY <1>1, <1>2, <1>4, <2>1 DEF TrackOutcome, m, d
<1>5. CASE d \notin {0, NoHit} /\ l.drift = d /\ m = Sighted(l, d)
  <2>1. /\ m.offset = (l.offset + d) % Clocks /\ m.drift = 0
        /\ m.tracking = Raised(l.tracking) /\ m.clkKnown
    BY <1>2, <1>5, SightedFacts
  <2>2. QED BY <1>1, <1>5, <2>1 DEF TrackOutcome, m, d
<1>6. CASE /\ d \notin {0, NoHit} /\ m.drift \in {0, d}
           /\ m.offset = l.offset /\ m.tracking = l.tracking /\ m.clkKnown = l.clkKnown
  BY <1>1, <1>6 DEF TrackOutcome, m, d
<1>7. QED BY <1>1, <1>3, <1>4, <1>5, <1>6

\* What a header does to a link whose clock is still sought.
ScanOutcome(l, n, e) ==
  LET f == e.frame
      clk1 == Clkn(e) \div 2
      s == Solve(l, f, clk1)
  IN /\ n.gotFirst = s.link.gotFirst
     /\ n.drift \in {0, l.drift}
     /\ \/ ~n.gotFirst
        \/ /\ l.gotFirst /\ s.solved /\ FirstStrong(l, f, clk1) < Clocks
           /\ n.firstTime = l.firstTime
           /\ n.candidates = Narrowed(l, f, clk1, FirstStrong(l, f, clk1))
        \/ /\ FirstStrong(l, f, clk1) = Clocks
           /\ n.firstTime = Anchor(l, clk1)
           /\ n.candidates = Narrowed(l, f, clk1, Clocks)
     /\ \/ /\ n.clkKnown = l.clkKnown /\ n.tracking = l.tracking
           /\ n.uapValid /\ ~l.uapValid =>
                s.solved /\ n.offset = s.link.offset /\ ValidClocks(n) = {}
        \/ /\ n.clkKnown /\ n.tracking = 1 /\ n.drift = 0
           /\ CleanHec(f, n.uap, CentralClk(n, RxClk(e)))

\* The solver's outcome is that of the link before the event was queued.
LEMMA SameSolve ==
  ASSUME NEW l \in Links, NEW q \in Links, SameRecovery(l, q), NEW f \in HeardFrames,
         NEW clk1 \in Nat
  PROVE  LET s == Solve(q, f, clk1)  t == Solve(l, f, clk1) IN
         /\ s.solved <=> t.solved
         /\ s.link.gotFirst <=> t.link.gotFirst
         /\ s.solved => s.link.offset = t.link.offset
         /\ s.link.uapValid => s.solved \/ l.uapValid
         /\ s.link \in Links /\ SameRing(q, s.link) /\ s.link.lastSeen = q.lastSeen
         /\ s.link.clkKnown = l.clkKnown /\ s.link.tracking = l.tracking
         /\ s.link.drift \in {0, l.drift}
         /\ s.solved => f.clean
         /\ \/ ~s.link.gotFirst
            \/ /\ l.gotFirst /\ t.solved /\ FirstStrong(l, f, clk1) < Clocks
               /\ s.link.firstTime = l.firstTime
               /\ s.link.candidates = Narrowed(l, f, clk1, FirstStrong(l, f, clk1))
            \/ /\ FirstStrong(l, f, clk1) = Clocks
               /\ s.link.firstTime = Anchor(l, clk1)
               /\ s.link.candidates = Narrowed(l, f, clk1, Clocks)
<1> DEFINE s == Solve(q, f, clk1)  t == Solve(l, f, clk1)
<1>1. SolveOutcome(q, f, clk1, s) /\ SolveOutcome(l, f, clk1, t)
  BY SolveFacts
<1>2. /\ Anchor(q, clk1) = Anchor(l, clk1)
      /\ FirstStrong(q, f, clk1) = FirstStrong(l, f, clk1)
      /\ \A upto : Narrowed(q, f, clk1, upto) = Narrowed(l, f, clk1, upto)
      /\ Left(q, f, clk1) = Left(l, f, clk1)
  BY SameScan
<1>3. /\ q.gotFirst = l.gotFirst /\ q.clkKnown = l.clkKnown
      /\ q.tracking = l.tracking /\ q.drift = l.drift /\ q.firstTime = l.firstTime
      /\ q.uapValid = l.uapValid
  BY DEF SameRecovery
<1> HIDE DEF s, t
<1>4. s.solved <=> t.solved
  BY <1>1, <1>2 DEF SolveOutcome
<1>5. s.link.gotFirst <=> t.link.gotFirst
  BY <1>1, <1>2, <1>3 DEF SolveOutcome
<1>7. s.solved => s.link.offset = t.link.offset
  BY <1>1, <1>2, <1>4 DEF SolveOutcome, SolvedClock
<1>6. QED BY <1>1, <1>2, <1>3, <1>4, <1>5, <1>7 DEF SolveOutcome, s, t

\* The clocks the history allows depend on the ring and the UAP only.
LEMMA SameValid ==
  ASSUME NEW l, NEW m, SameRing(l, m), m.uap = l.uap
  PROVE  ValidClocks(m) = ValidClocks(l)
<1>1. \A n, p : IndexAt(m, n, p) = IndexAt(l, n, p)
  BY DEF IndexAt, OldestIndex, SameRing
<1>2. \A i : NthNewest(m, i) = NthNewest(l, i)
  BY <1>1 DEF NthNewest, SameRing
<1>3. \A i : InHistory(m, i) <=> InHistory(l, i)
  BY <1>2 DEF InHistory, SameRing
<1>4. \A i, c : Agrees(m, i, c) <=> Agrees(l, i, c)
  BY <1>2 DEF Agrees
<1>5. ASSUME NEW d PROVE Agreeing(m, d) = Agreeing(l, d)
  BY <1>2, <1>4 DEF Agreeing
<1>6. ScanDepth(m) = ScanDepth(l)
  BY <1>3, <1>5 DEF ScanDepth
<1>7. QED BY <1>5, <1>6 DEF ValidClocks

LEMMA SameWindow ==
  ASSUME NEW l, NEW m, SameRing(l, m)
  PROVE  Window(m) = Window(l) /\ (GoodRing(m) <=> GoodRing(l))
<1>1. \A n, p : IndexAt(m, n, p) = IndexAt(l, n, p)
  BY DEF IndexAt, OldestIndex, SameRing
<1>2. Window(m) = Window(l)
  BY <1>1 DEF Window, SameRing
<1>3. QED BY <1>2 DEF GoodRing, SameRing

LEMMA NewestIs ==
  ASSUME NEW l \in Links, GoodRing(l), l.fill > 0, NEW m, SameRing(l, m)
  PROVE  NthNewest(m, 0) = Last(Window(l))
<1>1. /\ l.fill \in Nat /\ Len(Window(l)) = l.fill
      /\ \A p \in 1 .. l.fill : Window(l)[p] = l.queue[IndexAt(l, l.fill, p - 1)]
  BY WindowFacts DEF GoodRing
<1>2. NthNewest(m, 0) = l.queue[IndexAt(l, l.fill, l.fill - 1 - 0)]
  BY DEF NthNewest, SameRing, IndexAt, OldestIndex
<1>3. PICK k \in 1 .. l.fill : k = l.fill /\ l.fill - 1 - 0 = k - 1
  BY <1>1
<1>4. Last(Window(l)) = Window(l)[k]
  BY <1>1, <1>3 DEF Last
<1>5. QED BY <1>1, <1>2, <1>3, <1>4

\* A header that is the newest event and finds no tracked clock is scanned.
LEMMA ScanStep ==
  ASSUME NEW l \in Links, NEW e \in Events, GoodRing(l), IsNewest(l, e)
  PROVE  LET q == Queued(l, e)  n == Acquire(q, e).link IN
         n \in Links /\ SameRing(q, n) /\ n.lastSeen = q.lastSeen /\ ScanOutcome(l, n, e)
<1> DEFINE q == Queued(l, e)
           f == e.frame
           clk1 == Clkn(e) \div 2
           s == Solve(q, f, clk1)
           t == Solve(l, f, clk1)
           n == Acquire(q, e).link
<1>1. q \in Links /\ SameRing(Insert(l, e), q) /\ SameRecovery(l, q)
  BY QueuedFacts
<1>2. f \in HeardFrames /\ clk1 \in Nat /\ RxClk(e) \in Nat
  BY EventTypes
<1>3. AcquireOutcome(q, e, s, Acquire(q, e))
  BY <1>1, AcquireFacts
<1>4. /\ s.solved <=> t.solved
      /\ s.link.gotFirst <=> t.link.gotFirst
      /\ s.solved => s.link.offset = t.link.offset
      /\ s.link.uapValid => s.solved \/ l.uapValid
      /\ s.link \in Links /\ SameRing(q, s.link) /\ s.link.lastSeen = q.lastSeen
      /\ s.link.clkKnown = l.clkKnown /\ s.link.tracking = l.tracking
      /\ s.link.drift \in {0, l.drift}
      /\ s.solved => f.clean
      /\ \/ ~s.link.gotFirst
         \/ /\ l.gotFirst /\ t.solved /\ FirstStrong(l, f, clk1) < Clocks
            /\ s.link.firstTime = l.firstTime
            /\ s.link.candidates = Narrowed(l, f, clk1, FirstStrong(l, f, clk1))
         \/ /\ FirstStrong(l, f, clk1) = Clocks
            /\ s.link.firstTime = Anchor(l, clk1)
            /\ s.link.candidates = Narrowed(l, f, clk1, Clocks)
  BY <1>1, <1>2, SameSolve
<1>6. SolveOutcome(l, f, clk1, t)
  BY <1>2, SolveFacts
<1>7. s.link.gotFirst = t.link.gotFirst
  BY <1>4, <1>6 DEF SolveOutcome, Links
<1> HIDE DEF s, t, q, f, clk1
<1>8. CASE ~Acquire(q, e).locked /\ n = s.link /\ (s.solved => ValidClocks(s.link) = {})
  BY <1>4, <1>7, <1>8 DEF ScanOutcome, f, clk1, t, q
<1>9. CASE /\ Acquire(q, e).locked /\ s.solved
           /\ \E c \in Clock : /\ Hec(NthNewest(s.link, 0).frame, s.link.uap, c)
                               /\ n = SetUap(s.link, s.link.uap, c, RxClk(e))
  <2>1. PICK c \in Clock : /\ Hec(NthNewest(s.link, 0).frame, s.link.uap, c)
                           /\ n = SetUap(s.link, s.link.uap, c, RxClk(e))
    BY <1>9
  <2>2. s.link.uap \in Uaps
    BY <1>4 DEF Links
  <2>3. /\ n \in Links /\ SameRing(s.link, n)
        /\ n.uap = s.link.uap /\ n.uapValid /\ n.offset = (c - RxClk(e)) % Clocks
        /\ n.clkKnown /\ n.tracking = 1 /\ n.drift = 0
        /\ n.candidates = s.link.candidates /\ n.firstTime = s.link.firstTime
        /\ n.gotFirst = s.link.gotFirst /\ n.lastSeen = s.link.lastSeen
    BY <1>2, <1>4, <2>1, <2>2, SetUapTypes
  <2> HIDE DEF n
  <2>4. NthNewest(s.link, 0) = e
    <3>1. /\ GoodRing(Insert(l, e)) /\ Insert(l, e).fill > 0
          /\ Last(Window(Insert(l, e))) = e
      BY InsertWindow
    <3>2. Insert(l, e) \in Links /\ SameRing(Insert(l, e), s.link)
      BY <1>1, <1>4, InsertTypes DEF SameRing
    <3>3. QED BY <3>1, <3>2, NewestIs
  <2>5. CentralClk(n, RxClk(e)) = c
    <3>1. PICK x \in Int : x = c - RxClk(e)
      BY <1>2 DEF Clock
    <3>2. PICK r \in Int : r = RxClk(e)
      BY <1>2
    <3>3. (r + (x % Clocks)) % Clocks = (r + x) % Clocks
      BY Sizes, ModAdd
    <3>4. r + x = c /\ c \in 0 .. Clocks - 1
      BY <3>1, <3>2 DEF Clock
    <3>5. c % Clocks = c
      BY <3>4, Sizes, Z3
    <3>6. QED BY <2>3, <3>1, <3>2, <3>3, <3>4, <3>5 DEF CentralClk
  <2>6. CleanHec(f, n.uap, CentralClk(n, RxClk(e)))
    BY <1>4, <1>9, <2>1, <2>3, <2>4, <2>5 DEF CleanHec, f
  <2>7. SameRing(q, n) /\ n.lastSeen = q.lastSeen
    BY <1>4, <2>3 DEF SameRing
  <2>8. ScanOutcome(l, n, e)
    <3>1. n.drift \in {0, l.drift} /\ n.gotFirst = t.link.gotFirst
      BY <1>7, <2>3
    <3>2. \/ ~n.gotFirst
          \/ /\ l.gotFirst /\ t.solved /\ FirstStrong(l, f, clk1) < Clocks
             /\ n.firstTime = l.firstTime
             /\ n.candidates = Narrowed(l, f, clk1, FirstStrong(l, f, clk1))
          \/ /\ FirstStrong(l, f, clk1) = Clocks
             /\ n.firstTime = Anchor(l, clk1)
             /\ n.candidates = Narrowed(l, f, clk1, Clocks)
      BY <1>4, <2>3
    <3>3. QED BY <2>3, <2>6, <3>1, <3>2 DEF ScanOutcome, f, clk1, t
  <2>9. QED BY <2>3, <2>7, <2>8 DEF n, q
<1>10. QED BY <1>3, <1>8, <1>9 DEF AcquireOutcome, q, s, f, clk1

\* What one event does to the link that the registry has found for it.
StepOutcome(l, n, e) ==
  /\ n \in Links /\ Inserted(l, n, e) /\ GoodRing(n)
  /\ n.fill > 0 /\ n.lastSeen = RxClk(Last(Window(n)))
  /\ \/ ~Drives(l, e) /\ SameRecovery(l, n)
     \/ Drives(l, e) /\ Followed(l) /\ TrackOutcome(l, n, Hit(l, e))
     \/ Drives(l, e) /\ ~Followed(l) /\ ScanOutcome(l, n, e)

LEMMA StepFacts ==
  ASSUME NEW l \in Links, NEW e \in Events, GoodRing(l),
         l.fill > 0 => l.lastSeen = RxClk(Last(Window(l)))
  PROVE  StepOutcome(l, AddPacket(l, e), e)
<1> DEFINE n == AddPacket(l, e)
           q == Queued(l, e)
           r == Recover(q, e)
           m == Insert(l, e)
<1>1. /\ q \in Links /\ SameRing(m, q) /\ SameRecovery(l, q)
      /\ q.lastSeen = IF IsNewest(l, e) THEN RxClk(e) ELSE l.lastSeen
  BY QueuedFacts
<1>2. /\ Inserted(l, m, e) /\ GoodRing(m) /\ m.fill > 0
      /\ IF IsNewest(l, e) THEN Last(Window(m)) = e
         ELSE Last(Window(m)) = Last(Window(l)) /\ l.fill > 0
  BY InsertWindow
<1>3. IF IsNewest(l, e)
      THEN r.link \in Links => /\ n \in Links /\ SameRing(r.link, n)
                               /\ SameRecovery(r.link, n) /\ n.lastSeen = r.link.lastSeen
      ELSE n = q
  BY AddPacketFacts
<1>t. Followed(q) <=> Followed(l)
  BY <1>1 DEF Followed, SameRecovery
<1>b. e.frame.header \in BOOLEAN
  BY EventTypes DEF HeardFrames
<1> HIDE DEF n, q, m, r
<1>4. ASSUME NEW x \in Links, SameRing(q, x), x.lastSeen = q.lastSeen
      PROVE  /\ Inserted(l, x, e) /\ GoodRing(x)
             /\ x.fill > 0 /\ x.lastSeen = RxClk(Last(Window(x)))
  <2>1. SameRing(m, x)
    BY <1>1, <1>4 DEF SameRing
  <2>2. Window(x) = Window(m) /\ x.fill = m.fill /\ GoodRing(x)
    BY <1>2, <2>1, SameWindow DEF SameRing
  <2>3. QED BY <1>1, <1>2, <1>4, <2>2 DEF Inserted
<1>5. CASE ~IsNewest(l, e)
  <2>1. n = q /\ ~Drives(l, e) /\ SameRing(q, n)
    BY <1>3, <1>5 DEF Drives, SameRing
  <2>2. QED BY <1>1, <1>4, <2>1 DEF StepOutcome, n
<1>6. CASE IsNewest(l, e) /\ ~e.frame.header
  <2>1. r.link = q
    BY <1>6 DEF Recover, r
  <2>2. n \in Links /\ SameRing(q, n) /\ SameRecovery(l, n) /\ n.lastSeen = q.lastSeen
    BY <1>1, <1>3, <1>6, <2>1 DEF SameRecovery
  <2>3. QED BY <1>4, <1>6, <2>2 DEF StepOutcome, n, Drives
<1>7. CASE IsNewest(l, e) /\ e.frame.header /\ Followed(l)
  <2>1. r = Track(q, e)
    BY <1>7, <1>t DEF Recover, r
  <2>2. /\ r.link \in Links /\ SameRing(q, r.link) /\ r.link.lastSeen = q.lastSeen
        /\ TrackOutcome(q, r.link, Hit(q, e))
    BY <1>1, <2>1, TrackFacts, TrackStep
  <2>3. Hit(q, e) = Hit(l, e)
    BY <1>1, SameHit
  <2>4. TrackOutcome(l, n, Hit(l, e))
    BY <1>1, <1>3, <1>7, <2>2, <2>3 DEF TrackOutcome, SameRecovery
  <2>5. n \in Links /\ SameRing(q, n) /\ n.lastSeen = q.lastSeen
    BY <1>3, <1>7, <2>2 DEF SameRing
  <2>6. QED BY <1>4, <1>7, <2>4, <2>5 DEF StepOutcome, n, Drives
<1>8. CASE IsNewest(l, e) /\ e.frame.header /\ ~Followed(l)
  <2>1. r = Acquire(q, e)
    BY <1>8, <1>t DEF Recover, r
  <2>2. /\ r.link \in Links /\ SameRing(q, r.link) /\ r.link.lastSeen = q.lastSeen
        /\ ScanOutcome(l, r.link, e)
    BY <1>8, <2>1, ScanStep DEF q
  <2>3. n \in Links /\ SameRing(q, n) /\ n.lastSeen = q.lastSeen /\ SameRecovery(r.link, n)
    BY <1>3, <1>8, <2>2 DEF SameRing
  <2>4. ScanOutcome(l, n, e)
    <3>1. ValidClocks(n) = ValidClocks(r.link)
      BY <1>3, <1>8, <2>2, <2>3, SameValid DEF SameRecovery
    <3>2. QED BY <2>2, <2>3, <3>1 DEF ScanOutcome, SameRecovery, CentralClk
  <2>5. QED BY <1>4, <1>8, <2>3, <2>4 DEF StepOutcome, n, Drives
<1>9. QED BY <1>5, <1>6, <1>7, <1>8

-----------------------------------------------------------------------------
(* The invariants *)

\* SurvivorsAgree and the other parts of the invariant, of any link.
Agree(l, tried) ==
  l.gotFirst =>
    \A c \in Clock : \A h \in tried :
      l.candidates[c] # NoUap =>
        CleanHec(h.frame, l.candidates[c], (c + h.clk1 - l.firstTime) % Clocks)

LinkInv == TypeOK /\ RingInv /\ TrackInv /\ DriftInv /\ SurvivorsAgree

LEMMA LinkStarts == Init => LinkInv
<1> SUFFICES ASSUME Init PROVE LinkInv
  OBVIOUS
<1>1. /\ 0 \in Slot /\ 0 \in Clock /\ 0 \in Drift /\ -1 \in Confidence
      /\ 0 \in 0 .. QueueSize /\ Dci \in Uaps /\ Inquiry \in BOOLEAN
  BY BredrLinkAssumption DEF Slot, Clock, Drift, Confidence
<1> DEFINE none == [c \in Clock |-> NoUap]
           ring == [i \in Slot |-> Empty]
           roles == [lt \in Lts |-> 0]
<1>2. /\ none \in [Clock -> CandidateUap] /\ ring \in [Slot -> Events \cup {Empty}]
      /\ roles \in [Lts -> Nat]
  BY DEF CandidateUap
<1>3. link = [queue |-> ring, head |-> 0, fill |-> 0,
              uap |-> Dci, uapValid |-> Inquiry, clkKnown |-> FALSE,
              offset |-> 0, drift |-> 0, tracking |-> -1,
              candidates |-> none, firstTime |-> 0, gotFirst |-> FALSE,
              total |-> 0, firstSeen |-> 0, lastSeen |-> 0,
              central |-> 0, peripheral |-> roles, lastClkn |-> Never]
  BY DEF Init, LinkInit
<1> HIDE DEF none, ring, roles
<1>4. link \in Links
  BY <1>1, <1>2, <1>3 DEF Links
<1>5. /\ link.fill = 0 /\ ~link.clkKnown /\ link.tracking = -1 /\ link.drift = 0
      /\ ~link.gotFirst
  BY <1>3
<1>6. TypeOK
  BY <1>4 DEF TypeOK, Init
<1>7. RingInv
  <2>1. DOMAIN Window(link) = 1 .. 0
    BY <1>5 DEF Window
  <2>2. QED BY <1>5, <2>1 DEF RingInv, Ordered
<1>8. TrackInv /\ DriftInv
  BY <1>5 DEF TrackInv, DriftInv
<1>9. SurvivorsAgree
  BY <1>5 DEF SurvivorsAgree
<1>10. QED BY <1>6, <1>7, <1>8, <1>9 DEF LinkInv

\* The step of one event, in terms of the link the recovery sees.
Stepped(e) ==
  LET l == Submitted(link, e) IN
  /\ l \in Links /\ Window(l) = Window(link) /\ l.fill = link.fill
  /\ l.clkKnown = link.clkKnown /\ l.tracking = link.tracking
  /\ SameRecovery(link, l) \/ (~l.uapValid /\ ~l.gotFirst /\ l.drift = 0)
  /\ StepOutcome(l, link', e)
  /\ heard' = e /\ lastHit' = NextHit(l, e) /\ fed' = NextFed(l, e)

LEMMA SubmitFacts ==
  ASSUME LinkInv, NEW e \in Events, Submit(e)
  PROVE  Stepped(e)
<1> DEFINE l == Submitted(link, e)
<1>1. link \in Links /\ GoodRing(link)
  BY DEF LinkInv, TypeOK, RingInv, GoodRing
<1>2. /\ l \in Links /\ SameRing(link, l) /\ l.lastSeen = link.lastSeen
      /\ l.clkKnown = link.clkKnown /\ l.tracking = link.tracking
      /\ \/ SameRecovery(link, l)
         \/ ~l.uapValid /\ ~l.gotFirst /\ l.drift = 0
  BY <1>1, SubmittedFacts
<1>3. /\ link' = AddPacket(l, e) /\ heard' = e
      /\ lastHit' = NextHit(l, e) /\ fed' = NextFed(l, e)
  BY DEF Submit
<1> HIDE DEF l
<1>4. Window(l) = Window(link) /\ l.fill = link.fill /\ GoodRing(l)
  BY <1>1, <1>2, SameWindow DEF SameRing
<1>5. l.fill > 0 => l.lastSeen = RxClk(Last(Window(l)))
  BY <1>2, <1>4 DEF LinkInv, RingInv
<1>6. StepOutcome(l, link', e)
  BY <1>2, <1>3, <1>4, <1>5, StepFacts
<1>7. QED BY <1>2, <1>3, <1>4, <1>6 DEF Stepped, l

LEMMA TypesKept ==
  ASSUME LinkInv, NEW e \in Events, Stepped(e)
  PROVE  TypeOK'
<1> DEFINE l == Submitted(link, e)
<1>1. /\ link' \in Links /\ heard' \in Events
      /\ lastHit' = NextHit(l, e) /\ fed' = NextFed(l, e)
  BY DEF Stepped, StepOutcome
<1> HIDE DEF l
<1>2. lastHit \in Drift \cup {NoHit} /\ \A h \in fed : h.clk1 \in Nat
  BY DEF LinkInv, TypeOK
<1>3. lastHit' \in Drift \cup {NoHit}
  BY <1>1, <1>2, HitFacts DEF NextHit
<1>4. \A h \in fed' : h.clk1 \in Nat
  <2> DEFINE this == [clk1 |-> Clkn(e) \div 2, frame |-> e.frame]
  <2>1. this.clk1 \in Nat
    BY EventTypes
  <2>2. NextFed(l, e) \in {{}, fed, {this}, fed \cup {this}}
    BY DEF NextFed
  <2>3. QED BY <1>1, <1>2, <2>1, <2>2
<1>5. QED BY <1>1, <1>3, <1>4 DEF TypeOK

LEMMA RingKept ==
  ASSUME LinkInv, NEW e \in Events, Stepped(e)
  PROVE  RingInv'
BY DEF Stepped, StepOutcome, GoodRing, RingInv, Window

LEMMA TrackKept ==
  ASSUME LinkInv, NEW e \in Events, Stepped(e)
  PROVE  TrackInv' /\ DriftInv'
<1> DEFINE l == Submitted(link, e)  n == link'  d == Hit(l, e)
<1>1. /\ l \in Links /\ l.clkKnown = link.clkKnown /\ l.tracking = link.tracking
      /\ SameRecovery(link, l) \/ (~l.uapValid /\ ~l.gotFirst /\ l.drift = 0)
      /\ lastHit' = NextHit(l, e) /\ n \in Links
      /\ \/ ~Drives(l, e) /\ SameRecovery(l, n)
         \/ Drives(l, e) /\ Followed(l) /\ TrackOutcome(l, n, Hit(l, e))
         \/ Drives(l, e) /\ ~Followed(l) /\ ScanOutcome(l, n, e)
  BY DEF Stepped, StepOutcome
<1> HIDE DEF l
<1>2. /\ l.clkKnown <=> l.tracking > 0
      /\ l.drift # 0 => Followed(l) /\ lastHit = l.drift
  BY <1>1 DEF LinkInv, TrackInv, DriftInv, SameRecovery, Followed
<1>3. l.tracking \in Confidence /\ l.clkKnown \in BOOLEAN
  BY <1>1 DEF Links
<1>4. d \in Drift \cup {NoHit}
  BY HitFacts
<1> HIDE DEF n, d
<1>5. (n.clkKnown <=> n.tracking > 0) /\ (n.drift # 0 => Followed(n) /\ lastHit' = n.drift)
  <2>1. CASE ~Drives(l, e) /\ SameRecovery(l, n)
    <3>1. Followed(n) <=> Followed(l)
      BY <2>1 DEF Followed, SameRecovery
    <3>2. Followed(l) => lastHit' = lastHit
      BY <1>1, <2>1 DEF NextHit
    <3>3. QED BY <1>2, <2>1, <3>1, <3>2 DEF SameRecovery
  <2>2. CASE Drives(l, e) /\ Followed(l) /\ TrackOutcome(l, n, d)
    <3>1. lastHit' = d /\ l.uapValid /\ l.clkKnown /\ n.uapValid = l.uapValid
      BY <1>1, <2>2 DEF NextHit, Followed, TrackOutcome, d
    <3>2. CASE d = NoHit /\ n.drift = 0 /\ n.tracking = Lowered(l.tracking)
               /\ n.clkKnown = (Lowered(l.tracking) # 0 /\ l.clkKnown)
      <4>1. l.tracking > 0
        BY <1>2, <3>1
      <4>2. Lowered(l.tracking) = 0 \/ Lowered(l.tracking) > 0
        BY <1>3, <4>1, NumberFacts
      <4> DEFINE low == Lowered(l.tracking)
      <4> HIDE DEF low
      <4>a. /\ n.clkKnown = (low # 0 /\ l.clkKnown) /\ n.tracking = low
            /\ n.drift = 0 /\ l.clkKnown = TRUE
        BY <1>3, <3>1, <3>2 DEF low
      <4>3. CASE low = 0
        <5>1. n.clkKnown = FALSE
          BY <4>a, <4>3
        <5>2. ~(n.tracking > 0)
          BY <4>a, <4>3
        <5>3. QED BY <4>a, <5>1, <5>2
      <4>4. CASE low > 0
        <5>1. n.clkKnown = TRUE
          <6>1. low # 0
            BY <4>4
          <6>2. QED BY <4>a, <6>1
        <5>2. n.tracking > 0
          BY <4>a, <4>4
        <5>3. QED BY <4>a, <5>1, <5>2
      <4>5. QED BY <4>2, <4>3, <4>4 DEF low
    <3>3. CASE n.drift = 0 /\ n.tracking = Raised(l.tracking) /\ n.clkKnown
      <4>1. l.tracking > 0 /\ l.tracking >= 0
        BY <1>2, <1>3, <3>1 DEF Confidence
      <4>2. QED BY <1>3, <3>3, <4>1, NumberFacts
    <3>4. CASE /\ n.drift \in {0, d}
               /\ n.tracking = l.tracking /\ n.clkKnown = l.clkKnown
      BY <1>2, <3>1, <3>4 DEF Followed
    <3>5. QED BY <2>2, <3>2, <3>3, <3>4 DEF TrackOutcome
  <2>3. CASE Drives(l, e) /\ ~Followed(l) /\ ScanOutcome(l, n, e)
    <3>1. n.drift = 0
      BY <1>2, <2>3 DEF ScanOutcome
    <3>2. \/ n.clkKnown = l.clkKnown /\ n.tracking = l.tracking
          \/ n.clkKnown /\ n.tracking = 1
      BY <2>3 DEF ScanOutcome
    <3>3. QED BY <1>2, <3>1, <3>2
  <2>4. QED BY <1>1, <2>1, <2>2, <2>3 DEF d
<1>6. QED BY <1>5 DEF TrackInv, DriftInv, Followed, n

\* A candidate the scan leaves is one it had, if it had any.
LEMMA NarrowedFacts ==
  ASSUME NEW l \in Links, NEW f \in HeardFrames, NEW clk1 \in Nat, NEW upto, NEW c \in Clock,
         Narrowed(l, f, clk1, upto)[c] # NoUap
  PROVE  /\ l.gotFirst => Narrowed(l, f, clk1, upto)[c] = l.candidates[c]
         /\ upto = Clocks =>
              f.clean /\ Narrowed(l, f, clk1, upto)[c] = f.uap[ClockOf(l, clk1, c)]
<1>1. Narrowed(l, f, clk1, upto)[c] =
        IF c >= upto \/ ~Considered(l, c) THEN l.candidates[c]
        ELSE IF Verdict(l, f, clk1, c) = "weak" THEN f.uap[ClockOf(l, clk1, c)]
        ELSE NoUap
  BY DEF Narrowed
<1>2. upto = Clocks => ~(c >= upto)
  BY Sizes DEF Clock
<1>3. CASE c >= upto
  BY <1>1, <1>2, <1>3
<1>4. CASE ~(c >= upto) /\ ~Considered(l, c)
  BY <1>1, <1>4 DEF Considered
<1>5. CASE ~(c >= upto) /\ Considered(l, c)
  <2>1. Verdict(l, f, clk1, c) = "weak"
    BY <1>1, <1>5
  <2>2. /\ f.clean
        /\ l.gotFirst => f.uap[ClockOf(l, clk1, c)] = l.candidates[c]
    BY <2>1, VerdictFacts
  <2>3. QED BY <1>1, <1>5, <2>1, <2>2
<1>6. QED BY <1>3, <1>4, <1>5

LEMMA SurvivorsKept ==
  ASSUME LinkInv, NEW e \in Events, Stepped(e)
  PROVE  SurvivorsAgree'
<1> DEFINE l == Submitted(link, e)
           n == link'
           f == e.frame
           clk1 == Clkn(e) \div 2
           s == Solve(l, f, clk1)
           this == [clk1 |-> clk1, frame |-> f]
           strong == FirstStrong(l, f, clk1)
<1>1. /\ l \in Links
      /\ SameRecovery(link, l) \/ (~l.uapValid /\ ~l.gotFirst /\ l.drift = 0)
      /\ n \in Links /\ fed' = NextFed(l, e)
      /\ \/ ~Drives(l, e) /\ SameRecovery(l, n)
         \/ Drives(l, e) /\ Followed(l) /\ TrackOutcome(l, n, Hit(l, e))
         \/ Drives(l, e) /\ ~Followed(l) /\ ScanOutcome(l, n, e)
  BY DEF Stepped, StepOutcome
<1>2. f \in HeardFrames /\ clk1 \in Nat
  BY EventTypes
<1>3. fed' = IF ~Drives(l, e) \/ Followed(l) THEN IF l.gotFirst THEN fed ELSE {}
             ELSE IF ~s.link.gotFirst THEN {}
             ELSE IF s.solved /\ strong < Clocks THEN fed
             ELSE IF l.gotFirst THEN fed \cup {this} ELSE {this}
  BY <1>1 DEF NextFed
<1>4. Agree(l, fed)
  BY <1>1 DEF LinkInv, SurvivorsAgree, Agree, SameRecovery
<1>5. strong \in 0 .. Clocks
  BY StrongFacts
<1> HIDE DEF l, n, s, strong
<1>6. CASE ~Drives(l, e) \/ Followed(l)
  <2>1. /\ n.gotFirst = l.gotFirst /\ n.candidates = l.candidates
        /\ n.firstTime = l.firstTime
    BY <1>1, <1>6 DEF SameRecovery, TrackOutcome
  <2>2. l.gotFirst => fed' = fed
    BY <1>3, <1>6
  <2>3. Agree(n, fed')
    BY <1>4, <2>1, <2>2 DEF Agree
  <2>4. QED BY <2>3 DEF Agree, SurvivorsAgree, n
<1>7. CASE Drives(l, e) /\ ~Followed(l)
  <2>1. /\ n.gotFirst = s.link.gotFirst
        /\ \/ ~n.gotFirst
           \/ /\ l.gotFirst /\ s.solved /\ strong < Clocks
              /\ n.firstTime = l.firstTime
              /\ n.candidates = Narrowed(l, f, clk1, strong)
           \/ /\ strong = Clocks
              /\ n.firstTime = Anchor(l, clk1)
              /\ n.candidates = Narrowed(l, f, clk1, Clocks)
    BY <1>1, <1>7 DEF ScanOutcome, s, strong
  <2>2. f.header
    BY <1>7 DEF Drives
  <2> HIDE DEF f, clk1, this
  <2>3. CASE ~n.gotFirst
    BY <2>3 DEF SurvivorsAgree, n
  <2>4. CASE /\ n.gotFirst /\ l.gotFirst /\ s.solved /\ strong < Clocks
             /\ n.firstTime = l.firstTime /\ n.candidates = Narrowed(l, f, clk1, strong)
    <3>1. fed' = fed
      BY <1>3, <1>7, <2>1, <2>4
    <3>2. ASSUME NEW c \in Clock, n.candidates[c] # NoUap
          PROVE  n.candidates[c] = l.candidates[c]
      BY <1>1, <1>2, <2>4, <3>2, NarrowedFacts
    <3>3. Agree(n, fed')
      BY <1>4, <2>4, <3>1, <3>2 DEF Agree
    <3>4. QED BY <3>3 DEF Agree, SurvivorsAgree, n
  <2>5. CASE /\ n.gotFirst /\ strong = Clocks /\ n.firstTime = Anchor(l, clk1)
             /\ n.candidates = Narrowed(l, f, clk1, Clocks)
    <3>0. ~(strong < Clocks)
      BY <2>5, Sizes
    <3>1. fed' = IF l.gotFirst THEN fed \cup {this} ELSE {this}
      BY <1>3, <1>7, <2>1, <2>5, <3>0
    <3>2. l.gotFirst => n.firstTime = l.firstTime
      BY <2>5 DEF Anchor
    <3>3. ASSUME NEW c \in Clock, NEW h \in fed', n.candidates[c] # NoUap
          PROVE  CleanHec(h.frame, n.candidates[c], (c + h.clk1 - n.firstTime) % Clocks)
      <4>1. /\ l.gotFirst => n.candidates[c] = l.candidates[c]
            /\ f.clean /\ n.candidates[c] = f.uap[ClockOf(l, clk1, c)]
        BY <1>1, <1>2, <2>5, <3>3, NarrowedFacts
      <4>2. CASE h = this
        <5>1. h.frame = f /\ h.clk1 = clk1
          BY <4>2 DEF this
        <5>2. ClockOf(l, clk1, c) = (c + h.clk1 - n.firstTime) % Clocks
          BY <2>5, <5>1 DEF ClockOf
        <5>3. QED BY <2>2, <4>1, <5>1, <5>2 DEF CleanHec, Hec
      <4>3. CASE l.gotFirst /\ h \in fed
        BY <1>4, <3>2, <3>3, <4>1, <4>3 DEF Agree
      <4>4. QED BY <3>1, <3>3, <4>2, <4>3
    <3>4. QED BY <3>3 DEF SurvivorsAgree, n
  <2>6. QED BY <2>1, <2>3, <2>4, <2>5
<1>8. QED BY <1>6, <1>7

LEMMA LinkKept == LinkInv /\ [Next]_vars => LinkInv'
<1>1. ASSUME LinkInv, NEW e \in Events, Submit(e) PROVE LinkInv'
  BY <1>1, SubmitFacts, TypesKept, RingKept, TrackKept, SurvivorsKept DEF LinkInv
<1>2. ASSUME LinkInv, UNCHANGED vars PROVE LinkInv'
  BY <1>2 DEF vars, LinkInv, TypeOK, RingInv, TrackInv, DriftInv, SurvivorsAgree, Window,
              Followed, IndexAt, OldestIndex
<1>3. QED BY <1>1, <1>2 DEF Next

-----------------------------------------------------------------------------
(* The theorems *)

LEMMA LinkInvariant == Spec => []LinkInv
BY LinkStarts, LinkKept, PTL DEF Spec

\* Type correctness of a link, whatever the packets of the connection.
THEOREM LinkTypes == Spec => []TypeOK
<1>1. LinkInv => TypeOK
  BY DEF LinkInv
<1>2. QED BY <1>1, LinkInvariant, PTL

\* Each surviving candidate for UAP and clock is what every header tried on it
\* yields, for any number of clocks, packets and idle resets.
THEOREM SurvivorsAlwaysAgree == Spec => []SurvivorsAgree
<1>1. LinkInv => SurvivorsAgree
  BY DEF LinkInv
<1>2. QED BY <1>1, LinkInvariant, PTL

\* The clock is known exactly while there is confidence in it.
THEOREM ConfidenceIsKnowledge == Spec => []TrackInv
<1>1. LinkInv => TrackInv
  BY DEF LinkInv
<1>2. QED BY <1>1, LinkInvariant, PTL

\* For every ring size and order of delivery the ring holds the latest packets
\* of the connection in the order they started.
THEOREM RingIsLatest == Spec => WindowIsLatest
<1> DEFINE A == /\ \E p \in 0 .. link.fill :
                     /\ Belongs(Window(link), heard', p)
                     /\ Window(link') = LatestOf(InsertAt(Window(link), p + 1, heard'))
                /\ link'.lastSeen = RxClk(Last(Window(link')))
<1>1. ASSUME LinkInv, NEW e \in Events, Submit(e) PROVE A
  <2> DEFINE l == Submitted(link, e)
  <2>1. Stepped(e)
    BY <1>1, SubmitFacts
  <2>2. /\ Window(l) = Window(link) /\ l.fill = link.fill /\ heard' = e
        /\ Inserted(l, link', e) /\ link'.lastSeen = RxClk(Last(Window(link')))
    BY <2>1 DEF Stepped, StepOutcome
  <2> HIDE DEF l
  <2>3. QED BY <2>2 DEF Inserted
<1>2. LinkInv /\ [Next]_vars => [A]_vars
  BY <1>1 DEF Next
<1>3. QED BY <1>2, LinkInvariant, PTL DEF Spec, WindowIsLatest

\* A link becomes tracked, or its clock moves, only onto a value at which the
\* packet that made it so has an error-free header that validates, but for the
\* link an idle reset leaves with its clock known and its UAP forgotten.
THEOREM AdoptedIsProved == Spec => LockIsProved
<1> DEFINE Proved == CleanHec(heard'.frame, link'.uap, CentralClk(link', RxClk(heard')))
<1>1. ASSUME LinkInv, NEW e \in Events, Submit(e), BecomesTracked \/ Moves
      PROVE  Proved \/ LeftKnown
  <2> DEFINE l == Submitted(link, e)  n == link'  d == Hit(l, e)  rx == RxClk(e)
  <2>1. Stepped(e)
    BY <1>1, SubmitFacts
  <2>2. /\ l \in Links /\ n \in Links
        /\ heard' = e /\ Before1 = l
        /\ \/ ~Drives(l, e) /\ SameRecovery(l, n)
           \/ Drives(l, e) /\ Followed(l) /\ TrackOutcome(l, n, d)
           \/ Drives(l, e) /\ ~Followed(l) /\ ScanOutcome(l, n, e)
    BY <2>1 DEF Stepped, StepOutcome, Before1
  <2> HIDE DEF l, n, d
  <2>3. Followed(n) /\ (Followed(l) => n.offset # l.offset)
    BY <1>1, <2>2 DEF n, BecomesTracked, Moves
  <2>4. CASE ~Drives(l, e) /\ SameRecovery(l, n)
    BY <2>3, <2>4 DEF SameRecovery, Followed
  <2>5. CASE Drives(l, e) /\ Followed(l) /\ TrackOutcome(l, n, d)
    <3>1. n.offset # l.offset
      BY <2>3, <2>5
    <3>2. d # NoHit /\ n.offset = (l.offset + d) % Clocks /\ n.uap = l.uap
      BY <2>5, <3>1 DEF TrackOutcome
    <3>3. CleanHec(e.frame, l.uap, (CentralClk(l, rx) + d) % Clocks) /\ d \in Drift
      BY <3>2, HitFacts DEF HitAt, d
    <3>4. (CentralClk(l, rx) + d) % Clocks = CentralClk(n, rx)
      <4>1. rx \in Nat /\ l.offset \in Int /\ d \in Int
        BY <2>2, <3>3, EventTypes DEF Links, Clock, Drift
      <4> HIDE DEF rx
      <4>a. \A a, b \in Int : (a + (b % Clocks)) % Clocks = (a + b) % Clocks
        BY Sizes, ModAdd
      <4>2. PICK x \in Int : x = rx + l.offset
        BY <4>1
      <4>3. PICK y \in Int : y = l.offset + d
        BY <4>1
      <4>4. (d + (x % Clocks)) % Clocks = (d + x) % Clocks
        BY <4>1, <4>a, Zenon
      <4>5. (rx + (y % Clocks)) % Clocks = (rx + y) % Clocks
        <5>1. rx \in Int
          BY <4>1
        <5>2. QED BY <5>1, <4>a, Zenon
      <4>6. d + x = rx + y
        BY <4>1, <4>2, <4>3
      <4>7. PICK z \in Int : z = x % Clocks
        BY Sizes, ModDef
      <4>8. z + d = d + z
        BY <4>1
      <4>9. CentralClk(l, rx) = z /\ CentralClk(n, rx) = (rx + (y % Clocks)) % Clocks
        BY <3>2, <4>2, <4>3, <4>7 DEF CentralClk
      <4>10. QED BY <4>4, <4>5, <4>6, <4>7, <4>8, <4>9
    <3>5. QED BY <2>2, <3>2, <3>3, <3>4 DEF n
  <2>6. CASE Drives(l, e) /\ ~Followed(l) /\ ScanOutcome(l, n, e)
    <3> DEFINE s == Solve(l, e.frame, Clkn(e) \div 2)
    <3>1. CASE CleanHec(e.frame, n.uap, CentralClk(n, rx))
      BY <2>2, <3>1 DEF n
    <3>2. CASE /\ n.clkKnown = l.clkKnown
               /\ n.uapValid /\ ~l.uapValid =>
                    s.solved /\ n.offset = s.link.offset /\ ValidClocks(n) = {}
      <4>1. l.clkKnown /\ ~l.uapValid
        BY <2>2, <2>3, <2>6, <3>2 DEF Followed
      <4>2. Acquires /\ Solved = s
        BY <2>2, <2>6 DEF Acquires, Solved
      <4>3. s.solved /\ n.offset = s.link.offset /\ ValidClocks(n) = {}
        BY <2>3, <3>2, <4>1 DEF Followed
      <4> HIDE DEF s
      <4>4. QED BY <2>2, <4>1, <4>2, <4>3 DEF LeftKnown, Found, n
    <3>3. QED BY <2>6, <3>1, <3>2 DEF ScanOutcome
  <2>7. QED BY <2>2, <2>4, <2>5, <2>6
<1>2. LinkInv /\ [Next]_vars => [BecomesTracked \/ Moves => Proved \/ LeftKnown]_vars
  BY <1>1 DEF Next
<1>3. QED BY <1>2, LinkInvariant, PTL DEF Spec, LockIsProved

\* It takes two headers in a row that agree to move a tracked clock.
THEOREM OneNeverMoves == Spec => TwoToMove
<1> DEFINE Twice == /\ lastHit \notin {0, NoHit}
                    /\ Hit(Before1, heard') = lastHit
                    /\ link'.offset = (Before1.offset + lastHit) % Clocks
<1>1. ASSUME LinkInv, NEW e \in Events, Submit(e), Moves PROVE Twice
  <2> DEFINE l == Submitted(link, e)  n == link'  d == Hit(l, e)
  <2>1. Stepped(e)
    BY <1>1, SubmitFacts
  <2>2. /\ l \in Links /\ n \in Links
        /\ SameRecovery(link, l) \/ l.drift = 0
        /\ heard' = e /\ Before1 = l
        /\ \/ ~Drives(l, e) /\ SameRecovery(l, n)
           \/ Drives(l, e) /\ Followed(l) /\ TrackOutcome(l, n, d)
           \/ Drives(l, e) /\ ~Followed(l) /\ ScanOutcome(l, n, e)
    BY <2>1 DEF Stepped, StepOutcome, Before1
  <2> HIDE DEF l, n
  <2>3. Followed(l) /\ n.offset # l.offset
    BY <1>1, <2>2 DEF n, Moves
  <2>4. Drives(l, e) /\ TrackOutcome(l, n, d)
    BY <2>2, <2>3 DEF SameRecovery
  <2> HIDE DEF d
  <2>5. d # NoHit /\ (d = 0 \/ l.drift = d) /\ n.offset = (l.offset + d) % Clocks
    BY <2>3, <2>4 DEF TrackOutcome
  <2>6. d # 0
    <3>1. l.offset \in 0 .. Clocks - 1
      BY <2>2 DEF Links, Clock
    <3>2. (l.offset + 0) % Clocks = l.offset
      BY <3>1, Sizes, Z3
    <3>3. QED BY <2>3, <2>5, <3>2
  <2>7. lastHit = d
    BY <1>1, <2>2, <2>5, <2>6 DEF LinkInv, DriftInv, SameRecovery
  <2>8. QED BY <2>2, <2>5, <2>6, <2>7 DEF n, d
<1>2. LinkInv /\ [Next]_vars => [Moves => Twice]_vars
  BY <1>1 DEF Next
<1>3. QED BY <1>2, LinkInvariant, PTL DEF Spec, TwoToMove
=============================================================================
