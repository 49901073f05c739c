----------------------- MODULE ReplayPipeline_proofs -----------------------
(***************************************************************************)
(* For any number of lanes and channels, any pool, ring and collector      *)
(* sizes and any capture: when session_drain_exhaustive reports that the   *)
(* pipeline is quiet, the whole capture has been processed.                *)
(***************************************************************************)
EXTENDS ReplayPipeline, TLAPS

-----------------------------------------------------------------------------
(* Who reads whom *)

LEMMA Topology ==
  /\ Producers = {File} \cup Ddcs \cup Pfbs
  /\ Readers = Ddcs \cup Pfbs \cup Chans
  /\ File \notin Readers
  /\ Ddcs \cap Pfbs = {}
  /\ Ddcs \cap Chans = {}
  /\ Pfbs \cap Chans = {}
  /\ File \notin Chans
  BY DEF Producers, Readers, Ddcs, Pfbs, Chans, File, Ddc, Pfb, Chan

LEMMA FileFeeds == ReadersOf(File) = Ddcs
  BY Topology DEF ReadersOf, Readers

LEMMA DdcFeeds ==
  ASSUME NEW p \in Ddcs
  PROVE  ReadersOf(p) = {Pfb(p[2])} /\ ReadersOf(p) \subseteq Pfbs
<1>1. PICK k \in Lanes : p = Ddc(k)
  BY DEF Ddcs
<1>2. p[2] = k /\ p # File /\ p \notin Pfbs
  BY <1>1, Topology DEF Ddc, File
<1>3. ReadersOf(p) = {Pfb(p[2])}
  BY <1>2 DEF ReadersOf
<1> QED
  BY <1>2, <1>3 DEF Pfbs

LEMMA PfbFeeds ==
  ASSUME NEW p \in Pfbs
  PROVE  ReadersOf(p) = {Chan(p[2], c) : c \in Channels} /\ ReadersOf(p) \subseteq Chans
<1>1. PICK k \in Lanes : p = Pfb(k)
  BY DEF Pfbs
<1>2. p[2] = k /\ p # File /\ p \notin Ddcs
  BY <1>1 DEF Pfb, File, Ddcs, Ddc
<1>3. ReadersOf(p) = {Chan(p[2], c) : c \in Channels}
  BY <1>2 DEF ReadersOf
<1> QED
  BY <1>1, <1>2, <1>3 DEF Chans

LEMMA PfbIsFed ==
  ASSUME NEW r \in Pfbs
  PROVE  \E p \in Ddcs : r \in ReadersOf(p)
<1>1. PICK k \in Lanes : r = Pfb(k)
  BY DEF Pfbs
<1>2. Ddc(k) \in Ddcs /\ Ddc(k)[2] = k
  BY DEF Ddcs, Ddc
<1> QED
  BY <1>1, <1>2, DdcFeeds

LEMMA ChanIsFed ==
  ASSUME NEW r \in Chans
  PROVE  \E p \in Pfbs : r \in ReadersOf(p)
<1>1. PICK k \in Lanes, c \in Channels : r = Chan(k, c)
  BY DEF Chans
<1>2. Pfb(k) \in Pfbs /\ Pfb(k)[2] = k
  BY DEF Pfbs, Pfb
<1> QED
  BY <1>1, <1>2, PfbFeeds

\* No reader is fed by two producers.
LEMMA OneFeeder ==
  ASSUME NEW p \in Producers, NEW q \in Producers, p # q
  PROVE  ReadersOf(p) \cap ReadersOf(q) = {}
<1>1. CASE p \in Ddcs /\ q \in Ddcs
  <2>1. PICK i \in Lanes, j \in Lanes : p = Ddc(i) /\ q = Ddc(j)
    BY <1>1 DEF Ddcs
  <2>2. p[2] = i /\ q[2] = j /\ i # j
    BY <2>1 DEF Ddc
  <2>3. Pfb(i) # Pfb(j)
    BY <2>2 DEF Pfb
  <2> QED
    BY <1>1, <2>2, <2>3, DdcFeeds
<1>2. CASE p \in Pfbs /\ q \in Pfbs
  <2>1. PICK i \in Lanes, j \in Lanes : p = Pfb(i) /\ q = Pfb(j)
    BY <1>2 DEF Pfbs
  <2>2. p[2] = i /\ q[2] = j /\ i # j
    BY <2>1 DEF Pfb
  <2>3. \A c \in Channels, d \in Channels : Chan(i, c) # Chan(j, d)
    BY <2>2 DEF Chan
  <2> QED
    BY <1>2, <2>2, <2>3, PfbFeeds
<1> QED
  BY <1>1, <1>2, Topology, FileFeeds, DdcFeeds, PfbFeeds

LEMMA ReadersAreReaders ==
  ASSUME NEW p \in Producers
  PROVE  ReadersOf(p) \subseteq Readers
  BY Topology, FileFeeds, DdcFeeds, PfbFeeds

USE DEF stageVars, eventVars, mainVars

-----------------------------------------------------------------------------
(* Types *)

LEMMA Sizes ==
  /\ Pool \in Nat \ {0} /\ QueueCap \in Nat \ {0} /\ EventCap \in Nat \ {0}
  /\ MaxChunks \in Nat /\ Split \in Nat /\ Packets \in Nat
  BY PipelineAssumption

\* A lane that has a block of its own still has to make it.
Making == \A r \in Ddcs \cup Pfbs : own[r] # 0 => todo[r] > 0

\* Blocks are numbered from 1 on.
Numbered == queue \in [Readers -> Seq(Nat \ {0})]

Typed == TypeOK /\ Making /\ Numbered

LEMMA LanesMake == Readers \cap Producers = Ddcs \cup Pfbs
  BY Topology

LEMMA TypedInit == Init => Typed
<1> SUFFICES ASSUME Init PROVE Typed
  OBVIOUS
<1>1. queue \in [Readers -> Seq(Nat)]
  BY DEF Init
<1>2. events \in 0 .. EventCap /\ probe \in 1 .. Stages
  BY Sizes DEF Init, Stages
<1>3. TypeOK
  BY <1>1, <1>2 DEF Init, TypeOK
<1>4. Making /\ Numbered
  BY Topology DEF Init, Making, Numbered
<1> QED
  BY <1>3, <1>4 DEF Typed

LEMMA NumberedStep == Typed /\ [Next]_vars => Numbered'
<1> SUFFICES ASSUME Typed, [Next]_vars PROVE Numbered'
  OBVIOUS
<1>0. Numbered /\ own \in [Producers -> Nat] /\ File \in Producers
  BY Topology DEF Typed, TypeOK
<1>1. ASSUME NEW p \in Producers, Push(p) PROVE Numbered'
  BY <1>0, <1>1 DEF Push, Delivered, Numbered
<1>2. CASE FilePush
  BY <1>0, <1>1, <1>2 DEF FilePush
<1>3. ASSUME NEW r \in Readers, ReaderStep(r) PROVE Numbered'
  <2>1. CASE Pop(r)
    <3>1. queue[r] \in Seq(Nat \ {0}) /\ queue[r] # <<>>
      BY <1>0, <2>1 DEF Pop, Numbered
    <3>2. Tail(queue[r]) \in Seq(Nat \ {0})
      BY <3>1
    <3> QED
      BY <1>0, <2>1, <3>2 DEF Pop, Numbered
  <2>2. CASE LanePush(r)
    BY <1>1, <2>2 DEF LanePush
  <2>3. CASE ReleaseHeld(r) \/ LaneAcquire(r) \/ Submit(r)
    BY <1>0, <2>3 DEF ReleaseHeld, LaneAcquire, Submit, Numbered
  <2> QED
    BY <1>3, <2>1, <2>2, <2>3 DEF ReaderStep
<1>4. CASE FileAcquire \/ FileEnd \/ CollectorPop \/ CollectorProcess
             \/ Main \/ DrainTimeout \/ RequestStop \/ UNCHANGED vars
  BY <1>0, <1>4 DEF FileAcquire, FileEnd, CollectorPop, CollectorProcess, Main, Numbered,
              RadioFinished, Probe, SeesStop, Teardown, DrainTimeout, RequestStop, vars
<1> QED
  BY <1>2, <1>3, <1>4 DEF Next

LEMMA TypedStep == Typed /\ [Next]_vars => Typed'
<1> SUFFICES ASSUME Typed, [Next]_vars PROVE TypeOK' /\ Making'
  BY NumberedStep DEF Typed
<1>0. TypeOK /\ Making /\ File \in Producers
  BY Topology DEF Typed
<1>1. CASE FileAcquire
  BY <1>0, <1>1, Topology DEF FileAcquire, Acquire, TypeOK, Making
<1>2. CASE FilePush
  BY <1>0, <1>2, Topology DEF FilePush, Push, Delivered, TypeOK, Making
<1>3. CASE FileEnd
  BY <1>0, <1>3 DEF FileEnd, TypeOK, Making
<1>4. ASSUME NEW r \in Readers, ReaderStep(r) PROVE TypeOK' /\ Making'
  <2>1. CASE ReleaseHeld(r)
    BY <1>0, <2>1 DEF ReleaseHeld, TypeOK, Making
  <2>2. CASE Pop(r)
    <3>1. Yield(r) \subseteq Nat
      BY Sizes DEF Yield
    <3>2. queue[r] \in Seq(Nat) /\ queue[r] # <<>>
      BY <1>0, <2>2 DEF Pop, TypeOK
    <3>3. Head(queue[r]) \in Nat /\ Tail(queue[r]) \in Seq(Nat)
      BY <3>2
    <3>4. TypeOK'
      BY <1>0, <2>2, <3>1, <3>3 DEF Pop, TypeOK
    <3>5. Making'
      BY <1>0, <2>2, LanesMake DEF Pop, Making, TypeOK
    <3> QED
      BY <3>4, <3>5
  <2>3. CASE LaneAcquire(r)
    BY <1>0, <2>3, LanesMake DEF LaneAcquire, Acquire, TypeOK, Making
  <2>4. CASE LanePush(r)
    <3>1. r \in Ddcs \cup Pfbs /\ own[r] \in Nat /\ todo[r] \in Nat /\ todo[r] > 0
      BY <1>0, <2>4, LanesMake DEF LanePush, Push, TypeOK, Making
    <3>2. queue' \in [Readers -> Seq(Nat)] /\ own' \in [Producers -> Nat]
      BY <1>0, <2>4, <3>1 DEF LanePush, Push, Delivered, TypeOK
    <3>3. todo' \in [Readers -> Nat]
      BY <1>0, <2>4, <3>1 DEF LanePush, TypeOK
    <3>4. Making'
      BY <1>0, <2>4, LanesMake, Topology DEF LanePush, Push, TypeOK, Making
    <3> QED
      BY <1>0, <2>4, <3>2, <3>3, <3>4 DEF LanePush, TypeOK
  <2>5. CASE Submit(r)
    BY <1>0, <2>5, Sizes, Topology DEF Submit, EventRoom, TypeOK, Making
  <2> QED
    BY <1>4, <2>1, <2>2, <2>3, <2>4, <2>5 DEF ReaderStep
<1>5. CASE CollectorPop \/ CollectorProcess
  <2>1. UNCHANGED <<stageVars, finished, mainVars>>
    BY <1>5 DEF CollectorPop, CollectorProcess
  <2>2. events \in 0 .. EventCap /\ EventCap \in Nat
    BY <1>0, Sizes DEF TypeOK
  <2>3. events' = events \/ (events > 0 /\ events' = events - 1)
    BY <1>5 DEF CollectorPop, CollectorProcess
  <2>4. events' \in 0 .. EventCap
    BY <2>2, <2>3
  <2>5. handling' \in BOOLEAN
    BY <1>5 DEF CollectorPop, CollectorProcess
  <2>6. decoded' \in Nat /\ surfaced' \in Nat
    BY <1>0, <1>5 DEF CollectorPop, CollectorProcess, TypeOK
  <2> QED
    BY <1>0, <2>1, <2>4, <2>5, <2>6 DEF TypeOK, Making
<1>6. CASE Main \/ DrainTimeout \/ RequestStop
  <2>1. UNCHANGED <<stageVars, finished, eventVars>>
    BY <1>6 DEF Main, RadioFinished, Probe, SeesStop, Teardown, DrainTimeout,
                RequestStop
  <2>2. probe' \in 1 .. Stages
    BY <1>0, <1>6 DEF Main, RadioFinished, Probe, SeesStop, Teardown, DrainTimeout,
                      RequestStop, Stages, TypeOK
  <2>3. mpc' \in {"running", "draining", "quiet", "timedout", "stopped"}
    BY <1>0, <1>6 DEF Main, RadioFinished, Probe, SeesStop, Teardown, DrainTimeout,
                      RequestStop, TypeOK
  <2>4. shutdown' \in BOOLEAN
    BY <1>0, <1>6 DEF Main, RadioFinished, Probe, SeesStop, Teardown, DrainTimeout,
                      RequestStop, TypeOK
  <2> QED
    BY <1>0, <2>1, <2>2, <2>3, <2>4 DEF TypeOK, Making
<1>7. CASE UNCHANGED vars
  BY <1>0, <1>7 DEF vars, TypeOK, Making
<1> QED
  BY <1>1, <1>2, <1>3, <1>4, <1>5, <1>6, <1>7 DEF Next

\* Every variable keeps its type; the collector never holds more events than
\* it has room for.
THEOREM TypeCorrect == Spec => []TypeOK
<1>1. Spec => []Typed
  BY TypedInit, TypedStep, PTL DEF Spec
<1>2. Typed => TypeOK
  BY DEF Typed
<1> QED
  BY <1>1, <1>2, PTL

-----------------------------------------------------------------------------
(* An idle stage *)

\* A pool is all free when its producer has no block in hand and none of its
\* readers has one queued or held.
Unused(p) ==
  /\ own[p] = 0
  /\ \A r \in ReadersOf(p) : queue[r] = <<>> /\ held[r] = 0

LEMMA InUse ==
  ASSUME NEW p \in Producers, NEW b
  PROVE  b \in Referenced(p) <=>
           \/ own[p] # 0 /\ b = own[p]
           \/ \E r \in ReadersOf(p) : \E i \in 1 .. Len(queue[r]) : b = queue[r][i]
           \/ \E r \in ReadersOf(p) : held[r] # 0 /\ b = held[r]
<1> DEFINE Queued(r) == {queue[r][i] : i \in 1 .. Len(queue[r])}
           Own == IF own[p] = 0 THEN {} ELSE {own[p]}
           Held == {held[r] : r \in ReadersOf(p)} \ {0}
           AllQueued == UNION {Queued(r) : r \in ReadersOf(p)}
<1>1. b \in Own <=> own[p] # 0 /\ b = own[p]
  OBVIOUS
<1>2. \A r : b \in Queued(r) <=> \E i \in 1 .. Len(queue[r]) : b = queue[r][i]
  OBVIOUS
<1>3. b \in Held <=> \E r \in ReadersOf(p) : held[r] # 0 /\ b = held[r]
  OBVIOUS
<1>4. Referenced(p) = Own \cup AllQueued \cup Held
  BY Zenon DEF Referenced
<1> HIDE DEF Queued, Own, Held
<1>5. b \in AllQueued <=> \E r \in ReadersOf(p) : b \in Queued(r)
  OBVIOUS
<1> HIDE DEF AllQueued
<1>6. b \in Referenced(p) <=> b \in Own \/ (\E r \in ReadersOf(p) : b \in Queued(r))
                                \/ b \in Held
  BY <1>4, <1>5
<1> QED
  BY <1>1, <1>2, <1>3, <1>6

LEMMA FreeIsUnused ==
  TypeOK => \A p \in Producers : AllFree(p) <=> Unused(p)
<1> SUFFICES ASSUME TypeOK, NEW p \in Producers PROVE AllFree(p) <=> Unused(p)
  OBVIOUS
<1>1. \A r \in ReadersOf(p) : queue[r] \in Seq(Nat)
  BY ReadersAreReaders DEF TypeOK
<1>2. ASSUME Unused(p) PROVE AllFree(p)
  BY <1>2, InUse DEF Unused, AllFree
<1>3. ASSUME AllFree(p) PROVE Unused(p)
  <2>1. own[p] = 0
    BY <1>3, InUse DEF AllFree
  <2>2. ASSUME NEW r \in ReadersOf(p) PROVE queue[r] = <<>>
    <3>1. Len(queue[r]) \in Nat /\ (Len(queue[r]) = 0 => queue[r] = <<>>)
      BY <1>1, <2>2
    <3>2. Len(queue[r]) > 0 => queue[r][1] \in Referenced(p)
      BY <2>2, <3>1, InUse
    <3> QED
      BY <1>3, <3>1, <3>2 DEF AllFree
  <2>3. ASSUME NEW r \in ReadersOf(p) PROVE held[r] = 0
    BY <1>3, <2>3, InUse DEF AllFree
  <2> QED
    BY <2>1, <2>2, <2>3 DEF Unused
<1> QED
  BY <1>2, <1>3

-----------------------------------------------------------------------------
(* What a step may do to a pool, to its producer and to a reader's work     *)

\* A producer takes a block up only for the capture or for work it has.
LEMMA WhoAcquires ==
  ASSUME Typed, [Next]_vars, NEW p \in Producers, own[p] = 0, own'[p] # 0
  PROVE  (p = File /\ ~finished) \/ (p \in Ddcs \cup Pfbs /\ todo[p] > 0)
<1>0. own \in [Producers -> Nat] /\ File \in Producers
  BY Topology DEF Typed, TypeOK
<1>1. CASE FileAcquire
  BY <1>0, <1>1 DEF FileAcquire, Acquire
<1>2. CASE FilePush
  BY <1>0, <1>2 DEF FilePush, Push
<1>3. ASSUME NEW r \in Readers, ReaderStep(r)
      PROVE  p \in Ddcs \cup Pfbs /\ todo[p] > 0
  <2>1. CASE ReleaseHeld(r) \/ Pop(r) \/ Submit(r)
    BY <2>1 DEF ReleaseHeld, Pop, Submit
  <2>2. CASE LaneAcquire(r)
    BY <1>0, <2>2, LanesMake DEF LaneAcquire, Acquire
  <2>3. CASE LanePush(r)
    BY <1>0, <2>3 DEF LanePush, Push
  <2> QED
    BY <1>3, <2>1, <2>2, <2>3 DEF ReaderStep
<1>4. CASE FileEnd \/ CollectorPop \/ CollectorProcess \/ Main \/ DrainTimeout
             \/ RequestStop \/ UNCHANGED vars
  BY <1>4 DEF FileEnd, CollectorPop, CollectorProcess, Main, RadioFinished, Probe,
              SeesStop, Teardown, DrainTimeout, RequestStop, vars
<1> QED
  BY <1>1, <1>2, <1>3, <1>4 DEF Next

\* A reader gets work only from its queue, and holds the block it got it with.
LEMMA WhoPops ==
  ASSUME Typed, [Next]_vars, NEW r \in Readers, todo[r] = 0, todo'[r] # 0
  PROVE  queue[r] # <<>> /\ held'[r] = Head(queue[r])
<1>0. todo \in [Readers -> Nat] /\ held \in [Readers -> Nat]
  BY DEF Typed, TypeOK
<1>1. ASSUME NEW q \in Readers, ReaderStep(q)
      PROVE  queue[r] # <<>> /\ held'[r] = Head(queue[r])
  <2>1. CASE ReleaseHeld(q) \/ LaneAcquire(q)
    BY <2>1 DEF ReleaseHeld, LaneAcquire
  <2>2. CASE Pop(q)
    BY <1>0, <2>2 DEF Pop
  <2>3. CASE LanePush(q)
    <3>1. q \in Ddcs \cup Pfbs /\ todo[q] > 0
      BY <2>3, LanesMake DEF LanePush, Push, Typed, Making
    <3> QED
      BY <1>0, <2>3, <3>1 DEF LanePush
  <2>4. CASE Submit(q)
    BY <1>0, <2>4 DEF Submit
  <2> QED
    BY <1>1, <2>1, <2>2, <2>3, <2>4 DEF ReaderStep
<1>2. CASE FileAcquire \/ FilePush \/ FileEnd \/ CollectorPop \/ CollectorProcess
             \/ Main \/ DrainTimeout \/ RequestStop \/ UNCHANGED vars
  BY <1>2 DEF FileAcquire, FilePush, FileEnd, CollectorPop, CollectorProcess, Main,
              RadioFinished, Probe, SeesStop, Teardown, DrainTimeout, RequestStop, vars
<1> QED
  BY <1>1, <1>2 DEF Next

\* Only the producer of a pool that is all free can bring it into use again.
LEMMA UnusedStays ==
  ASSUME Typed, [Next]_vars, NEW p \in Producers, Unused(p), own'[p] = 0
  PROVE  Unused(p)'
<1>0. /\ ReadersOf(p) \subseteq Readers
      /\ queue \in [Readers -> Seq(Nat)] /\ held \in [Readers -> Nat]
  BY ReadersAreReaders DEF Typed, TypeOK
<1> SUFFICES ASSUME NEW r \in ReadersOf(p)
             PROVE  queue'[r] = <<>> /\ held'[r] = 0
  BY DEF Unused
<1>1. queue[r] = <<>> /\ held[r] = 0 /\ r \in Readers
  BY <1>0 DEF Unused
<1>2. ASSUME NEW q \in Producers, Push(q) PROVE queue'[r] = <<>>
  <2>1. q # p
    BY <1>2 DEF Push, Unused
  <2>2. r \notin ReadersOf(q)
    BY <2>1, OneFeeder
  <2> QED
    BY <1>1, <1>2, <2>2 DEF Push, Delivered
<1>3. CASE FilePush
  BY <1>1, <1>2, <1>3, Topology DEF FilePush
<1>4. ASSUME NEW q \in Readers, ReaderStep(q)
      PROVE  queue'[r] = <<>> /\ held'[r] = 0
  <2>1. CASE ReleaseHeld(q)
    BY <1>0, <1>1, <2>1 DEF ReleaseHeld
  <2>2. CASE Pop(q)
    BY <1>0, <1>1, <2>2 DEF Pop
  <2>3. CASE LanePush(q)
    BY <1>1, <1>2, <2>3 DEF LanePush
  <2>4. CASE LaneAcquire(q) \/ Submit(q)
    BY <1>1, <2>4 DEF LaneAcquire, Submit
  <2> QED
    BY <1>4, <2>1, <2>2, <2>3, <2>4 DEF ReaderStep
<1>5. CASE FileAcquire \/ FileEnd \/ CollectorPop \/ CollectorProcess
             \/ Main \/ DrainTimeout \/ RequestStop \/ UNCHANGED vars
  BY <1>1, <1>5 DEF FileAcquire, FileEnd, CollectorPop, CollectorProcess, Main,
              RadioFinished, Probe, SeesStop, Teardown, DrainTimeout, RequestStop, vars
<1> QED
  BY <1>3, <1>4, <1>5 DEF Next

-----------------------------------------------------------------------------
(* The drain *)

\* No event is lost between the channel workers and the collector thread.
Ledger == decoded = surfaced + events + (IF handling THEN 1 ELSE 0)

Finished ==
  /\ finished => own[File] = 0
  /\ mpc \in {"draining", "quiet"} => finished
  /\ mpc = "running" => probe = 1

\* The stages probed are idle, and after the last one the collector is empty.
Probed ==
  /\ ProbedStaysIdle
  /\ mpc = "quiet" => Upstream(3) /\ events = 0

IInv == Typed /\ Ledger /\ Finished /\ HeldWhileWorking /\ Probed

\* A block is let go with no work left of it.
LEMMA WhoLetsGo ==
  ASSUME Typed, [Next]_vars, NEW r \in Readers, held[r] # 0, held'[r] = 0
  PROVE  todo'[r] = 0 /\ (r \in Producers => own'[r] = 0)
<1>0. held \in [Readers -> Nat]
  BY DEF Typed, TypeOK
<1>1. ASSUME NEW q \in Readers, ReaderStep(q)
      PROVE  todo'[r] = 0 /\ (r \in Producers => own'[r] = 0)
  <2>1. CASE ReleaseHeld(q)
    BY <1>0, <2>1 DEF ReleaseHeld, MayRelease
  <2>2. CASE Pop(q)
    BY <1>0, <2>2 DEF Pop
  <2>3. CASE LaneAcquire(q) \/ LanePush(q) \/ Submit(q)
    BY <2>3 DEF LaneAcquire, LanePush, Submit
  <2> QED
    BY <1>1, <2>1, <2>2, <2>3 DEF ReaderStep
<1>2. CASE FileAcquire \/ FilePush \/ FileEnd \/ CollectorPop \/ CollectorProcess
             \/ Main \/ DrainTimeout \/ RequestStop \/ UNCHANGED vars
  BY <1>2 DEF FileAcquire, FilePush, FileEnd, CollectorPop, CollectorProcess, Main,
              RadioFinished, Probe, SeesStop, Teardown, DrainTimeout, RequestStop, vars
<1> QED
  BY <1>1, <1>2 DEF Next

LEMMA HeldStep == Typed /\ HeldWhileWorking /\ [Next]_vars => HeldWhileWorking'
<1> SUFFICES ASSUME Typed, HeldWhileWorking, [Next]_vars, NEW r \in Readers,
                    todo'[r] > 0 \/ (r \in Producers /\ own'[r] # 0),
                    held'[r] = 0
             PROVE  FALSE
  BY DEF HeldWhileWorking
<1>0. todo[r] \in Nat /\ todo'[r] \in Nat
  BY TypedStep DEF Typed, TypeOK
<1>1. held[r] = 0
  BY <1>0, WhoLetsGo
<1>2. todo[r] = 0 /\ (r \in Producers => own[r] = 0)
  BY <1>0, <1>1 DEF HeldWhileWorking
<1>3. CASE todo'[r] > 0
  <2>1. queue[r] # <<>> /\ held'[r] = Head(queue[r])
    BY <1>0, <1>2, <1>3, WhoPops
  <2>2. queue[r] \in Seq(Nat \ {0})
    BY DEF Typed, Numbered
  <2>3. Head(queue[r]) \in Nat \ {0}
    BY <2>1, <2>2
  <2> QED
    BY <2>1, <2>3
<1>4. CASE r \in Producers /\ own'[r] # 0
  BY <1>0, <1>2, <1>4, WhoAcquires, Topology
<1> QED
  BY <1>3, <1>4

LEMMA LedgerStep == Typed /\ Ledger /\ [Next]_vars => Ledger'
<1> SUFFICES ASSUME Typed, Ledger, [Next]_vars PROVE Ledger'
  OBVIOUS
<1>0. /\ events \in Nat /\ decoded \in Nat /\ surfaced \in Nat
      /\ handling \in BOOLEAN
  BY Sizes DEF Typed, TypeOK
<1>1. CASE CollectorPop \/ CollectorProcess
  BY <1>0, <1>1 DEF CollectorPop, CollectorProcess, Ledger
<1>2. ASSUME NEW r \in Readers, ReaderStep(r) PROVE Ledger'
  <2>1. CASE Submit(r)
    BY <1>0, <2>1 DEF Submit, Ledger
  <2>2. CASE ReleaseHeld(r) \/ Pop(r) \/ LaneAcquire(r) \/ LanePush(r)
    BY <2>2 DEF ReleaseHeld, Pop, LaneAcquire, LanePush, Ledger
  <2> QED
    BY <1>2, <2>1, <2>2 DEF ReaderStep
<1>3. CASE FileAcquire \/ FilePush \/ FileEnd
             \/ Main \/ DrainTimeout \/ RequestStop \/ UNCHANGED vars
  BY <1>3 DEF FileAcquire, FilePush, FileEnd, Main, Ledger,
              RadioFinished, Probe, SeesStop, Teardown, DrainTimeout, RequestStop, vars
<1> QED
  BY <1>1, <1>2, <1>3 DEF Next

LEMMA FinishedStep ==
  Typed /\ Finished /\ [Next]_vars => Finished' /\ (finished => finished')
<1> SUFFICES ASSUME Typed, Finished, [Next]_vars
             PROVE  Finished' /\ (finished => finished')
  OBVIOUS
<1>0. own \in [Producers -> Nat] /\ File \in Producers /\ File \notin Readers
  BY Topology DEF Typed, TypeOK
<1>1. CASE FileAcquire \/ FilePush \/ FileEnd
  BY <1>0, <1>1 DEF FileAcquire, FilePush, FileEnd, Acquire, Push, Finished
<1>2. ASSUME NEW r \in Readers, ReaderStep(r)
      PROVE  Finished' /\ (finished => finished')
  BY <1>0, <1>2 DEF ReaderStep, ReleaseHeld, Pop, LaneAcquire, LanePush, Submit,
                    Acquire, Push, Finished
<1>3. CASE CollectorPop \/ CollectorProcess \/ Main \/ DrainTimeout \/ RequestStop
             \/ UNCHANGED vars
  BY <1>3 DEF CollectorPop, CollectorProcess, Main, Finished,
              RadioFinished, Probe, SeesStop, Teardown, DrainTimeout, RequestStop, vars
<1> QED
  BY <1>1, <1>2, <1>3 DEF Next

LEMMA IInvInit == Init => IInv
<1> SUFFICES ASSUME Init PROVE IInv
  OBVIOUS
<1>1. Typed
  BY TypedInit
<1>2. Ledger /\ Finished
  BY Topology DEF Init, Ledger, Finished
<1>3. HeldWhileWorking
  BY Topology DEF Init, HeldWhileWorking
<1>4. Probed
  BY DEF Init, Probed, ProbedStaysIdle
<1> QED
  BY <1>1, <1>2, <1>3, <1>4 DEF IInv

\* The stages up to the i-th are idle, said of pools rather than blocks.
Quiet(i) ==
  /\ i >= 1 => finished /\ Unused(File)
  /\ i >= 2 => \A p \in Ddcs : Unused(p) /\ todo[p] = 0
  /\ i >= 3 => \A p \in Pfbs : Unused(p) /\ todo[p] = 0

LEMMA UpstreamIsQuiet == TypeOK => \A i \in 0 .. 3 : Upstream(i) <=> Quiet(i)
<1> SUFFICES ASSUME TypeOK, NEW i \in 0 .. 3 PROVE Upstream(i) <=> Quiet(i)
  OBVIOUS
<1>1. \A p \in {File} \cup Ddcs \cup Pfbs : AllFree(p) <=> Unused(p)
  BY FreeIsUnused, Topology
<1>2. \A p : Unused(p) => own[p] = 0
  BY DEF Unused
<1> QED
  BY <1>1, <1>2 DEF Upstream, Quiet

\* What the readers of an idle pool have in hand: nothing.
LEMMA IdleReaders ==
  ASSUME Typed, HeldWhileWorking, NEW p \in Producers, Unused(p),
         NEW r \in ReadersOf(p)
  PROVE  /\ queue[r] = <<>>
         /\ todo[r] = 0
         /\ r \in Producers => own[r] = 0
<1>1. r \in Readers /\ todo[r] \in Nat
  BY ReadersAreReaders DEF Typed, TypeOK
<1> QED
  BY <1>1 DEF Unused, HeldWhileWorking

\* Idle stages stay idle: nothing enters them but from the stage before.
LEMMA QuietStays ==
  ASSUME Typed, HeldWhileWorking, Finished, [Next]_vars, NEW i \in 0 .. 3, Quiet(i)
  PROVE  Quiet(i)'
<1>1. ASSUME i >= 1 PROVE finished' /\ Unused(File)'
  <2>1. finished /\ Unused(File) /\ File \in Producers /\ File \notin Ddcs \cup Pfbs
    BY <1>1, Topology DEF Quiet
  <2>2. own'[File] = 0
    BY <2>1, WhoAcquires DEF Unused
  <2> QED
    BY <2>1, <2>2, UnusedStays, FinishedStep
<1>2. ASSUME i >= 2, NEW p \in Ddcs PROVE Unused(p)' /\ todo'[p] = 0
  <2>1. Unused(File) /\ Unused(p) /\ todo[p] = 0 /\ p # File
    BY <1>2, Topology DEF Quiet
  <2>2. queue[p] = <<>>
    BY <2>1, FileFeeds, Topology, IdleReaders
  <2>3. todo'[p] = 0
    BY <2>1, <2>2, WhoPops, Topology
  <2>4. own'[p] = 0
    BY <2>1, WhoAcquires, Topology DEF Unused, Typed, TypeOK
  <2> QED
    BY <2>1, <2>3, <2>4, UnusedStays, Topology
<1>3. ASSUME i >= 3, NEW p \in Pfbs PROVE Unused(p)' /\ todo'[p] = 0
  <2>1. Unused(p) /\ todo[p] = 0 /\ p # File
    BY <1>3, Topology DEF Quiet
  <2>2. PICK q \in Ddcs : p \in ReadersOf(q)
    BY PfbIsFed
  <2>3. queue[p] = <<>>
    BY <1>3, <2>2, Topology, IdleReaders DEF Quiet
  <2>4. todo'[p] = 0
    BY <2>1, <2>3, WhoPops, Topology
  <2>5. own'[p] = 0
    BY <2>1, WhoAcquires, Topology DEF Unused, Typed, TypeOK
  <2> QED
    BY <2>1, <2>4, <2>5, UnusedStays, Topology
<1> QED
  BY <1>1, <1>2, <1>3 DEF Quiet

\* A stage found idle behind idle stages joins them.
LEMMA ProbeFindsQuiet ==
  ASSUME Typed, HeldWhileWorking, finished, NEW i \in 1 .. 3,
         Quiet(i - 1), StageIdle(i)
  PROVE  Quiet(i)
<1>0. TypeOK
  BY DEF Typed
<1>1. CASE i = 1
  BY <1>0, <1>1, FreeIsUnused, Topology DEF StageIdle, Quiet
<1>2. CASE i = 2
  <2>1. \A p \in Ddcs : Unused(p)
    BY <1>0, <1>2, FreeIsUnused, Topology DEF StageIdle
  <2>2. \A p \in Ddcs : todo[p] = 0
    BY <1>2, FileFeeds, Topology, IdleReaders DEF Quiet
  <2> QED
    BY <1>2, <2>1, <2>2 DEF Quiet
<1>3. CASE i = 3
  <2>1. \A p \in Pfbs : Unused(p)
    BY <1>0, <1>3, FreeIsUnused, Topology DEF StageIdle
  <2>2. ASSUME NEW p \in Pfbs PROVE todo[p] = 0
    <3>1. PICK q \in Ddcs : p \in ReadersOf(q)
      BY PfbIsFed
    <3> QED
      BY <1>3, <3>1, Topology, IdleReaders DEF Quiet
  <2> QED
    BY <1>3, <2>1, <2>2 DEF Quiet
<1> QED
  BY <1>1, <1>2, <1>3

LEMMA UpstreamIsQuietNext ==
  TypeOK' => (\A i \in 0 .. 3 : Upstream(i) <=> Quiet(i))'
  BY UpstreamIsQuiet, PTL

LEMMA UpstreamStays ==
  ASSUME Typed, HeldWhileWorking, Finished, [Next]_vars, NEW i \in 0 .. 3, Quiet(i)
  PROVE  Upstream(i)'
<1>1. TypeOK' /\ Quiet(i)'
  BY TypedStep, QuietStays DEF Typed
<1> QED
  BY <1>1, UpstreamIsQuietNext

\* Behind idle stages no channel worker has a packet left to submit.
LEMMA NoMoreEvents ==
  ASSUME Typed, HeldWhileWorking, [Next]_vars, Quiet(3), events = 0
  PROVE  events' = 0
<1>1. \A r \in Chans : todo[r] = 0
  <2> SUFFICES ASSUME NEW r \in Chans PROVE todo[r] = 0
    OBVIOUS
  <2>1. PICK q \in Pfbs : r \in ReadersOf(q)
    BY ChanIsFed
  <2> QED
    BY <2>1, IdleReaders, Topology DEF Quiet
<1>2. ASSUME NEW r \in Readers, ReaderStep(r) PROVE events' = 0
  <2>1. ~Submit(r)
    BY <1>1 DEF Submit
  <2> QED
    BY <1>2, <2>1 DEF ReaderStep, ReleaseHeld, Pop, LaneAcquire, LanePush
<1>3. ~CollectorPop
  BY DEF CollectorPop
<1>4. CASE FileAcquire \/ FilePush \/ FileEnd \/ CollectorProcess \/ Main
             \/ DrainTimeout \/ RequestStop \/ UNCHANGED vars
  BY <1>4 DEF FileAcquire, FilePush, FileEnd, CollectorProcess, Main, RadioFinished,
              Probe, SeesStop, Teardown, DrainTimeout, RequestStop, vars
<1> QED
  BY <1>2, <1>3, <1>4 DEF Next

\* How session_run's state moves.
LEMMA DrainMoves ==
  ASSUME Typed, Finished, [Next]_vars
  PROVE  /\ mpc' = "draining" =>
              \/ probe' = 1
              \/ mpc = "draining" /\ probe' = probe
              \/ /\ mpc = "draining" /\ probe \in 1 .. 3
                 /\ probe' = probe + 1 /\ StageIdle(probe)
         /\ mpc' = "quiet" =>
              \/ mpc = "quiet"
              \/ mpc = "draining" /\ probe = 4 /\ events = 0
<1>0. probe \in 1 .. 4
  BY DEF Typed, TypeOK, Stages
<1>1. CASE Probe
  <2>1. StageIdle(4) <=> events = 0
    BY DEF StageIdle
  <2> QED
    BY <1>0, <1>1, <2>1 DEF Probe, Stages
<1>2. CASE RadioFinished \/ SeesStop \/ Teardown \/ DrainTimeout \/ RequestStop
  BY <1>2 DEF RadioFinished, SeesStop, Teardown, DrainTimeout, RequestStop, Finished
<1>3. ASSUME NEW r \in Readers, ReaderStep(r) PROVE UNCHANGED mainVars
  BY <1>3 DEF ReaderStep, ReleaseHeld, Pop, LaneAcquire, LanePush, Submit
<1>4. CASE FileAcquire \/ FilePush \/ FileEnd \/ CollectorPop \/ CollectorProcess
             \/ UNCHANGED vars
  BY <1>4 DEF FileAcquire, FilePush, FileEnd, CollectorPop, CollectorProcess, vars
<1> QED
  BY <1>1, <1>2, <1>3, <1>4 DEF Next, Main

LEMMA ProbedStep ==
  Typed /\ HeldWhileWorking /\ Finished /\ Probed /\ [Next]_vars => Probed'
<1> SUFFICES ASSUME Typed, HeldWhileWorking, Finished, Probed, [Next]_vars
             PROVE  Probed'
  OBVIOUS
<1>0. TypeOK /\ probe \in 1 .. 4
  BY DEF Typed, TypeOK, Stages
<1>1. ASSUME mpc' = "draining" PROVE Upstream(probe - 1)'
  <2>1. CASE probe' = 1
    BY <2>1 DEF Upstream
  <2>2. CASE mpc = "draining" /\ probe' = probe
    <3>1. probe - 1 \in 0 .. 3 /\ Upstream(probe - 1)
      BY <1>0, <2>2 DEF Probed, ProbedStaysIdle
    <3>2. Quiet(probe - 1)
      BY <1>0, <3>1, UpstreamIsQuiet
    <3>3. \A i \in 0 .. 3 : Quiet(i) => Upstream(i)'
      BY UpstreamStays
    <3> QED
      BY <2>2, <3>1, <3>2, <3>3
  <2>3. CASE /\ mpc = "draining" /\ probe \in 1 .. 3
             /\ probe' = probe + 1 /\ StageIdle(probe)
    <3>1. probe - 1 \in 0 .. 3 /\ Upstream(probe - 1)
      BY <2>3 DEF Probed, ProbedStaysIdle
    <3>2. Quiet(probe - 1)
      BY <1>0, <3>1, UpstreamIsQuiet
    <3>3. Quiet(probe)
      BY <2>3, <3>2, ProbeFindsQuiet DEF Finished
    <3>4. \A i \in 0 .. 3 : Quiet(i) => Upstream(i)'
      BY UpstreamStays
    <3>5. probe \in 0 .. 3 /\ probe' - 1 = probe
      BY <2>3
    <3> QED
      BY <3>3, <3>4, <3>5
  <2> QED
    BY <1>1, <2>1, <2>2, <2>3, DrainMoves
<1>2. ASSUME mpc' = "quiet" PROVE Upstream(3)' /\ events' = 0
  <2>1. Upstream(3) /\ events = 0
    <3>1. mpc = "quiet" \/ (mpc = "draining" /\ probe = 4 /\ events = 0)
      BY <1>2, DrainMoves
    <3> QED
      BY <3>1 DEF Probed, ProbedStaysIdle
  <2>2. Quiet(3)
    BY <1>0, <2>1, UpstreamIsQuiet
  <2> QED
    BY <2>1, <2>2, UpstreamStays, NoMoreEvents
<1> QED
  BY <1>1, <1>2 DEF Probed, ProbedStaysIdle

LEMMA InvStep == IInv /\ [Next]_vars => IInv'
  BY TypedStep, LedgerStep, FinishedStep, HeldStep, ProbedStep DEF IInv

LEMMA Invariance == Spec => []IInv
  BY IInvInit, InvStep, PTL DEF Spec

\* The two facts the drain rests on: a stage it has passed stays idle behind its
\* back, and a reader keeps its block while it still makes something of it.
THEOREM DrainHolds == Spec => []DrainInv
<1>1. IInv => DrainInv
  BY DEF IInv, DrainInv, Probed
<1> QED
  BY <1>1, Invariance, PTL

\* When session_drain_exhaustive returns having found every stage idle, one
\* after the other, they are idle at once and nothing of the capture is left.
THEOREM DrainIsComplete == Spec => []QuietIsComplete
<1>1. IInv => QuietIsComplete
  <2> SUFFICES ASSUME IInv, mpc = "quiet"
               PROVE  /\ finished
                      /\ \A p \in Producers : AllFree(p)
                      /\ \A r \in Readers : todo[r] = 0
                      /\ events = 0
                      /\ decoded = surfaced + (IF handling THEN 1 ELSE 0)
    BY DEF QuietIsComplete
  <2>0. Typed /\ TypeOK /\ HeldWhileWorking
    BY DEF IInv, Typed
  <2>1. Upstream(3) /\ events = 0 /\ finished
    BY DEF IInv, Probed, Finished
  <2>2. \A p \in Producers : AllFree(p)
    BY <2>1, Topology DEF Upstream
  <2>3. Quiet(3)
    BY <2>0, <2>1, UpstreamIsQuiet
  <2>4. \A r \in Ddcs \cup Pfbs : todo[r] = 0
    BY <2>3 DEF Quiet
  <2>5. ASSUME NEW r \in Chans PROVE todo[r] = 0
    <3>1. PICK q \in Pfbs : r \in ReadersOf(q)
      BY ChanIsFed
    <3> QED
      BY <2>0, <2>3, <3>1, IdleReaders, Topology DEF Quiet
  <2>6. decoded = surfaced + (IF handling THEN 1 ELSE 0)
    BY <2>0, <2>1 DEF IInv, Ledger, TypeOK
  <2> QED
    BY <2>1, <2>2, <2>4, <2>5, <2>6, Topology
<1> QED
  BY <1>1, Invariance, PTL
=============================================================================
