-------------------------- MODULE SampleDispatcher --------------------------
(***************************************************************************)
(* The zero-copy broadcast between one producer thread and its readers     *)
(* (src/core/radio/sample_dispatcher.c): a recycled pool of reference-     *)
(* counted sample blocks, and one bounded queue of block pointers per      *)
(* reader.  The pool is lock-free, every queue has a mutex and a condition *)
(* variable.  One step here is one atomic access of the code: a load or an *)
(* update of one reference count, or one critical section of one queue.    *)
(*                                                                         *)
(* The producer is the loop all producers share (file replay, DDC worker,  *)
(* PFB worker, and without a stop check the HackRF and bladeRF callbacks): *)
(* acquire a block, fill it, push it to every reader, release it.          *)
(* Exhaustive selects the blocking helpers (capture replay), otherwise the *)
(* dropping ones (live radio).  Sample data is abstracted to the number of *)
(* the chunk that was copied into the block.                               *)
(***************************************************************************)
EXTENDS Integers, Sequences, FiniteSets, Functions

CONSTANTS
  NBlocks,    \* SAMPLE_DISPATCHER_BLOCK_CAPACITY
  QueueCap,   \* SAMPLE_READER_QUEUE_CAPACITY
  NReaders,   \* dispatcher->reader_count once the producer runs
  MaxChunks,  \* bound: chunks in the capture
  Exhaustive  \* blocking helpers (TRUE) or live ones (FALSE)

ASSUME DispatcherAssumption ==
  /\ NBlocks \in Nat \ {0}
  /\ QueueCap \in Nat \ {0}
  /\ NReaders \in Nat
  /\ MaxChunks \in Nat
  /\ Exhaustive \in BOOLEAN

Blocks == 0 .. NBlocks - 1
Readers == 1 .. NReaders        \* positions in dispatcher->readers[]
NoBlock == -1                   \* a NULL sample_block_t *

VARIABLES
  refcount,      \* per block, sample_block_t.refcount
  content,       \* per block, the chunk its samples come from (0: none yet)
  nextIdx,       \* next_block_idx
  queue,         \* per reader, ring[] from read_idx, count entries
  held,          \* per reader, view_held
  rpc,           \* per reader, where its thread is
  dropped,       \* per reader, dropped_blocks
  poolDropped,   \* dispatcher->dropped_blocks
  ppc,           \* where the producer thread is
  own,           \* the block the producer works on
  scan,          \* how many blocks the pool scan has looked at
  pos,           \* reader index of the loops over readers[]
  clock,         \* number of the chunk the producer works on
  shutdown,      \* the flag the readers poll
  producerStop,  \* the flag the producer polls
  spc,           \* the stopping thread: next reader to signal, 0 before
  dpc,           \* the draining thread: blocks of the pool it found free
  drained,       \* sample_dispatcher_all_free returned 1 after the EOF
  last, taken    \* history: last chunk and number of chunks a reader took

readerVars == <<queue, held, rpc, dropped, last, taken>>
producerVars == <<ppc, own, scan, pos, clock, nextIdx, content, poolDropped>>
controlVars == <<shutdown, producerStop, spc, dpc, drained>>
vars == <<refcount, readerVars, producerVars, controlVars>>

Init ==
  /\ refcount = [b \in Blocks |-> 0]
  /\ content = [b \in Blocks |-> 0]
  /\ nextIdx = 0
  /\ queue = [r \in Readers |-> <<>>]
  /\ held = [r \in Readers |-> NoBlock]
  /\ rpc = [r \in Readers |-> "working"]
  /\ dropped = [r \in Readers |-> 0]
  /\ poolDropped = 0
  /\ ppc = "next"
  /\ own = NoBlock
  /\ scan = 0
  /\ pos = NReaders + 1
  /\ clock = 0
  /\ shutdown = FALSE
  /\ producerStop = FALSE
  /\ spc = 0
  /\ dpc = 0
  /\ drained = FALSE
  /\ last = [r \in Readers |-> 0]
  /\ taken = [r \in Readers |-> 0]

-----------------------------------------------------------------------------
(* The operations on a block's reference count and on a reader's queue, each
   with the slips in it that the properties below must notice *)

IsFree_LastRef(b) == refcount[b] <= 1
IsFree(b) == refcount[b] = 0

\* next_block_idx, once block b is taken.
IndexAfter(b) == (b + 1) % NBlocks

Acquired(b) == [refcount EXCEPT ![b] = @ + 1]

Released(b) == IF b = NoBlock THEN refcount ELSE [refcount EXCEPT ![b] = @ - 1]

\* A queue as sample_dispatcher_can_push sees it.
SeenFull_OffByOne(r) == Len(queue[r]) > QueueCap
SeenFull(r) == Len(queue[r]) = QueueCap

Enqueued_InFront(r, b) == [queue EXCEPT ![r] = <<b>> \o @]
Enqueued(r, b) == [queue EXCEPT ![r] = Append(@, b)]

\* pthread_cond_signal on a reader's condition variable.
Woken_Lost(r) == rpc
Woken(r) == IF rpc[r] = "waiting" THEN [rpc EXCEPT ![r] = "popping"] ELSE rpc

-----------------------------------------------------------------------------
(* The producer thread *)

NextChunk ==
  /\ ppc = "next"
  /\ ~producerStop
  /\ clock < MaxChunks
  /\ clock' = clock + 1
  /\ ppc' = "scan"
  /\ scan' = 0
  /\ pos' = 1
  /\ UNCHANGED <<refcount, readerVars, own, nextIdx, content, poolDropped,
                 controlVars>>

\* End of the capture, or a stop request: file.c stores "finished".
Finish ==
  /\ ppc = "next"
  /\ producerStop \/ clock = MaxChunks
  /\ ppc' = "finished"
  /\ UNCHANGED <<refcount, readerVars, own, scan, pos, clock, nextIdx,
                 content, poolDropped, controlVars>>

\* sample_dispatcher_acquire_block: one look at one reference count of the
\* round-robin scan.  Finding 0 and taking the block are two steps.
Candidate == (nextIdx + scan) % NBlocks

ScanBlock ==
  /\ ppc = "scan"
  /\ scan < NBlocks
  /\ IF IsFree(Candidate)
     THEN /\ own' = Candidate
          /\ ppc' = "claim"
          /\ UNCHANGED scan
     ELSE /\ scan' = scan + 1
          /\ UNCHANGED <<own, ppc>>
  /\ UNCHANGED <<refcount, readerVars, pos, clock, nextIdx, content,
                 poolDropped, controlVars>>

ClaimBlock ==
  /\ ppc = "claim"
  /\ nextIdx' = IndexAfter(own)
  /\ refcount' = Acquired(own)
  /\ ppc' = "fill"
  /\ UNCHANGED <<readerVars, own, scan, pos, clock, content, poolDropped,
                 controlVars>>

\* The pool is exhausted.  A live producer notes the drop and goes on with the
\* next chunk; a blocking one rescans until a block is free or it is stopped.
PoolExhaustedLive_Uncounted ==
  /\ ppc = "scan"
  /\ scan = NBlocks
  /\ ~Exhaustive
  /\ ppc' = "next"
  /\ pos' = NReaders + 1
  /\ UNCHANGED <<refcount, readerVars, own, scan, clock, nextIdx, content,
                 poolDropped, controlVars>>
PoolExhaustedLive ==
  /\ ppc = "scan"
  /\ scan = NBlocks
  /\ ~Exhaustive
  /\ poolDropped' = poolDropped + 1
  /\ ppc' = "next"
  /\ pos' = NReaders + 1
  /\ UNCHANGED <<refcount, readerVars, own, scan, clock, nextIdx, content,
                 controlVars>>

PoolExhaustedBlocking ==
  /\ ppc = "scan"
  /\ scan = NBlocks
  /\ Exhaustive
  /\ IF producerStop
     THEN ppc' = "finished" /\ UNCHANGED scan
     ELSE scan' = 0 /\ UNCHANGED ppc
  /\ UNCHANGED <<refcount, readerVars, own, pos, clock, nextIdx, content,
                 poolDropped, controlVars>>

\* The samples are copied into the block.
Fill ==
  /\ ppc = "fill"
  /\ content' = [content EXCEPT ![own] = clock]
  /\ ppc' = IF Exhaustive THEN "canpush" ELSE "push"
  /\ UNCHANGED <<refcount, readerVars, own, scan, pos, clock, nextIdx,
                 poolDropped, controlVars>>

\* sample_dispatcher_can_push: one queue after the other is found with room.
CanPush ==
  /\ ppc = "canpush"
  /\ IF pos > NReaders
     THEN ppc' = "push" /\ pos' = 1
     ELSE IF SeenFull(pos)
          THEN ppc' = "backoff" /\ pos' = 1
          ELSE pos' = pos + 1 /\ UNCHANGED ppc
  /\ UNCHANGED <<refcount, readerVars, own, scan, clock, nextIdx, content,
                 poolDropped, controlVars>>

\* sample_dispatcher_push_blocking between two looks: stopped, it returns with
\* nothing delivered, otherwise it sleeps a quantum and looks again.
Backoff ==
  /\ ppc = "backoff"
  /\ ppc' = IF producerStop THEN "release" ELSE "canpush"
  /\ UNCHANGED <<refcount, readerVars, own, scan, pos, clock, nextIdx,
                 content, poolDropped, controlVars>>

\* sample_dispatcher_push_block, per reader: reference first, then the queue.
PushAcquire ==
  /\ ppc = "push"
  /\ pos <= NReaders
  /\ refcount' = Acquired(own)
  /\ ppc' = "trypush"
  /\ UNCHANGED <<readerVars, own, scan, pos, clock, nextIdx, content,
                 poolDropped, controlVars>>

TryPush ==
  /\ ppc = "trypush"
  /\ IF Len(queue[pos]) = QueueCap
     THEN ppc' = "undo" /\ UNCHANGED <<queue, rpc, pos>>
     ELSE /\ queue' = Enqueued(pos, own)
          /\ rpc' = Woken(pos)
          /\ pos' = pos + 1
          /\ ppc' = "push"
  /\ UNCHANGED <<refcount, held, dropped, last, taken, own, scan, clock,
                 nextIdx, content, poolDropped, controlVars>>

\* The queue was full: the reference is given back and the drop is counted.
PushRefused ==
  /\ ppc = "undo"
  /\ refcount' = Released(own)
  /\ dropped' = [dropped EXCEPT ![pos] = @ + 1]
  /\ pos' = pos + 1
  /\ ppc' = "push"
  /\ UNCHANGED <<queue, held, rpc, last, taken, own, scan, clock, nextIdx,
                 content, poolDropped, controlVars>>

PushDone ==
  /\ ppc = "push"
  /\ pos > NReaders
  /\ ppc' = "release"
  /\ UNCHANGED <<refcount, readerVars, own, scan, pos, clock, nextIdx,
                 content, poolDropped, controlVars>>

\* The producer's own reference goes last.
Release ==
  /\ ppc = "release"
  /\ refcount' = Released(own)
  /\ own' = NoBlock
  /\ ppc' = "next"
  /\ UNCHANGED <<readerVars, scan, pos, clock, nextIdx, content, poolDropped,
                 controlVars>>

Producer ==
  \/ NextChunk \/ Finish
  \/ ScanBlock \/ ClaimBlock \/ PoolExhaustedLive \/ PoolExhaustedBlocking
  \/ Fill \/ CanPush \/ Backoff
  \/ PushAcquire \/ TryPush \/ PushRefused \/ PushDone \/ Release

-----------------------------------------------------------------------------
(* A reader thread *)

\* sample_reader_next: the block of the previous call is released ...
ReleaseHeld(r) ==
  /\ rpc[r] = "working"
  /\ refcount' = Released(held[r])
  /\ held' = [held EXCEPT ![r] = NoBlock]
  /\ rpc' = [rpc EXCEPT ![r] = "popping"]
  /\ UNCHANGED <<queue, dropped, last, taken, producerVars, controlVars>>

\* ... then sample_reader_wait_pop: on shutdown it returns even when blocks
\* are queued, on an empty queue it waits, otherwise it pops and holds.
PopShutdown(r) ==
  /\ rpc[r] = "popping"
  /\ shutdown
  /\ rpc' = [rpc EXCEPT ![r] = "done"]
  /\ UNCHANGED <<refcount, queue, held, dropped, last, taken, producerVars,
                 controlVars>>

Wait(r) ==
  /\ rpc[r] = "popping"
  /\ ~shutdown
  /\ queue[r] = <<>>
  /\ rpc' = [rpc EXCEPT ![r] = "waiting"]
  /\ UNCHANGED <<refcount, queue, held, dropped, last, taken, producerVars,
                 controlVars>>

Pop(r) ==
  /\ rpc[r] = "popping"
  /\ ~shutdown
  /\ queue[r] # <<>>
  /\ held' = [held EXCEPT ![r] = Head(queue[r])]
  /\ queue' = [queue EXCEPT ![r] = Tail(@)]
  /\ last' = [last EXCEPT ![r] = content[Head(queue[r])]]
  /\ taken' = [taken EXCEPT ![r] = @ + 1]
  /\ rpc' = [rpc EXCEPT ![r] = "working"]
  /\ UNCHANGED <<refcount, dropped, producerVars, controlVars>>

\* A wakeup without a signal, which POSIX allows.
SpuriousWakeup(r) ==
  /\ rpc[r] = "waiting"
  /\ rpc' = [rpc EXCEPT ![r] = "popping"]
  /\ UNCHANGED <<refcount, queue, held, dropped, last, taken, producerVars,
                 controlVars>>

\* A worker that sees the flag while it handles a block leaves its loop with
\* the block still held: sample_reader_destroy releases it, after the joins.
LeaveHolding(r) ==
  /\ rpc[r] = "working"
  /\ shutdown
  /\ rpc' = [rpc EXCEPT ![r] = "done"]
  /\ UNCHANGED <<refcount, queue, held, dropped, last, taken, producerVars,
                 controlVars>>

Reader(r) ==
  \/ ReleaseHeld(r) \/ PopShutdown(r) \/ Wait(r) \/ Pop(r) \/ LeaveHolding(r)

-----------------------------------------------------------------------------
(* The threads that stop and drain the dispatcher *)

\* session_request_stop: the flag first, then a signal to every reader.
FirstReader_Skipped == 2
FirstReader == 1

RequestStop ==
  /\ spc = 0
  /\ shutdown' = TRUE
  /\ spc' = FirstReader
  /\ UNCHANGED <<refcount, readerVars, producerVars, producerStop, dpc,
                 drained>>

Signal ==
  /\ spc \in Readers
  /\ rpc' = Woken(spc)
  /\ spc' = spc + 1
  /\ UNCHANGED <<refcount, queue, held, dropped, last, taken, producerVars,
                 shutdown, producerStop, dpc, drained>>

\* radio_stop_rx for the RF dispatcher; the others poll the same flag as
\* their readers, which this step may follow at once.
StopProducer ==
  /\ shutdown
  /\ ~producerStop
  /\ producerStop' = TRUE
  /\ UNCHANGED <<refcount, readerVars, producerVars, shutdown, spc, dpc,
                 drained>>

\* session_drain_exhaustive polls sample_dispatcher_all_free once the file
\* reader has finished; all_free itself looks at one block at a time.
CaptureRead_Assumed == TRUE
CaptureRead == ppc = "finished"

DrainLook ==
  /\ Exhaustive
  /\ CaptureRead
  /\ ~shutdown
  /\ ~drained
  /\ IF dpc = NBlocks
     THEN drained' = TRUE /\ UNCHANGED dpc
     ELSE /\ dpc' = IF IsFree(dpc) THEN dpc + 1 ELSE 0
          /\ UNCHANGED drained
  /\ UNCHANGED <<refcount, readerVars, producerVars, shutdown, producerStop,
                 spc>>

Next ==
  \/ Producer
  \/ \E r \in Readers : Reader(r) \/ SpuriousWakeup(r)
  \/ RequestStop \/ Signal \/ StopProducer
  \/ DrainLook

Spec == Init /\ [][Next]_vars

\* Every thread that can run is scheduled, the stopping thread included once
\* it has begun.  Nobody has to request a stop, and no wakeup is spurious.
Fairness ==
  /\ WF_vars(Producer)
  /\ \A r \in Readers : WF_vars(Reader(r))
  /\ WF_vars(Signal)
  /\ WF_vars(StopProducer)
  /\ WF_vars(DrainLook)

FairSpec == Spec /\ Fairness

-----------------------------------------------------------------------------
(* Correctness *)

PoolTypeOK ==
  /\ refcount \in [Blocks -> Int]   \* never negative: see RefcountExact
  /\ content \in [Blocks -> Nat]
  /\ nextIdx \in Blocks
  /\ poolDropped \in Nat

ReaderTypeOK ==
  /\ queue \in [Readers -> Seq(Blocks)]
  /\ held \in [Readers -> Blocks \cup {NoBlock}]
  /\ rpc \in [Readers -> {"working", "popping", "waiting", "done"}]
  /\ dropped \in [Readers -> Nat]
  /\ last \in [Readers -> Nat]
  /\ taken \in [Readers -> Nat]

ProducerTypeOK ==
  /\ ppc \in {"next", "scan", "claim", "fill", "canpush", "backoff", "push",
              "trypush", "undo", "release", "finished"}
  /\ own \in Blocks \cup {NoBlock}
  /\ own = NoBlock <=> ppc \in {"next", "scan", "finished"}
  /\ scan \in 0 .. NBlocks
  /\ pos \in 1 .. NReaders + 1
  /\ ppc \in {"trypush", "undo"} => pos \in Readers
  /\ ppc \in {"scan", "claim", "fill", "backoff"} => pos = 1
  /\ clock \in Nat

ControlTypeOK ==
  /\ shutdown \in BOOLEAN
  /\ producerStop \in BOOLEAN
  /\ spc \in 0 .. NReaders + 1
  /\ dpc \in 0 .. NBlocks
  /\ drained \in BOOLEAN

TypeOK == PoolTypeOK /\ ReaderTypeOK /\ ProducerTypeOK /\ ControlTypeOK

\* Everyone who counts in a block's reference count: queue entries, readers
\* that hold it, the producer, and the reference a push is handing over.
Queued(r) == Range(queue[r])
QueuedBy(b) == {r \in Readers : b \in Queued(r)}
HeldBy(b) == {r \in Readers : held[r] = b}
ProducerRefs(b) ==
  IF own # b \/ ppc = "claim" THEN 0
  ELSE IF ppc \in {"trypush", "undo"} THEN 2 ELSE 1

\* A reference count is the number of references, whatever the interleaving of
\* the producer's pushes, refusals and releases with the readers' releases.
RefcountExact ==
  \A b \in Blocks :
    refcount[b] = Cardinality(QueuedBy(b)) + Cardinality(HeldBy(b))
                  + ProducerRefs(b)

\* The producer's look at the count and its increment are two steps, yet
\* nobody else refers to the block it found free and fills: no reader ever
\* sees samples change under it.
ExclusiveFill ==
  ppc \in {"claim", "fill"} =>
    \A r \in Readers : own # held[r] /\ own \notin Queued(r)

\* What a reader works on, or has queued, is not overwritten in the pool.
NoOverwrite ==
  [][\A r \in Readers :
       /\ held[r] # NoBlock => content'[held[r]] = content[held[r]]
       /\ \A b \in Queued(r) : content'[b] = content[b]]_vars

\* With the blocking helpers nothing is dropped: the room that can_push saw in
\* every queue is still there when push_block comes ("check-then-push is
\* race-free", sample_dispatcher.h).
ExhaustiveDropsNothing ==
  Exhaustive => poolDropped = 0 /\ \A r \in Readers : dropped[r] = 0

\* A ring never holds more than its capacity.
QueueBounded == \A r \in Readers : Len(queue[r]) <= QueueCap

\* Its strengthening: the queues that can_push has seen with room, and in
\* push_block the ones still to be served, have room.
RoomInv ==
  Exhaustive =>
    /\ ppc # "undo"
    /\ ppc = "canpush" =>
         \A r \in Readers : r < pos => Len(queue[r]) < QueueCap
    /\ ppc \in {"push", "trypush"} =>
         \A r \in Readers : r >= pos => Len(queue[r]) < QueueCap

\* What makes the two invariants above inductive: a reader about to pop holds
\* no block, a reader refers to a block at most once, and one that is still to
\* be offered the producer's block does not refer to it.
ToBeOffered(r) ==
  \/ ppc \in {"claim", "fill", "canpush", "backoff"}
  \/ ppc \in {"push", "trypush", "undo"} /\ r >= pos

OwnershipInv ==
  /\ ppc = "claim" => refcount[own] = 0
  /\ \A r \in Readers :
       /\ rpc[r] \in {"popping", "waiting"} => held[r] = NoBlock
       /\ IsInjective(queue[r])
       /\ held[r] \notin Queued(r)
       /\ ToBeOffered(r) => own # held[r] /\ own \notin Queued(r)

\* Readers that are done with the chunk the producer works on.
Offered == IF ppc \in {"scan", "claim", "fill", "canpush", "backoff"}
           THEN {} ELSE 1 .. pos - 1

\* No silent loss: every chunk a reader did not get is in its queue, counted in
\* its dropped_blocks or counted in the pool's.
LossIsCounted ==
  \A r \in Readers :
    clock = taken[r] + Len(queue[r]) + dropped[r] + poolDropped
            + (IF r \in Offered THEN 0 ELSE 1)

\* Its strengthening: the loop over the readers was not cut short, unless the
\* producer is about to stop.
OfferedInv ==
  ppc \in {"next", "release", "finished"} =>
     pos = NReaders + 1 \/ producerStop

\* The inductive invariant behind the ones above.
IInv == /\ TypeOK
        /\ RefcountExact /\ OwnershipInv
        /\ QueueBounded /\ RoomInv /\ ExhaustiveDropsNothing
        /\ LossIsCounted /\ OfferedInv

\* all_free after the end of the capture means that every reader has worked
\* through every chunk of it, although the scan is not a snapshot.
DrainedIsComplete ==
  drained => \A r \in Readers :
               /\ queue[r] = <<>>
               /\ held[r] = NoBlock
               /\ taken[r] = MaxChunks
               /\ last[r] = MaxChunks

\* Its strengthening: the drain only begins after a capture that was read to
\* its end and offered to everyone, and a block it found free stays free.
DrainInv ==
  /\ producerStop => shutdown
  /\ ppc = "finished" => clock = MaxChunks \/ producerStop
  /\ dpc > 0 \/ drained =>
       /\ Exhaustive /\ ppc = "finished"
       /\ clock = MaxChunks /\ pos = NReaders + 1
       /\ \A b \in Blocks : b < dpc => refcount[b] = 0
  /\ drained => dpc = NBlocks

\* What is pushed is the chunk at hand; and with the blocking helpers a reader
\* has taken the chunks 1, 2, ... and the next ones are queued for it, in order.
OrderInv ==
  /\ ppc \in {"canpush", "backoff", "push", "trypush", "undo"} =>
       content[own] = clock
  /\ Exhaustive => \A r \in Readers :
       /\ last[r] = taken[r]
       /\ \A i \in 1 .. Len(queue[r]) : content[queue[r][i]] = taken[r] + i

\* The queues of pointers into a recycled pool implement queues of chunks.
Chunks(r) == [i \in 1 .. Len(queue[r]) |-> content[queue[r][i]]]

Stream == INSTANCE SampleStream WITH
  Cap <- QueueCap,
  Lossless <- Exhaustive,
  now <- clock,
  offered <- Offered,
  stream <- [r \in Readers |-> Chunks(r)],
  inHand <- [r \in Readers |->
               IF held[r] = NoBlock THEN 0 ELSE content[held[r]]],
  lost <- [r \in Readers |-> dropped[r] + poolDropped]

ImplementsStream == Stream!Spec

\* A replay ends: it is drained, or somebody stopped it.  No wakeup is lost
\* and no backoff loops forever.
ReplayEnds == Exhaustive => <>(drained \/ shutdown)

\* A stop request ends every thread, wherever it finds it.
AllDone == ppc = "finished" /\ \A r \in Readers : rpc[r] = "done"
StopEndsThreads == shutdown ~> AllDone
=============================================================================
