--------------------------- MODULE ReplayPipeline ---------------------------
(***************************************************************************)
(* An exhaustive capture replay from end to end: the file reader, per lane *)
(* a DDC and a PFB thread (src/core/service/channelizer_service.c), the    *)
(* channel workers, the collector thread, and session_run, which drains    *)
(* the pipeline when the capture has been read (src/core/service/          *)
(* session.c).                                                             *)
(*                                                                         *)
(* Each producer feeds its readers through a dispatcher of its own.  What  *)
(* SampleDispatcher establishes of one dispatcher is taken as a step here: *)
(* a blocking push delivers to all readers or waits, and a block is free   *)
(* when nobody refers to it.  A block is its number in its dispatcher.     *)
(* After a stop request no block is taken up any more; how the threads end *)
(* then is the subject of SampleDispatcher, Collector and Session.         *)
(***************************************************************************)
EXTENDS Integers, Sequences, FiniteSets, FiniteSetsExt

CONSTANTS
  Lanes,      \* 1 .. K
  Channels,   \* the channel workers of a lane, by number
  Pool,       \* SAMPLE_DISPATCHER_BLOCK_CAPACITY
  QueueCap,   \* SAMPLE_READER_QUEUE_CAPACITY
  EventCap,   \* capacity of the collector
  MaxChunks,  \* bound: RF blocks in the capture
  Split,      \* bound: blocks a PFB makes of one block
  Packets     \* bound: packets a worker decodes from one block

File == <<"file">>
Ddc(k) == <<"ddc", k>>
Pfb(k) == <<"pfb", k>>
Chan(k, c) == <<"chan", k, c>>

Ddcs == {Ddc(k) : k \in Lanes}
Pfbs == {Pfb(k) : k \in Lanes}
Chans == {Chan(k, c) : k \in Lanes, c \in Channels}
Producers == {File} \cup Ddcs \cup Pfbs
Readers == Ddcs \cup Pfbs \cup Chans

\* Who reads the dispatcher a producer fills: rf, sub[k], out[k].
ReadersOf(p) ==
  CASE p = File    -> Ddcs
    [] p \in Ddcs  -> {Pfb(p[2])}
    [] p \in Pfbs  -> {Chan(p[2], c) : c \in Channels}

ASSUME PipelineAssumption ==
  /\ {Pool, QueueCap, EventCap} \subseteq Nat \ {0}
  /\ {MaxChunks, Split, Packets} \subseteq Nat

VARIABLES
  made,      \* per producer, blocks it filled
  own,       \* per producer, the block it has acquired, 0 for none
  queue,     \* per reader, the blocks in its ring
  held,      \* per reader, view_held, 0 for none
  todo,      \* per reader, blocks or packets still to make of the held block
  finished,  \* the file backend's finished
  events,    \* events in the collector
  handling,  \* the collector thread is processing one
  decoded, surfaced,  \* history: events submitted, events processed
  mpc,       \* session_run: running, draining, quiet, timedout, stopped
  probe,     \* the stage session_drain_exhaustive looks at
  shutdown

stageVars == <<made, own, queue, held, todo>>
eventVars == <<events, handling, decoded, surfaced>>
mainVars == <<mpc, probe, shutdown>>
vars == <<stageVars, finished, eventVars, mainVars>>

Init ==
  /\ made = [p \in Producers |-> 0]
  /\ own = [p \in Producers |-> 0]
  /\ queue = [r \in Readers |-> <<>>]
  /\ held = [r \in Readers |-> 0]
  /\ todo = [r \in Readers |-> 0]
  /\ finished = FALSE
  /\ events = 0
  /\ handling = FALSE
  /\ decoded = 0
  /\ surfaced = 0
  /\ mpc = "running"
  /\ probe = 1
  /\ shutdown = FALSE

-----------------------------------------------------------------------------
(* Dispatchers *)

\* The blocks of p's pool that somebody refers to.
Referenced(p) ==
  (IF own[p] = 0 THEN {} ELSE {own[p]})
  \cup (UNION {{queue[r][i] : i \in 1 .. Len(queue[r])} : r \in ReadersOf(p)})
  \cup ({held[r] : r \in ReadersOf(p)} \ {0})

AllFree(p) == Referenced(p) = {}

\* sample_dispatcher_acquire_blocking, which waits for a free block ...
Acquire(p) ==
  /\ own[p] = 0
  /\ Cardinality(Referenced(p)) < Pool
  /\ made' = [made EXCEPT ![p] = @ + 1]
  /\ own' = [own EXCEPT ![p] = made[p] + 1]

\* ... and sample_dispatcher_push_blocking, which waits for room everywhere;
\* the producer's reference goes with it.
HasRoom_Spare(p) == \A r \in ReadersOf(p) : Len(queue[r]) + 1 < QueueCap
HasRoom(p) == \A r \in ReadersOf(p) : Len(queue[r]) < QueueCap

Delivered(p) ==
  [r \in Readers |->
     IF r \in ReadersOf(p) THEN Append(queue[r], own[p]) ELSE queue[r]]

Push(p) ==
  /\ own[p] # 0
  /\ HasRoom(p)
  /\ queue' = Delivered(p)
  /\ own' = [own EXCEPT ![p] = 0]

-----------------------------------------------------------------------------
(* The file reader *)

FileAcquire ==
  /\ ~finished
  /\ ~shutdown
  /\ made[File] < MaxChunks
  /\ Acquire(File)
  /\ UNCHANGED <<queue, held, todo, finished, eventVars, mainVars>>

FilePush ==
  /\ Push(File)
  /\ UNCHANGED <<made, held, todo, finished, eventVars, mainVars>>

FileEnd ==
  /\ ~finished
  /\ own[File] = 0
  /\ made[File] = MaxChunks
  /\ finished' = TRUE
  /\ UNCHANGED <<stageVars, eventVars, mainVars>>

-----------------------------------------------------------------------------
(* Readers: sample_reader_next, first the release and then the pop *)

\* The block is let go when all that was to be made of it has been passed on.
MayRelease(r) == held[r] # 0 /\ todo[r] = 0 /\ (r \in Producers => own[r] = 0)

ReleaseHeld(r) ==
  /\ MayRelease(r)
  /\ held' = [held EXCEPT ![r] = 0]
  /\ UNCHANGED <<made, own, queue, todo, finished, eventVars, mainVars>>

Yield(r) == IF r \in Ddcs THEN {1}
            ELSE IF r \in Pfbs THEN 0 .. Split ELSE 0 .. Packets

Pop(r) ==
  /\ held[r] = 0
  /\ todo[r] = 0
  /\ r \in Producers => own[r] = 0
  /\ ~shutdown
  /\ queue[r] # <<>>
  /\ held' = [held EXCEPT ![r] = Head(queue[r])]
  /\ queue' = [queue EXCEPT ![r] = Tail(@)]
  /\ \E n \in Yield(r) : todo' = [todo EXCEPT ![r] = n]
  /\ UNCHANGED <<made, own, finished, eventVars, mainVars>>

\* svc_ddc_worker and svc_pfb_worker: a block of their own for each result.
LaneAcquire(r) ==
  /\ r \in Producers
  /\ todo[r] > 0
  /\ Acquire(r)
  /\ UNCHANGED <<queue, held, todo, finished, eventVars, mainVars>>

LanePush(r) ==
  /\ r \in Producers
  /\ Push(r)
  /\ todo' = [todo EXCEPT ![r] = @ - 1]
  /\ UNCHANGED <<made, held, finished, eventVars, mainVars>>

\* A channel worker submits a packet; the collector blocks while it is full.
EventRoom == events < EventCap

Submit(r) ==
  /\ r \in Chans
  /\ todo[r] > 0
  /\ EventRoom
  /\ todo' = [todo EXCEPT ![r] = @ - 1]
  /\ events' = events + 1
  /\ decoded' = decoded + 1
  /\ UNCHANGED <<made, own, queue, held, finished, handling, surfaced, mainVars>>

ReaderStep(r) ==
  \/ ReleaseHeld(r) \/ Pop(r) \/ LaneAcquire(r) \/ LanePush(r) \/ Submit(r)

-----------------------------------------------------------------------------
(* The collector thread *)

CollectorPop ==
  /\ ~handling
  /\ events > 0
  /\ events' = events - 1
  /\ handling' = TRUE
  /\ UNCHANGED <<stageVars, finished, decoded, surfaced, mainVars>>

CollectorProcess ==
  /\ handling
  /\ handling' = FALSE
  /\ surfaced' = surfaced + 1
  /\ UNCHANGED <<stageVars, finished, events, decoded, mainVars>>

-----------------------------------------------------------------------------
(* session_run *)

\* The poll for radio_is_finished, and then for a stop request.
RadioFinished ==
  /\ mpc = "running"
  /\ ~shutdown
  /\ finished
  /\ mpc' = "draining"
  /\ UNCHANGED <<stageVars, finished, eventVars, probe, shutdown>>

\* session_drain_exhaustive looks at one stage after the other: the RF
\* dispatcher, the sub and the out dispatchers, the collector queues.
Stages == 4

\* Mutant: the stages are looked at from the last to the first.
StageIdle_Backwards(i) ==
  CASE i = 4 -> AllFree(File)
    [] i = 3 -> \A p \in Ddcs : AllFree(p)
    [] i = 2 -> \A p \in Pfbs : AllFree(p)
    [] i = 1 -> events = 0

StageIdle(i) ==
  CASE i = 1 -> AllFree(File)
    [] i = 2 -> \A p \in Ddcs : AllFree(p)
    [] i = 3 -> \A p \in Pfbs : AllFree(p)
    [] i = 4 -> events = 0

Probe ==
  /\ mpc = "draining"
  /\ ~shutdown
  /\ IF ~StageIdle(probe)
     THEN probe' = 1 /\ UNCHANGED mpc
     ELSE IF probe < Stages
          THEN probe' = probe + 1 /\ UNCHANGED mpc
          ELSE mpc' = "quiet" /\ UNCHANGED probe
  /\ UNCHANGED <<stageVars, finished, eventVars, shutdown>>

\* The drain gives up after 30 s, looked at between two rounds.
DrainTimeout ==
  /\ mpc = "draining"
  /\ probe = 1
  /\ mpc' = "timedout"
  /\ UNCHANGED <<stageVars, finished, eventVars, probe, shutdown>>

\* Somebody else calls session_request_stop.
RequestStop ==
  /\ ~shutdown
  /\ shutdown' = TRUE
  /\ UNCHANGED <<stageVars, finished, eventVars, mpc, probe>>

SeesStop ==
  /\ mpc \in {"running", "draining"}
  /\ shutdown
  /\ mpc' = "stopped"
  /\ UNCHANGED <<stageVars, finished, eventVars, probe, shutdown>>

\* session_destroy: stop everything.
Teardown ==
  /\ mpc \in {"quiet", "timedout"}
  /\ ~shutdown
  /\ shutdown' = TRUE
  /\ UNCHANGED <<stageVars, finished, eventVars, mpc, probe>>

Main == RadioFinished \/ Probe \/ SeesStop \/ Teardown

Next ==
  \/ FileAcquire \/ FilePush \/ FileEnd
  \/ \E r \in Readers : ReaderStep(r)
  \/ CollectorPop \/ CollectorProcess
  \/ Main \/ DrainTimeout \/ RequestStop

Spec == Init /\ [][Next]_vars

\* Every thread runs when it can; stops and timeouts need not come.
Fairness ==
  /\ WF_vars(FileAcquire \/ FilePush \/ FileEnd)
  /\ \A r \in Readers : WF_vars(ReaderStep(r))
  /\ WF_vars(CollectorPop \/ CollectorProcess)
  /\ WF_vars(Main)

FairSpec == Spec /\ Fairness
-----------------------------------------------------------------------------
(* Correctness *)

TypeOK ==
  /\ made \in [Producers -> Nat]
  /\ own \in [Producers -> Nat]
  /\ queue \in [Readers -> Seq(Nat)]
  /\ held \in [Readers -> Nat]
  /\ todo \in [Readers -> Nat]
  /\ finished \in BOOLEAN
  /\ events \in 0 .. EventCap
  /\ handling \in BOOLEAN
  /\ decoded \in Nat
  /\ surfaced \in Nat
  /\ mpc \in {"running", "draining", "quiet", "timedout", "stopped"}
  /\ probe \in 1 .. Stages
  /\ shutdown \in BOOLEAN

\* "Every in-flight sample block is released and both event queues are empty
\* (i.e. the whole capture has been processed and surfaced)" (session.c).  The
\* drain looks at the stages one by one while the threads run, yet when it
\* returns they are all idle AT ONCE, and every decoded event has been handed
\* to the collector thread.
QuietIsComplete ==
  mpc = "quiet" =>
    /\ finished
    /\ \A p \in Producers : AllFree(p)
    /\ \A r \in Readers : todo[r] = 0
    /\ events = 0
    /\ decoded = surfaced + (IF handling THEN 1 ELSE 0)

\* What it rests on.  A stage that was found idle stays idle, because the stages
\* before it are ...
Upstream(i) ==
  /\ i >= 1 => finished /\ AllFree(File)
  /\ i >= 2 => \A p \in Ddcs : AllFree(p) /\ own[p] = 0 /\ todo[p] = 0
  /\ i >= 3 => \A p \in Pfbs : AllFree(p) /\ own[p] = 0 /\ todo[p] = 0

ProbedStaysIdle == mpc = "draining" => Upstream(probe - 1)

\* ... and a reader lets a block go only after everything made of it is in the
\* next stage: until then the drain can see that there is work left.
HeldWhileWorking ==
  \A r \in Readers :
    todo[r] > 0 \/ (r \in Producers /\ own[r] # 0) => held[r] # 0

DrainInv == ProbedStaysIdle /\ HeldWhileWorking

\* Backpressure through four stages of bounded pools and queues never becomes
\* a deadlock: a replay that nobody stops is read and drained.
ReplayDrains == <>(mpc \in {"quiet", "timedout"} \/ shutdown)
=============================================================================
