------------------------------ MODULE Session -------------------------------
(***************************************************************************)
(* The life of one receive session (src/core/service/session.c): the main  *)
(* thread starts the channel workers, the channelizer service, the         *)
(* collector threads and the radio, waits, and takes all of it down again  *)
(* in session_destroy, statement by statement, while the threads run and   *)
(* others may ask it to stop.                                              *)
(*                                                                         *)
(* A thread with nothing to do sleeps on the condition variable of its     *)
(* queue: a channel worker on the reader inside its processor, a service   *)
(* thread on a reader of the service, a collector thread on its collector. *)
(* Of the samples only the blocks on their way to the PFB thread are left, *)
(* which pushes what it makes of them to the readers inside the channel    *)
(* processors; events and the drop counters are not modelled.              *)
(*                                                                         *)
(* pthread_cond_destroy on a variable that somebody waits on is undefined. *)
(* What glibc makes of it is modelled: it waits until nobody does.         *)
(***************************************************************************)
EXTENDS Integers, Sequences, SequencesExt, FiniteSets

CONSTANTS
  Protocols,   \* the enabled protocols, in the order they are started
  NChannels,   \* channel workers per protocol
  Failures,    \* what may fail: create, channel, service, collector, radio
  MaxBlocks    \* bound: blocks the radio delivers

ASSUME SessionAssumption ==
  /\ Protocols \in Seq({"ble", "bredr"})
  /\ NChannels \in Nat \ {0}
  /\ Failures \subseteq {"create", "channel", "service", "collector", "radio"}
  /\ MaxBlocks \in Nat

Enabled == ToSet(Protocols)
Workers == Enabled \X (1 .. NChannels)
Collectors == {<<p, 0>> : p \in Enabled}
Service == {<<"ddc">>, <<"pfb">>}
Pfb == <<"pfb">>
Threads == Workers \cup Collectors \cup Service

VARIABLES
  mpc,              \* where session_run, then session_destroy, is
  phase, idx,       \* the loops of the start and of the joins
  thread,           \* per thread: none, running, waiting, exited, joined
  worker_threads,   \* the threads session_destroy can join, in order
  worker_count, workers_running, chan_svc_running, svc_count,
  device,           \* none, open, streaming
  processors, queues, dispatchers,  \* storage: live, freed, twice (freed)
  shutdown,         \* shutdown_requested
  torn_down,
  busy,             \* the PFB thread works on a block
  blocks, delivered,  \* how many are on their way to it; how many there were
  ready             \* history: every thread of the session was created

startVars == <<phase, worker_threads, worker_count, workers_running,
               chan_svc_running, svc_count>>
memoryVars == <<processors, queues, dispatchers>>
flowVars == <<busy, blocks, delivered>>
vars == <<mpc, idx, thread, startVars, device, memoryVars, shutdown, torn_down,
          flowVars, ready>>

Init ==
  /\ mpc = "create"
  /\ phase = 1 /\ idx = 1
  /\ thread = [t \in Threads |-> "none"]
  /\ worker_threads = <<>>
  /\ worker_count = 0
  /\ workers_running = FALSE
  /\ chan_svc_running = FALSE
  /\ svc_count = 0
  /\ device = "none"
  /\ processors = "live" /\ queues = "live" /\ dispatchers = "live"
  /\ shutdown = FALSE
  /\ torn_down = FALSE
  /\ busy = FALSE
  /\ blocks = 0 /\ delivered = 0
  /\ ready = FALSE

-----------------------------------------------------------------------------
(* Threads asleep *)

Waiting(T) == \E t \in T : thread[t] = "waiting"

\* Those of T that wait are woken, and look again.
Signalled(T) ==
  [t \in Threads |->
     IF t \in T /\ thread[t] = "waiting" THEN "running" ELSE thread[t]]

\* session_request_stop reaches the readers of the processors there are, those
\* of the service once it is known to run, and the collectors.
StopReaches ==
  (IF processors = "live" THEN Workers ELSE {})
    \cup (IF chan_svc_running THEN Service ELSE {}) \cup Collectors

-----------------------------------------------------------------------------
(* session_run *)

CreateChannels ==
  /\ mpc = "create"
  /\ \/ mpc' = "spawn"
     \/ "create" \in Failures /\ mpc' = "destroy"
  /\ UNCHANGED <<idx, thread, startVars, device, memoryVars, shutdown,
                 torn_down, flowVars, ready>>

\* spawn_worker
Spawned(t) ==
  /\ thread' = [thread EXCEPT ![t] = "running"]
  /\ worker_threads' = Append(worker_threads, t)

\* The channel workers of one protocol after the other.  A failure only ends
\* the loop of its protocol.
SpawnChannel ==
  /\ mpc = "spawn"
  /\ phase <= Len(Protocols)
  /\ \/ /\ Spawned(<<Protocols[phase], idx>>)
        /\ IF idx < NChannels
           THEN idx' = idx + 1 /\ UNCHANGED phase
           ELSE idx' = 1 /\ phase' = phase + 1
     \/ /\ "channel" \in Failures
        /\ idx' = 1 /\ phase' = phase + 1
        /\ UNCHANGED <<thread, worker_threads>>
  /\ UNCHANGED <<mpc, worker_count, workers_running, chan_svc_running,
                 svc_count, device, memoryVars, shutdown, torn_down, flowVars,
                 ready>>

\* channelizer_service_start.  When a thread cannot be created the ones created
\* before stay: worker_count is still 0, so the stop it calls joins nobody.
StartService ==
  /\ mpc = "spawn"
  /\ phase = Len(Protocols) + 1
  /\ \/ /\ thread' = [t \in Threads |->
                        IF t \in Service THEN "running" ELSE thread[t]]
        /\ svc_count' = Cardinality(Service)
        /\ chan_svc_running' = TRUE
        /\ mpc' = "collect"
     \/ /\ "service" \in Failures
        /\ \E S \in {{}, {<<"ddc">>}} :
             thread' = [t \in Threads |->
                          IF t \in S THEN "running" ELSE thread[t]]
        /\ mpc' = "destroy"
        /\ UNCHANGED <<svc_count, chan_svc_running>>
  /\ phase' = 1
  /\ UNCHANGED <<idx, worker_threads, worker_count, workers_running, device,
                 memoryVars, shutdown, torn_down, flowVars, ready>>

SpawnCollector ==
  /\ mpc = "collect"
  /\ phase <= Len(Protocols)
  /\ \/ Spawned(<<Protocols[phase], 0>>) /\ UNCHANGED mpc
     \/ /\ "collector" \in Failures
        /\ mpc' = "destroy"
        /\ UNCHANGED <<thread, worker_threads>>
  /\ phase' = phase + 1
  /\ UNCHANGED <<idx, worker_count, workers_running, chan_svc_running,
                 svc_count, device, memoryVars, shutdown, torn_down, flowVars,
                 ready>>

\* Only now does session_destroy know how many threads there are to join.
Started == Len(worker_threads)

Ready ==
  /\ mpc = "collect"
  /\ phase = Len(Protocols) + 1
  /\ worker_count' = Started
  /\ workers_running' = TRUE
  /\ ready' = TRUE
  /\ mpc' = "radio"
  /\ UNCHANGED <<idx, thread, phase, worker_threads, chan_svc_running,
                 svc_count, device, memoryVars, shutdown, torn_down, flowVars>>

\* radio_open, then radio_configure and radio_start_rx.
StartRadio ==
  /\ mpc = "radio"
  /\ \/ device = "none" /\ device' = "open" /\ UNCHANGED mpc
     \/ device = "open" /\ device' = "streaming" /\ mpc' = "run"
     \/ "radio" \in Failures /\ mpc' = "destroy" /\ UNCHANGED device
  /\ UNCHANGED <<idx, thread, startVars, memoryVars, shutdown, torn_down,
                 flowVars, ready>>

\* The loop ends on a stop request, or when a capture has been read.
RunEnds ==
  /\ mpc = "run"
  /\ mpc' = "destroy"
  /\ UNCHANGED <<idx, thread, startVars, device, memoryVars, shutdown,
                 torn_down, flowVars, ready>>

-----------------------------------------------------------------------------
(* session_destroy *)

AlreadyTornDown == torn_down

\* Called by session_run, and once more by the owner of the session.
Destroy ==
  /\ mpc \in {"destroy", "ended"}
  /\ torn_down' = TRUE
  /\ mpc' = IF AlreadyTornDown THEN "returned" ELSE "stop"
  /\ UNCHANGED <<idx, thread, startVars, device, memoryVars, shutdown,
                 flowVars, ready>>

StopThreads ==
  /\ mpc = "stop"
  /\ IF workers_running \/ chan_svc_running
     THEN shutdown' = TRUE /\ thread' = Signalled(StopReaches)
     ELSE UNCHANGED <<shutdown, thread>>
  /\ mpc' = "join"
  /\ idx' = 1
  /\ UNCHANGED <<startVars, device, memoryVars, torn_down, flowVars, ready>>

JoinWorker_NoWait ==
  /\ mpc = "join"
  /\ IF idx <= worker_count
     THEN /\ idx' = idx + 1
          /\ UNCHANGED <<mpc, thread, worker_threads>>
     ELSE /\ mpc' = "device"
          /\ worker_threads' = <<>>
          /\ UNCHANGED <<idx, thread>>
  /\ UNCHANGED <<phase, worker_count, workers_running, chan_svc_running,
                 svc_count, device, memoryVars, shutdown, torn_down, flowVars,
                 ready>>
JoinWorker ==
  /\ mpc = "join"
  /\ IF idx <= worker_count
     THEN /\ thread[worker_threads[idx]] = "exited"
          /\ thread' = [thread EXCEPT ![worker_threads[idx]] = "joined"]
          /\ idx' = idx + 1
          /\ UNCHANGED <<mpc, worker_threads>>
     ELSE /\ mpc' = "device"
          /\ worker_threads' = <<>>
          /\ UNCHANGED <<idx, thread>>
  /\ UNCHANGED <<phase, worker_count, workers_running, chan_svc_running,
                 svc_count, device, memoryVars, shutdown, torn_down, flowVars,
                 ready>>

CloseRadio ==
  /\ mpc = "device"
  /\ device' = "none"
  /\ mpc' = "processors"
  /\ UNCHANGED <<idx, thread, startVars, memoryVars, shutdown, torn_down,
                 flowVars, ready>>

Freed(storage) == IF storage = "live" THEN "freed" ELSE "twice"

\* sample_reader_destroy destroys the condition variable of each processor's
\* reader.  The lane's dispatcher still refers to the reader afterwards.
FreeProcessors ==
  /\ mpc = "processors"
  /\ ~Waiting(Workers)
  /\ processors' = "freed"  \* the pointers are NULL the second time
  /\ mpc' = "flags"
  /\ UNCHANGED <<idx, thread, startVars, device, queues, dispatchers, shutdown,
                 torn_down, flowVars, ready>>

ResetFlags ==
  /\ mpc = "flags"
  /\ worker_count' = 0
  /\ workers_running' = FALSE
  /\ chan_svc_running' = FALSE
  /\ shutdown' = FALSE
  /\ mpc' = "queues"
  /\ UNCHANGED <<idx, thread, phase, worker_threads, svc_count, device,
                 memoryVars, torn_down, flowVars, ready>>

\* collector_destroy, with its condition variable.
FreeQueues ==
  /\ mpc = "queues"
  /\ ~Waiting(Collectors)
  /\ queues' = Freed(queues)
  /\ mpc' = IF svc_count = 0 THEN "dispatchers" ELSE "service"
  /\ UNCHANGED <<idx, thread, startVars, device, processors, dispatchers,
                 shutdown, torn_down, flowVars, ready>>

\* channelizer_service_stop sets the flag again, wakes and joins.
StopService_FlagKept ==
  /\ mpc = "service"
  /\ thread' = Signalled(Service)
  /\ mpc' = "joinservice"
  /\ UNCHANGED <<idx, startVars, device, memoryVars, shutdown, torn_down,
                 flowVars, ready>>
StopService ==
  /\ mpc = "service"
  /\ shutdown' = TRUE
  /\ thread' = Signalled(Service)
  /\ mpc' = "joinservice"
  /\ UNCHANGED <<idx, startVars, device, memoryVars, torn_down, flowVars, ready>>

JoinService ==
  /\ mpc = "joinservice"
  /\ \A t \in Service : thread[t] = "exited"
  /\ thread' = [t \in Threads |-> IF t \in Service THEN "joined" ELSE thread[t]]
  /\ svc_count' = 0
  /\ mpc' = "dispatchers"
  /\ UNCHANGED <<idx, phase, worker_threads, worker_count, workers_running,
                 chan_svc_running, device, memoryVars, shutdown, torn_down,
                 flowVars, ready>>

\* channelizer_service_destroy, with the readers of the service, and
\* free_dispatcher.
FreeDispatchers ==
  /\ mpc = "dispatchers"
  /\ ~Waiting(Service)
  /\ dispatchers' = "freed"
  /\ mpc' = "ended"
  /\ UNCHANGED <<idx, thread, startVars, device, processors, queues, shutdown,
                 torn_down, flowVars, ready>>

Teardown ==
  \/ Destroy \/ StopThreads \/ JoinWorker
  \/ CloseRadio \/ FreeProcessors \/ ResetFlags \/ FreeQueues
  \/ StopService \/ JoinService \/ FreeDispatchers

-----------------------------------------------------------------------------
(* The threads, and whoever calls session_request_stop *)

Exit(t) ==
  /\ thread[t] = "running"
  /\ shutdown
  /\ t = Pfb => ~busy
  /\ thread' = [thread EXCEPT ![t] = "exited"]
  /\ UNCHANGED <<mpc, idx, startVars, device, memoryVars, shutdown, torn_down,
                 flowVars, ready>>

\* A thread finds its queue empty and no flag set.
Wait(t) ==
  /\ thread[t] = "running"
  /\ ~shutdown
  /\ t = Pfb => ~busy
  /\ thread' = [thread EXCEPT ![t] = "waiting"]
  /\ UNCHANGED <<mpc, idx, startVars, device, memoryVars, shutdown, torn_down,
                 flowVars, ready>>

\* Something is put into the queue a thread waits on; or it wakes for no reason,
\* as a thread may.
Wakes(t) ==
  /\ thread[t] = "waiting"
  /\ thread' = Signalled({t})
  /\ UNCHANGED <<mpc, idx, startVars, device, memoryVars, shutdown, torn_down,
                 flowVars, ready>>

\* The radio delivers a block, which the DDC thread passes on.
Deliver ==
  /\ device = "streaming"
  /\ delivered < MaxBlocks
  /\ delivered' = delivered + 1
  /\ blocks' = blocks + 1
  /\ UNCHANGED <<mpc, idx, thread, startVars, device, memoryVars, shutdown,
                 torn_down, busy, ready>>

\* The PFB thread takes a block off its queue, and pushes what it makes of it
\* to the readers inside the channel processors.
TakeBlock ==
  /\ thread[Pfb] = "running"
  /\ ~busy
  /\ ~shutdown
  /\ blocks > 0
  /\ busy' = TRUE
  /\ blocks' = blocks - 1
  /\ UNCHANGED <<mpc, idx, thread, startVars, device, memoryVars, shutdown,
                 torn_down, delivered, ready>>

FinishBlock ==
  /\ busy
  /\ busy' = FALSE
  /\ UNCHANGED <<mpc, idx, thread, startVars, device, memoryVars, shutdown,
                 torn_down, blocks, delivered, ready>>

RequestStop ==
  /\ ~shutdown
  /\ shutdown' = TRUE
  /\ thread' = Signalled(StopReaches)
  /\ UNCHANGED <<mpc, idx, startVars, device, memoryVars, torn_down, flowVars,
                 ready>>

Run ==
  \/ CreateChannels \/ SpawnChannel \/ StartService \/ SpawnCollector \/ Ready
  \/ StartRadio \/ RunEnds

Next ==
  \/ Run \/ Teardown
  \/ \E t \in Threads : Exit(t) \/ Wait(t) \/ Wakes(t)
  \/ Deliver \/ TakeBlock \/ FinishBlock
  \/ RequestStop

Spec == Init /\ [][Next]_vars

\* The main thread goes on, blocks get finished, and a thread that can see the
\* flag looks; the session may run for ever, and nobody has to stop it.
Fairness ==
  /\ WF_vars(Teardown)
  /\ \A t \in Threads : WF_vars(Exit(t))
  /\ WF_vars(FinishBlock)

FairSpec == Spec /\ Fairness

-----------------------------------------------------------------------------
(* Correctness *)

Alive(T) == \E t \in T : thread[t] \in {"running", "waiting"}

\* No thread outlives its session: spawn_worker's threads are "tracked for
\* join-on-teardown via worker_threads" (session.c), the service's by itself.
\* It holds of the sessions whose threads were all created, not of the others:
\* a start that fails half way leaves threads that nobody joins.
NoOrphans ==
  mpc \in {"ended", "returned"} =>
    \A t \in Threads : thread[t] \in {"none", "joined"}

\* Who uses what: workers their processor and their protocol's collector, which
\* its collector thread empties; the PFB thread the readers in the processors;
\* everybody blocks of the dispatchers.
ProcessorUsers == Workers \cup {Pfb}
QueueUsers == Workers \cup Collectors

\* Once all threads of a session were created: what session_destroy has freed
\* has no user left except that the PFB thread may still push to the readers of
\* freed processors; it is gone, and the radio closed, when the dispatchers go.
\* No thread stays behind, and nothing is freed twice when the owner destroys
\* the session again.
OnlyPfbUsesFreed ==
  ready =>
    /\ processors = "freed" => ~Alive(ProcessorUsers \ {Pfb})
    /\ queues # "live" => ~Alive(QueueUsers)
    /\ dispatchers = "freed" => ~Alive(Threads) /\ device = "none"
    /\ queues # "twice"
    /\ NoOrphans

\* session_destroy frees nothing in use, the readers the PFB thread is pushing
\* to included: "Guard against a double free / use-after-free" (session.c).  It
\* does not hold: the processors go before the service is joined.
NothingFreedInUse ==
  /\ processors = "freed" => ~Alive(Workers) /\ ~busy
  /\ queues # "live" => ~Alive(QueueUsers)
  /\ dispatchers = "freed" => ~Alive(Threads)
  /\ queues # "twice"

TypeOK ==
  /\ mpc \in {"create", "spawn", "collect", "radio", "run", "destroy", "stop",
              "join", "device", "processors", "flags", "queues", "service",
              "joinservice", "dispatchers", "ended", "returned"}
  /\ phase \in 1 .. Len(Protocols) + 1
  /\ idx \in Nat \ {0}
  /\ mpc \in {"create", "spawn"} => idx <= NChannels
  /\ thread \in [Threads -> {"none", "running", "waiting", "exited", "joined"}]
  /\ worker_threads \in Seq(Workers \cup Collectors)
  /\ worker_count \in Nat

\* The strengthening of OnlyPfbUsesFreed: which threads session_destroy can name
\* until it has joined them, what it has joined so far, and what it has freed.
AfterJoin == mpc \in {"device", "processors", "flags", "queues", "service",
                      "joinservice", "dispatchers", "ended", "returned"}
ServiceGone == mpc \in {"dispatchers", "ended", "returned"}

JoinInv ==
  /\ ~AfterJoin => \A t \in Workers \cup Collectors :
       thread[t] # "none" => t \in ToSet(worker_threads)
  /\ ready /\ ~AfterJoin => worker_count = Len(worker_threads)
  /\ ~ready => worker_count = 0
  /\ mpc = "join" => \A i \in 1 .. worker_count :
       i < idx => thread[worker_threads[i]] = "joined"
  /\ ready /\ AfterJoin => \A t \in Workers \cup Collectors :
       thread[t] \in {"none", "joined"}
  /\ mpc = "collect" \/ (ready /\ ~ServiceGone) => svc_count = Cardinality(Service)
  /\ ready /\ ServiceGone => \A t \in Service : thread[t] = "joined"

StorageInv ==
  /\ ready => mpc \notin {"create", "spawn", "collect"}
  /\ torn_down = (AfterJoin \/ mpc \in {"stop", "join"})
  /\ processors = "freed" => AfterJoin
  /\ queues # "live" => ServiceGone \/ mpc \in {"service", "joinservice"}
  /\ queues # "twice"
  /\ dispatchers = "freed" => mpc \in {"ended", "returned"}
  /\ AfterJoin /\ mpc # "device" => device = "none"

IInv == TypeOK /\ JoinInv /\ StorageInv

\* session_destroy returns if all threads were created, or none: each join waits
\* for a thread that will see a flag, and nobody sleeps on what is destroyed.
\* (After another start it may wait for ever.  When the service could not be
\* started nobody sets the flag or wakes the workers, and the first of their
\* readers to be destroyed has a waiter; when a collector thread could not be
\* created the other one, not joined, may look at the flag after it was reset.)
DestroyReturns ==
  mpc = "destroy" /\ (ready \/ \A t \in Threads : thread[t] = "none")
    ~> mpc = "ended"
=============================================================================
