----------------------------- MODULE Collector ------------------------------
(***************************************************************************)
(* The event queue between the channel workers of one protocol and the     *)
(* thread that tracks and presents their packets                           *)
(* (src/core/service/collector.c): a ring buffer with a mutex and ONE      *)
(* condition variable on which the consumer waits for events and, in       *)
(* blocking mode, the producers wait for room.                             *)
(*                                                                         *)
(* One step is one critical section.  A thread inside pthread_cond_wait is *)
(* "waiting" until it is signalled (or times out), and then "awake" until  *)
(* it gets the mutex back: other threads may run in between.               *)
(***************************************************************************)
EXTENDS Integers, Sequences, FiniteSets

CONSTANTS
  Producers,  \* the channel workers of the protocol
  Capacity,   \* c->capacity
  MaxEvents,  \* bound: events one worker decodes
  Modes       \* what the owner may pass to collector_set_blocking

ASSUME CollectorAssumption ==
  /\ Capacity \in Nat \ {0}
  /\ MaxEvents \in Nat
  /\ Modes \subseteq BOOLEAN

NoEvent == <<>>
CollectorEvents == {<<p, n>> : p \in Producers, n \in 1 .. MaxEvents}
Slots == 0 .. Capacity - 1

VARIABLES
  buf, head, tail, count,  \* the ring: next write, oldest entry, entries
  dropped,     \* c->dropped
  blocking,    \* c->blocking
  ppc,         \* per producer: working, waiting, awake, done
  sent,        \* per producer, events it passed to collector_submit
  refused,     \* per producer, submits that returned -1
  cpc,         \* the consumer: popping, waiting, awake, handling, done
  popped,      \* events the consumer took
  shutdown,    \* *c->shutdown
  spc,         \* session_request_stop: 0 before, 1 flag set, 2 queue woken
  stored       \* history: events that got into the ring

ringVars == <<buf, head, tail, count, dropped, stored>>
producerVars == <<ppc, sent, refused>>
consumerVars == <<cpc, popped>>
controlVars == <<blocking, shutdown, spc>>
collectorVars == <<ringVars, producerVars, consumerVars, controlVars>>

CollectorInit ==
  /\ buf = [i \in Slots |-> NoEvent]
  /\ head = 0 /\ tail = 0 /\ count = 0
  /\ dropped = 0
  /\ blocking = FALSE
  /\ ppc = [p \in Producers |-> "working"]
  /\ sent = [p \in Producers |-> 0]
  /\ refused = [p \in Producers |-> 0]
  /\ cpc = "popping"
  /\ popped = 0
  /\ shutdown = FALSE
  /\ spc = 0
  /\ stored = 0

-----------------------------------------------------------------------------
(* The ring and the condition variable *)

Full_OffByOne == count > Capacity
Full == count = Capacity

NextSlot(i) == (i + 1) % Capacity

\* pthread_cond_broadcast, and pthread_cond_signal, which wakes any one of the
\* threads that wait, if there is one.  The threads are named by the sets of
\* producers and by whether the consumer is meant.
WakeAll ==
  /\ ppc' = [p \in Producers |-> IF ppc[p] = "waiting" THEN "awake" ELSE ppc[p]]
  /\ cpc' = IF cpc = "waiting" THEN "awake" ELSE cpc

Waiters == {p \in Producers : ppc[p] = "waiting"}

\* ppcNow is ppc with the step of the signalling producer itself.
WakeOne_Lost(ppcNow) == ppc' = ppcNow /\ UNCHANGED cpc
WakeOne(ppcNow) ==
  \/ cpc = "waiting" /\ cpc' = "awake" /\ ppc' = ppcNow
  \/ \E w \in Waiters : ppc' = [ppcNow EXCEPT ![w] = "awake"] /\ UNCHANGED cpc
  \/ cpc # "waiting" /\ Waiters = {} /\ ppc' = ppcNow /\ UNCHANGED cpc

-----------------------------------------------------------------------------
(* collector_submit, called by a channel worker for the packet it decoded *)

\* The entry is copied to the head of the ring and one waiter is signalled.
Store(p) ==
  /\ buf' = [buf EXCEPT ![head] = <<p, sent'[p]>>]
  /\ head' = NextSlot(head)
  /\ stored' = stored + 1
  /\ WakeOne([ppc EXCEPT ![p] = "working"])

SubmitRoom(p) ==
  /\ ppc[p] = "working"
  /\ sent[p] < MaxEvents
  /\ ~Full
  /\ sent' = [sent EXCEPT ![p] = @ + 1]
  /\ Store(p)
  /\ count' = count + 1
  /\ UNCHANGED <<tail, dropped, refused, popped, controlVars>>

\* Live: the oldest entry makes room.
SubmitOverOldest(p) ==
  /\ ppc[p] = "working"
  /\ sent[p] < MaxEvents
  /\ Full
  /\ ~blocking
  /\ sent' = [sent EXCEPT ![p] = @ + 1]
  /\ tail' = NextSlot(tail)
  /\ dropped' = dropped + 1
  /\ Store(p)
  /\ UNCHANGED <<count, refused, popped, controlVars>>

\* Exhaustive replay: wait for room, at most 50 ms at a time.
SubmitWait(p) ==
  /\ ppc[p] = "working"
  /\ sent[p] < MaxEvents
  /\ Full
  /\ blocking
  /\ sent' = [sent EXCEPT ![p] = @ + 1]
  /\ ppc' = [ppc EXCEPT ![p] = "waiting"]
  /\ UNCHANGED <<ringVars, refused, consumerVars, controlVars>>

Timeout(p) ==
  /\ ppc[p] = "waiting"
  /\ ppc' = [ppc EXCEPT ![p] = "awake"]
  /\ UNCHANGED <<ringVars, sent, refused, consumerVars, controlVars>>

\* Awake again, it gives the event up on shutdown even when there is room, and
\* looks at the ring otherwise.  It does not look at c->blocking again.
GiveUp(p) ==
  /\ ppc[p] = "awake"
  /\ shutdown
  /\ refused' = [refused EXCEPT ![p] = @ + 1]
  /\ ppc' = [ppc EXCEPT ![p] = "working"]
  /\ UNCHANGED <<ringVars, sent, consumerVars, controlVars>>

WaitOn(p) ==
  /\ ppc[p] = "awake"
  /\ ~shutdown
  /\ Full
  /\ ppc' = [ppc EXCEPT ![p] = "waiting"]
  /\ UNCHANGED <<ringVars, sent, refused, consumerVars, controlVars>>

SubmitAfterWait(p) ==
  /\ ppc[p] = "awake"
  /\ ~shutdown
  /\ ~Full
  /\ UNCHANGED sent
  /\ Store(p)
  /\ count' = count + 1
  /\ UNCHANGED <<tail, dropped, refused, popped, controlVars>>

\* The worker's loop ends after the block in which it saw the flag.
Leave(p) ==
  /\ ppc[p] = "working"
  /\ shutdown
  /\ ppc' = [ppc EXCEPT ![p] = "done"]
  /\ UNCHANGED <<ringVars, sent, refused, consumerVars, controlVars>>

CollectorSubmit(p) ==
  \/ SubmitRoom(p) \/ SubmitOverOldest(p) \/ SubmitWait(p)
  \/ GiveUp(p) \/ WaitOn(p) \/ SubmitAfterWait(p) \/ Leave(p)

-----------------------------------------------------------------------------
(* collector_pop and the collector thread's loop around it *)

\* What a pop wakes: the producers that wait for room.
PopWakes_One ==
  \/ \E w \in Waiters : ppc' = [ppc EXCEPT ![w] = "awake"]
  \/ Waiters = {} /\ UNCHANGED ppc
PopWakes ==
  /\ ppc' = [p \in Producers |-> IF ppc[p] = "waiting" THEN "awake" ELSE ppc[p]]

Pop ==
  /\ cpc \in {"popping", "awake"}
  /\ count > 0
  /\ tail' = NextSlot(tail)
  /\ count' = count - 1
  /\ popped' = popped + 1
  /\ cpc' = "handling"
  /\ PopWakes
  /\ UNCHANGED <<buf, head, dropped, stored, sent, refused, controlVars>>

PopEnd ==
  /\ cpc \in {"popping", "awake"}
  /\ count = 0
  /\ shutdown
  /\ cpc' = "done"
  /\ UNCHANGED <<ringVars, producerVars, popped, controlVars>>

PopWait ==
  /\ cpc \in {"popping", "awake"}
  /\ count = 0
  /\ ~shutdown
  /\ cpc' = "waiting"
  /\ UNCHANGED <<ringVars, producerVars, popped, controlVars>>

\* session_process_*_event: the registry and the presentation callback.
Process ==
  /\ cpc = "handling"
  /\ cpc' = "popping"
  /\ UNCHANGED <<ringVars, producerVars, popped, controlVars>>

SpuriousWakeup ==
  /\ cpc = "waiting"
  /\ cpc' = "awake"
  /\ UNCHANGED <<ringVars, producerVars, popped, controlVars>>

Consumer == Pop \/ PopEnd \/ PopWait \/ Process

-----------------------------------------------------------------------------
(* The owner: collector_set_blocking, session_request_stop *)

SetBlocking(b) ==
  /\ blocking' = b
  /\ WakeAll
  /\ UNCHANGED <<ringVars, sent, refused, popped, shutdown, spc>>

RequestStop ==
  /\ spc = 0
  /\ shutdown' = TRUE
  /\ spc' = 1
  /\ UNCHANGED <<ringVars, producerVars, consumerVars, blocking>>

\* collector_wake
Wake_Lost ==
  /\ spc = 1
  /\ spc' = 2
  /\ UNCHANGED <<ringVars, producerVars, consumerVars, blocking, shutdown>>
Wake ==
  /\ spc = 1
  /\ spc' = 2
  /\ WakeAll
  /\ UNCHANGED <<ringVars, sent, refused, popped, blocking, shutdown>>

CollectorNext ==
  \/ \E p \in Producers : CollectorSubmit(p) \/ Timeout(p)
  \/ Consumer \/ SpuriousWakeup
  \/ \E b \in Modes : SetBlocking(b)
  \/ RequestStop \/ Wake

CollectorSpec == CollectorInit /\ [][CollectorNext]_collectorVars

\* Threads that can run do, a timed wait ends, and a stop once begun goes on;
\* nobody has to stop, and no wakeup is spurious.
Fairness ==
  /\ \A p \in Producers :
       WF_collectorVars(CollectorSubmit(p)) /\ WF_collectorVars(Timeout(p))
  /\ WF_collectorVars(Consumer)
  /\ WF_collectorVars(Wake)

FairSpec == CollectorSpec /\ Fairness
-----------------------------------------------------------------------------
(* Correctness *)

CollectorTypeOK ==
  /\ buf \in [Slots -> CollectorEvents \cup {NoEvent}]
  /\ head \in Slots /\ tail \in Slots
  /\ count \in 0 .. Capacity
  /\ dropped \in Nat
  /\ blocking \in BOOLEAN
  /\ ppc \in [Producers -> {"working", "waiting", "awake", "done"}]
  /\ sent \in [Producers -> 0 .. MaxEvents]
  /\ refused \in [Producers -> Nat]
  /\ \A p \in Producers : ppc[p] \in {"waiting", "awake"} => sent[p] > 0
  /\ cpc \in {"popping", "waiting", "awake", "handling", "done"}
  /\ popped \in Nat
  /\ shutdown \in BOOLEAN
  /\ spc \in 0 .. 2
  /\ stored \in Nat

\* No lost wakeup, although producers and consumer share one condition variable
\* and a submit signals only one of them: a thread that waits unsignalled has
\* still nothing to do.  It rests on pop waking all, and on a producer never
\* waiting while the consumer does.
NoLostWakeup ==
  /\ cpc = "waiting" => count = 0
  /\ \A p \in Producers : ppc[p] = "waiting" => count = Capacity

\* Every event that got into the ring was taken, is still there, or is counted
\* in c->dropped.
Ledger == stored = popped + count + dropped

\* The queued events, oldest first: count entries from tail, around the end of
\* the buffer.  The next one goes to the slot behind the last of them.
Ring == [i \in 1 .. count |-> buf[(tail + i - 1) % Capacity]]
CollectorRingInv == head = (tail + count) % Capacity

\* The ring, the overwrite and the two kinds of waiting implement the queue:
\* first in first out, the newest survive, losses are counted.
Queue == INSTANCE EventQueue WITH
  Events <- CollectorEvents,
  Cap <- Capacity,
  events <- Ring,
  lost <- dropped,
  surfaced <- popped

ImplementsQueue == Queue!Spec

\* "Joined last so they drain any remaining events after the channel workers
\* have stopped producing" (session.c): nothing is left in the ring when
\* collector thread and workers are gone.
AllDone == cpc = "done" /\ \A p \in Producers : ppc[p] = "done"
DrainedAtTheEnd == AllDone => count = 0

\* A submit that waits for room returns.
SubmitReturns ==
  \A p \in Producers : ppc[p] = "waiting" ~> ppc[p] \in {"working", "done"}

\* What the workers submitted is taken from the ring, unless they are stopped.
EventsSurface ==
  (\A p \in Producers : sent[p] = MaxEvents) ~> (count = 0 \/ shutdown)

\* A stop request ends the collector thread and the workers.
StopEndsThreads == shutdown ~> AllDone
=============================================================================
