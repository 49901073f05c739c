----------------------------- MODULE GuiReceiver -----------------------------
(***************************************************************************)
(* The graphical receiver: the controller on the GUI thread, the worker    *)
(* thread it starts for a run, the two collector threads that turn decoded *)
(* events into rows, and the frame list the rows end up in.  Rows and the    *)
(* end of a run reach the GUI thread through its event queue.              *)
(***************************************************************************)
EXTENDS Integers, Sequences, FiniteSets

CONSTANTS
  Trampolines,  \* the collector threads of a run: ble, bredr or both
  ListCapacity, PendingCap,   \* s_capacity and s_pendingCap
  MaxRuns, MaxFrames          \* bounds on the runs and on the frames of all

ASSUME GuiAssumption ==
  /\ ListCapacity \in Nat \ {0} /\ PendingCap \in 1 .. ListCapacity
  /\ MaxRuns \in Nat /\ MaxFrames \in Nat

VARIABLES
  gui,       \* what the GUI thread is in the middle of
  running,   \* m_running
  session,   \* m_session: 0, or the number of the session it points to
  destroyed, \* history: the sessions handed to backend_session_destroy
  worker,    \* the thread m_thread owns: where it is, and on which session
  stop,      \* shutdown_requested of the current session
  dangling,  \* the storage session_destroy has freed and not yet forgotten
  count,     \* packet_count of the current backend session
  loaded,    \* per collector: the count it read and has not yet written
  events,    \* the GUI thread's queue
  frames, pending, flushing,   \* m_rows, m_pending, and the timer being active
  run, decoded               \* history: the runs and the frames so far

listVars == <<frames, pending, flushing>>
countVars == <<count, loaded, decoded>>
guiVars == <<gui, running, session, destroyed, worker, stop, dangling, countVars,
             events, listVars, run>>

NoThread == [pc |-> "none", session |-> 0]
NotLoaded == -1

GuiInit ==
  /\ gui = "idle" /\ running = FALSE
  /\ session = 1 /\ destroyed = {}
  /\ worker = NoThread
  /\ stop = FALSE /\ dangling = "nothing"
  /\ count = 0 /\ loaded = [c \in Trampolines |-> NotLoaded] /\ decoded = 0
  /\ events = <<>>
  /\ frames = <<>> /\ pending = <<>> /\ flushing = FALSE
  /\ run = 0

WorkerGone == worker.pc \in {"none", "ended"}

-----------------------------------------------------------------------------
(* The GUI thread *)

\* Mutant: the rows waiting for the timer survive.
Cleared_KeepsPending == frames' = <<>> /\ flushing' = FALSE /\ UNCHANGED pending

\* FrameListModel::clear
Cleared == frames' = <<>> /\ pending' = <<>> /\ flushing' = FALSE

\* Play: the list is cleared, and start() makes a session when the last run
\* took it away, joins a thread still there and starts a new one.
Play ==
  /\ gui = "idle" /\ ~running /\ run < MaxRuns
  /\ WorkerGone
  /\ Cleared
  /\ session' = IF session = 0 THEN Cardinality(destroyed) + 1 ELSE session
  /\ worker' = [pc |-> "called", session |-> session']
  /\ running' = TRUE
  /\ run' = run + 1
  /\ stop' = IF session = 0 THEN FALSE ELSE stop
  /\ count' = IF session = 0 THEN 0 ELSE count
  /\ UNCHANGED <<gui, destroyed, dangling, loaded, decoded, events>>

\* Play without a device, or without memory for a session: only the list is
\* cleared.
PlayRefused ==
  /\ gui = "idle" /\ ~running
  /\ frames # <<>> \/ pending # <<>>
  /\ Cleared
  /\ UNCHANGED <<gui, running, session, destroyed, worker, stop, dangling,
                 countVars, events, run>>

\* stop(): the flag is set, then the readers of the session are walked.
StopRequested(next) ==
  /\ stop' = IF session = 0 THEN stop ELSE TRUE
  /\ gui' = next
  /\ UNCHANGED <<running, session, destroyed, worker, dangling, countVars, events,
                 listVars, run>>

Pause == gui = "idle" /\ running /\ ~stop /\ StopRequested("signalling")
PauseAgain == gui = "idle" /\ running /\ stop /\ StopRequested("signalling")

\* pollDevices: once a second while running, the tables of the session are read.
Poll ==
  /\ gui = "idle" /\ running /\ session # 0
  /\ gui' = "polling"
  /\ UNCHANGED <<running, session, destroyed, worker, stop, dangling, countVars,
                 events, listVars, run>>

GuiReturns ==
  /\ gui \in {"signalling", "polling"}
  /\ gui' = "idle"
  /\ UNCHANGED <<running, session, destroyed, worker, stop, dangling, countVars,
                 events, listVars, run>>

\* FrameListModel::appendRow: enqueue, dropping the oldest row still waiting.
Enqueued(row) ==
  /\ pending' = Append(IF Len(pending) < PendingCap THEN pending ELSE Tail(pending), row)
  /\ flushing' = TRUE
  /\ UNCHANGED frames

RowArrives ==
  /\ gui = "idle" /\ events # <<>> /\ Head(events).kind = "row"
  /\ Enqueued(Head(events).row)
  /\ events' = Tail(events)
  /\ UNCHANGED <<gui, running, session, destroyed, worker, stop, dangling,
                 countVars, run>>

\* FrameListModel::flushPending: the rows waiting are moved to the list, and
\* the oldest of the list make room for them.
Flush ==
  /\ gui = "idle" /\ flushing
  /\ LET all == frames \o pending
         evict == IF Len(all) > ListCapacity THEN Len(all) - ListCapacity ELSE 0
     IN frames' = SubSeq(all, evict + 1, Len(all))
  /\ pending' = <<>> /\ flushing' = FALSE
  /\ UNCHANGED <<gui, running, session, destroyed, worker, stop, dangling,
                 countVars, events, run>>

\* Mutant: the run is left marked as running.
RunningAfter_Finish == running
RunningAfter == FALSE

\* onFinish: the worker is joined, the session destroyed and the run over.
Finish ==
  /\ gui = "idle" /\ events # <<>> /\ Head(events).kind = "finish"
  /\ WorkerGone
  /\ events' = Tail(events)
  /\ worker' = NoThread
  /\ destroyed' = destroyed \cup ({session} \ {0})
  /\ session' = 0
  /\ running' = RunningAfter
  /\ UNCHANGED <<gui, stop, dangling, countVars, listVars, run>>

\* The destructor: stop(), then the worker is joined; no event is handled
\* any more.
Quit == gui = "idle" /\ StopRequested("quitting")

\* Mutant: the worker is detached instead of joined.
Joinable_Detached == TRUE
Joinable == WorkerGone

QuitJoins ==
  /\ gui = "quitting" /\ Joinable
  /\ gui' = "closed"
  /\ destroyed' = destroyed \cup ({session} \ {0})
  /\ session' = 0
  /\ UNCHANGED <<running, worker, stop, dangling, countVars, events, listVars, run>>

-----------------------------------------------------------------------------
(* The worker: backend_session_run_* and the session_run inside it *)

WorkerAt(pc) == worker' = [worker EXCEPT !.pc = pc]

\* The counter starts over, then session_init clears the whole session, a stop
\* that came before it included.  It may fail, and so may the tuning.
WorkerInit ==
  /\ worker.pc = "called"
  /\ count' = 0
  /\ stop' = FALSE
  /\ \E pc \in {"ready", "failed"} : WorkerAt(pc)
  /\ UNCHANGED <<gui, running, session, destroyed, dangling, loaded, decoded,
                 events, listVars, run>>

\* The channels, the threads and the radio are started, or one of them fails.
WorkerStarts ==
  /\ worker.pc = "ready"
  /\ \E pc \in {"run", "teardown"} : WorkerAt(pc)
  /\ UNCHANGED <<gui, running, session, destroyed, stop, dangling, countVars,
                 events, listVars, run>>

\* The 50 ms poll; a live radio never ends by itself.
WorkerSeesStop ==
  /\ worker.pc = "run" /\ stop
  /\ WorkerAt("teardown")
  /\ UNCHANGED <<gui, running, session, destroyed, stop, dangling, countVars,
                 events, listVars, run>>

\* session_destroy joins the collectors, then frees the processors and the
\* tables; the pointers and counts to each are cleared a statement later.
Joined == \A c \in Trampolines : loaded[c] = NotLoaded

ProcessorsFreed ==
  /\ worker.pc = "teardown" /\ Joined
  /\ dangling' = "processors"
  /\ WorkerAt("processors")
  /\ UNCHANGED <<gui, running, session, destroyed, stop, countVars, events,
                 listVars, run>>

TablesFreed ==
  /\ worker.pc = "processors"
  /\ dangling' = "tables"
  /\ stop' = FALSE
  /\ WorkerAt("tables")
  /\ UNCHANGED <<gui, running, session, destroyed, countVars, events, listVars, run>>

TornDown ==
  /\ worker.pc = "tables"
  /\ dangling' = "nothing"
  /\ WorkerAt("returned")
  /\ UNCHANGED <<gui, running, session, destroyed, stop, countVars, events,
                 listVars, run>>

\* The thread posts onFinish and ends.
WorkerEnds ==
  /\ worker.pc \in {"failed", "returned"}
  /\ events' = Append(events, [kind |-> "finish"])
  /\ WorkerAt("ended")
  /\ UNCHANGED <<gui, running, session, destroyed, stop, dangling, countVars,
                 listVars, run>>

Worker == WorkerInit \/ WorkerStarts \/ WorkerSeesStop \/ ProcessorsFreed
            \/ TablesFreed \/ TornDown \/ WorkerEnds

-----------------------------------------------------------------------------
(* The collectors: the two packet trampolines *)

\* `++bs->packet_count` reads the counter...
NumberRead(c) ==
  /\ worker.pc = "run" /\ loaded[c] = NotLoaded /\ decoded < MaxFrames
  /\ decoded' = decoded + 1
  /\ loaded' = [loaded EXCEPT ![c] = count]
  /\ UNCHANGED <<gui, running, session, destroyed, worker, stop, dangling, count,
                 events, listVars, run>>

\* ...and writes it, unsynchronised with the other collector; the row is then
\* posted to the GUI thread.
RowPosted(c) ==
  /\ loaded[c] # NotLoaded
  /\ count' = loaded[c] + 1
  /\ loaded' = [loaded EXCEPT ![c] = NotLoaded]
  /\ events' = Append(events, [kind |-> "row",
                               row |-> [no |-> count', run |-> run, collector |-> c]])
  /\ UNCHANGED <<gui, running, session, destroyed, worker, stop, dangling, decoded,
                 listVars, run>>

-----------------------------------------------------------------------------
GuiHandles == RowArrives \/ Flush \/ Finish \/ GuiReturns

GuiNext ==
  \/ Play \/ PlayRefused \/ Pause \/ PauseAgain \/ Poll \/ Quit \/ QuitJoins
  \/ GuiHandles \/ Worker
  \/ \E c \in Trampolines : NumberRead(c) \/ RowPosted(c)

\* The threads run; the GUI thread handles its queue and finishes what it does.
\* What the user does, and what the radio hears, is not assured.
GuiFair ==
  /\ WF_guiVars(Worker)
  /\ WF_guiVars(\E c \in Trampolines : RowPosted(c))
  /\ SF_guiVars(RowArrives) /\ SF_guiVars(Finish) /\ WF_guiVars(GuiReturns)
  /\ WF_guiVars(QuitJoins)

GuiSpec == GuiInit /\ [][GuiNext]_guiVars
FairGuiSpec == GuiSpec /\ GuiFair

-----------------------------------------------------------------------------
(* Properties *)

\* While a worker thread exists, its session has not been destroyed, and nothing
\* of the controller goes away: a stop, a restart or the destructor always waits.
SessionOutlivesWorker ==
  ~WorkerGone => worker.session \notin destroyed /\ worker.session = session
                   /\ running /\ gui # "closed"

\* The list shows frames of the current run only, however the rows of the last
\* one were still queued, waiting for the timer, or being decoded when it was
\* stopped and the next one started; and never more than it has room for.
ListShowsThisRun ==
  /\ \A k \in DOMAIN frames : frames[k].run = run
  /\ \A k \in DOMAIN pending : pending[k].run = run
  /\ Len(frames) <= ListCapacity /\ Len(pending) <= PendingCap

\* A stop that reaches a running capture ends it: the controller is back to
\* not running, or closed.
StopIsObeyed ==
  (stop /\ worker.pc = "run") ~> (~running \/ gui = "closed")

\* "Blocks until backend_session_request_stop() is called": the destructor, which
\* has requested the stop, gets to the end of the worker.
StopEndsRun == (gui = "quitting") ~> (gui = "closed")

\* The device poll is "safe to call from the GUI thread while a capture runs":
\* it never reads tables that session_destroy has freed.
PollIsSafe == ~(gui = "polling" /\ dangling = "tables")

\* "Frame numbers are stable": a row is found again by its number, so no two
\* rows of the list have the same one.
FrameNumbersUnique ==
  \A j, k \in DOMAIN frames : frames[j].no = frames[k].no => j = k
=============================================================================
