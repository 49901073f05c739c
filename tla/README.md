# supertooth: a formal model

supertooth receives Bluetooth Low Energy and classic Bluetooth (BR/EDR) with a
software radio, or from a recorded capture: one wide stream of samples is cut
into channels, each channel is demodulated by a thread of its own, and the
packets are correlated into devices and connections. The program is a pipeline
of threads connected by bounded queues, and its correctness is a question of
who may touch which block, who wakes whom, and in which order everything stops.

This directory holds TLA+ specifications of the program, TLC configurations
that check them, and TLAPS proofs. Paths below are relative to `src/src/core`
unless they start with `src/`.

## The system

```
 radio callback / file reader            (one producer)
        |  rf dispatcher
   DDC thread per lane                   channelizer_service.c
        |  sub dispatcher
   PFB thread per lane
        |  out dispatcher
   channel workers (one per channel)     ble_/bredr_channel_processor.c
        |  collector, one per protocol   collector.c
   collector threads -> registries -> presentation callbacks
 
 main thread: session_run / session_destroy; anyone: session_request_stop
```

| Component | State | Operations | Hard behaviour | What makes it correct |
|---|---|---|---|---|
| sample dispatcher (`radio/sample_dispatcher.c`) | pool of blocks with atomic reference counts, per reader a ring of block pointers under a mutex | acquire, push (dropping / blocking), next, release, can_push, all_free, reset | lock-free reuse of blocks; checks that are acted on later; condition variables and stop | a block in use is never refilled; every loss is counted; replay loses nothing; nobody sleeps for ever |
| event collector (`service/collector.c`) | ring buffer, drop counter, mode, one condition variable | submit, pop, wake, set_blocking | producers and consumer share one condition variable; timed wait; mode switch; stop | bounded FIFO, newest events survive, no lost wakeup |
| channelizer service (`service/channelizer_service.c`) | lanes, 2 dispatchers each, 2 threads each | init (lane plan), start, stop, the two thread loops | backpressure through a chain of bounded buffers; failures in start | no deadlock; every stage empties |
| session (`service/session.c`) | threads, flags, device, processors, collectors, counters | run, request_stop, destroy, tune, set_ble/set_bredr, getters | teardown while threads run; failures half way; stop at any moment; second destroy | nothing freed while used, every thread joined, destroy returns |
| channel processors (`service/*_channel_processor.c`) | decoder and demodulator of a channel, its reader; latched time stamp and RSSI of a packet | worker loop, emit | a block is held until its packets are submitted; packets span blocks and holes | a packet's time and strength are its own |
| lane plan (`session_tune`, `channelizer_service_init`) | rate, centre, lanes, bins, views | tune, descriptors | two grids, several lanes, odd windows; front ends clamp on their own | a tuning accepted is a tuning served |
| DSP (`dsp/`) | samples carried from block to block | execute | positions across carries and losses; the rest is numeric | stamps stay close to the truth |
| file replay (`radio/file.c`) | position, stop and finished flags, thread | open, configure, start, stop, is_finished | EOF versus stop; pacing | ends, and says so after its last push |
| HackRF, bladeRF (`radio/hackrf.c`, `radio/bladerf.c`) | device handle, sample clock | callbacks, tune, gain | the sample clock advances over drops | |
| BLE registry (`protocol/ble/ble_registry.c`) | connections (at most 512), tally of access addresses, devices | submit, add_device, snapshots | promotion, CRC candidates, eviction, stale links between tables | only proven links are shown as such; proven ones stay; tables agree |
| BR/EDR registry and link (`protocol/bredr/bredr_registry.c`, `bredr_link.c`) | links, per link a time-ordered ring; members | submit, add_packet, idle reset | events out of order, full ring, clocks that wrap | members agree with their connection; times run forward |
| RSSI tracker (`models/rssi_tracker.c`) | ring of frames | add, average | several sources, ring order is not time order | the mean is of one source and one window |
| BR/EDR clock recovery (`bredr_clock_recovery.c`) | UAP and CLK candidates, tracking state, drift suspicion | acquire, track, reset | sequences of hits and misses; two flags that should agree; lengths at their limits | a clock is adopted on proof, the true one survives |
| decoders and codecs (`protocol/*/*_bitstream_decoder.c`, `*_codec.c`) | bit history, state, buffers | push_bit, decode | resynchronisation, candidates inside candidates, lengths at their limits | nothing hidden is lost; what is shown was on the air |
| GUI (`src/src/apps/gui`) | controller with a worker thread per session, frame list, device table | start, stop, onFinish, poll; setRows, sort, clear | stop, restart and quit racing the end of a session; rows still queued | the worker never outlives its session; lists show this run |
| CLI (`src/src/apps/cli`) | options, views | SIGINT handler, tuning | | |

`PROJECT.json` lists every component with its status, and under `hazards` each
place in the code where a test would hardly reach, with the properties that
cover it.

## Modules

| Module | Models | Extends / uses |
|---|---|---|
| `SampleStream` | the dispatcher's promise: per reader a bounded FIFO of chunk values | |
| `SampleDispatcher` | `radio/sample_dispatcher.c` and the producer loops around it | implements `SampleStream` |
| `EventQueue` | the collector's promise: a bounded FIFO, drop-oldest or wait | |
| `Collector` | `service/collector.c`, the workers' submits, the collector thread | implements `EventQueue` |
| `ReplayPipeline` | an exhaustive replay end to end: file reader, DDC, PFB, channel workers, collector, `session_drain_exhaustive` | composes dispatchers and a collector |
| `BredrLink` | one BR/EDR connection: the link, the recovery of its UAP and clock, and what `bredr_registry_submit` does to them | |
| `Session` | `session_run`, `session_destroy`, `session_request_stop` and the life of the threads | |
| `Tuning` | from a requested window to the readers: `session_tune`, the lane planner, descriptors, views, the clamps of the front ends | |
| `LaneStamps` | one lane: what DDC and bank carry over, where their blocks lie on the radio's clock, losses | |
| `BleFraming`, `BredrFraming` | the two bitstream decoders with their channel processors | |
| `BitVectors` | words as sets of bit positions, whitening | |
| `BleCodec` | `ble_codec.c`: whitening, CRC and its reversal, frames, the information gathered from advertisements | `BitVectors` |
| `BredrCodec` | `bredr_codec.c`: coding, whitening, HEC, payloads, `bredr_decode_frame` | `BitVectors` |
| `BredrVerdicts` | what a packet says about a candidate clock, with the eSCO masks | `BredrCodec` |
| `FirstSightTally` | the bounded tally both registries promote from | |
| `BleRegistry`, `BredrRegistry`, `RssiTracker` | the tables the decoded packets end in | `FirstSightTally` |
| `GuiReceiver` | the receiver controller, its worker thread, the row trampolines, the frame list | |
| `DeviceList` | the device table model: polls, sorts, clears | |
| `SampleDispatcher_proofs`, `Collector_proofs`, `ReplayPipeline_proofs`, `BredrLink_proofs` | theorems about the module of that name | |
| `Registries_proofs` | theorems about `FirstSightTally`, `BredrRegistry`, `RssiTracker` and `BleRegistry` | |
| `FrontEnd_proofs` | theorems about `BredrFraming`, `Tuning` and `LaneStamps` | |
| `Codecs_proofs` | theorems about `BredrCodec`, `BredrVerdicts`, `BleCodec` and `BleFraming` | |
| `Application_proofs` | theorems about `Session`, `GuiReceiver` and `DeviceList` | |
| `MC*` | small instances for TLC | `MCApplication`, `MCRegistries`, `MCRings`, `MCFrontEnd` and `MCCodecs` each run several independent modules: a behaviour begins with the choice of one |

### SampleDispatcher

State: `refcount`, `content` (the number of the chunk copied into the block, in
place of its samples), `nextIdx`; per reader `queue` (the ring from `read_idx`,
`count` entries), `held` (`view_held`), `dropped`; `poolDropped`. The rest are
program counters: `ppc` of the producer, `rpc` of each reader, `spc` of the
thread in `session_request_stop`, `dpc` of the one in
`session_drain_exhaustive`. `last` and `taken` are history.

One step is one atomic access: a load of one reference count (`ScanBlock`,
`DrainLook`), one increment or decrement (`ClaimBlock`, `PushAcquire`,
`PushRefused`, `Release`, `ReleaseHeld`), or one critical section of a reader's
mutex (`CanPush`, `TryPush`, `Pop`, `Wait`, `PopShutdown`, `Signal`). The wait
on a condition variable is the state `waiting`; a signal, or a spurious wakeup,
moves it back to `popping`, where the predicate is looked at again. The look at
the stop flag and the wait are one step because the signaller takes the reader's
mutex after it has set the flag, and the flag is read with the mutex held.

`Exhaustive` chooses the blocking helpers (`acquire_blocking`,
`push_blocking`). The producer's loop is that of `radio/file.c`; the DDC and PFB
threads use the same calls in the same order, and so do the radio callbacks but
for the look at a stop flag.

### Collector

One step is one critical section of `c->mutex`. A thread in `pthread_cond_wait`
is `waiting`; signalled or timed out, it is `awake`, and others may run before
it has the mutex again. `pthread_cond_signal` wakes any one of the threads that
wait, `WakeOne`, whether producer or consumer: this is where a shared condition
variable can go wrong. Events are pairs of worker and sequence number.

### ReplayPipeline

A blocking push and acquire, established by `SampleDispatcher`, are single steps
here, so that the composition fits: `Push` delivers to all readers of the
dispatcher or waits, `Acquire` waits for a block nobody refers to. A PFB makes
0..`Split` blocks of one block (sub-chunks of `max_in` samples), a worker
0..`Packets` events. `Probe` looks at one stage of `session_drain_exhaustive` at
a time. After a stop no new block is taken up: what happens then is the subject
of the other modules.

### Session

`mpc` walks through `session_run` and `session_destroy`, one statement group per
step; `thread` says for each worker, collector thread and service thread whether
it was never created, runs, sleeps on the condition variable of its queue, has
left its loop, or is joined. `processors`, `queues`, `dispatchers` are the
storage that is freed; the readers of the channel workers are part of the
processors, and the PFB thread, while it is `busy` with a block, pushes to them.
`pthread_cond_destroy` on a variable somebody waits on is undefined; what glibc
makes of it is modelled: `FreeProcessors`, `FreeQueues` and `FreeDispatchers` wait
until nobody sleeps there (`Waiting`). `RequestStop` wakes whom the code signals
(`StopReaches`): the readers of processors that still exist, those of the
service once it runs, the collectors. Every kind of failure the start can meet
is in `Failures`. The race between the look at the flag and the wait is
`SampleDispatcher`'s and `Collector`'s subject: `Wait` is one step here.

### BredrLink

State: `link`, the fields of `bredr_link_t` that decide anything (the ring with
its head and fill, UAP, clock, confidence, drift, candidates, packet counts per
role) and the registry's `last_clkn`. The one action, `Submit`, is
`bredr_registry_submit` from the idle test to the return of
`bredr_link_add_packet`, for a connection that exists; the registry's lock makes
it atomic, and any event may come at any time, because every channel's worker
hands its packets to the collector on its own. The functions of
`bredr_link.c` and `bredr_clock_recovery.c` are operators from a link to a link,
under the names of what they do: `Insert`, `Solve`, `Acquire`, `Track`, `Recover`,
`AddPacket`.

A frame is what the recovery can learn from it, clock by clock: the UAP its HEC
yields, the LT_ADDR it reads, and the verdict of header and payload checks.
The verdict is chosen by the environment here; how it comes about, with the
eSCO masks that `apply_esco_lt_addr_rule` keeps from packet to packet, is in
`BredrVerdicts`. Time is in quarters of
a slot, so that the two roundings of a start sample, to slots (`RxClk`) and to
half slots (`Clkn`), differ. `heard`, `lastHit` and `fed` are history for the
properties.

### Tuning

`Tune` is `session_tune` on a window that a front end (`GuiTune`, `CliTune`) or
nobody in particular asks for; `OpenChannels` is `session_create_channels` with
the service's lane plan. Lanes, spans, centres, bins, strides, view sizes are
operators on the tuning, in MHz and half MHz, at the real rates, band limits
and block capacity: nothing is scaled down but the set of counts asked for.

### LaneStamps

A radio sample is its index. A lane sample stands for the `Decim` radio samples
it was computed from and a frame of the bank for its lane samples, so blocks,
carries and frames are flat sequences of indices cut at multiples of `Decim` and
`FrameSpan`. `DdcRuns` and
`BankRuns` are one call of `ddc_stage_execute` and one turn of the PFB worker's
inner loop; `RadioBlockLost`, `LaneBlockLost` and `BankGivesUp` are the three
places where live losses happen. `mixed` and `unsent` are history: how many
frames straddle a loss, and what was lost.

### BleFraming and BredrFraming

A step is `push_bit` and what the channel worker does with the outcome. The
fields of a packet keep their order and their tests and lose their width: two
bits of preamble, three of access address, and so on, so that every stream of
that length can be tried; the constants name the widths of the code. `dec` and
`air` are the decoder structures, `pktStart`, `proc` the fields of the channel
processors. `Turn` is one turn of the loop of `ble_drain`, `Waits` where it
returns, `Drained` the loop; that `MaxTurns` turns are enough is a lemma
(`DrainKeeps`). `Parse` is the reference the frames are compared with: `Scan`
looks at one offset of the whole stream after another, and goes past an
advertisement, or by one bit past anything else. `BredrFraming` also has the blocks of the stream and the holes
between them, since stamps are computed from block positions.

### Codecs

Words are sets of bit positions, so that sums over GF(2) are symmetric
differences; the polynomials, tables and lengths are the real ones. The
properties of the linear codes are checked on sums of one and two unit words,
which decide a linear identity. A payload is its length and what the checks on
it find. In `BleCodec` an advertisement is a sequence of small numbers; UUIDs of
32 and 128 bits are `Uuid32Bytes` and `Uuid128Bytes` of them, which keeps their
order, 2 < 3 < 4. All twelve types of structures that list UUIDs are there, lists,
solicitations and service data of each width, with the marks they set. A
128-bit UUID of the Bluetooth base, which the code files as the 16-bit one it
stands for (`ble_uuid128_base_alias`), is one that ends in 0, and its short form is
its first two bytes: the fourteen bytes the code compares are not spelled out.
Of the values an advertisement may carry the flags stand for all: the last one
of an advertisement counts, the first one of a device. `Walk` is the loop of
`ble_adv_parse_info`, one structure per step.

`BredrVerdicts` gives, per packet type, the set of verdicts `verify_payload_crc`
can return for a packet with a given capture length, payload length and checks;
more than one where the code reads an uninitialised or foreign byte, or where a
length search may match by chance. `CheckPacket` is a candidate's turn in
`solve_uap_clock_candidates`.

### Registries

One action per kind of event: `SubmitJunk`, `SubmitAdv`, `SubmitData`,
`AddDevice`; `SubmitLap`, `AddStandalone`; `TrackerAdd`. Each is the whole
function under the registry's lock. Sequence numbers only order rows, so the
tables are kept in that order. For a fixed PDU the checksum is a bijection of
the CRCInit, so a data frame is the CRCInit under which it verifies. `Heard`
is history: who proposed which CRCInit, and whether another frame verified it.
`BredrRegistry` takes from the link only the outcome for the table, left open.

### GuiReceiver

The GUI thread is `gui`; its Qt event queue is `events` (rows, then the end of
the run). `Play`, `Pause`, `Quit` are the user; `Play` requires that the worker
is gone because `start()` joins it. The worker walks through
`backend_session_run_*`: `WorkerInit` is `session_init` with its memset,
`WorkerStarts` the creation of channels and threads, and the teardown is split
where it frees (`ProcessorsFreed`, `TablesFreed`, `TornDown`; `dangling` is what
is freed and still pointed to). `NumberRead` and `RowPosted` are the halves of
`++bs->packet_count` on the collector threads.

### DeviceList

`SetRows` is the whole of `DeviceListModel::setRows`: the three ways it updates
the table (in place, by removals and inserts, as a whole), the series and the
rates it carries over by id, and the pruning of what it remembers. The
comparison of `lessThan` is `LessThan`, with its order inside a piconet. A sort is
written by ranks (`Arranged`: a row's place is the number of rows before it)
rather than by a fold, so that it can be reasoned about. `InsertArrivals` is the
walk of step 4a: it meets the survivors only as long as they follow each other
as in the rows to come, and leaves the others at the end, which is what
`SurvivorsOrdered` is checked for first. Labels and times are numbers.

## Checks

Every run that passes explores its whole state space. Each property is also
checked against a plausible slip in the code (the operators named
`Definition_Slip`, listed in `PROJECT.json` under `mutants`): TLC finds each of
them.

| Run | Instance | Shows |
|---|---|---|
| `dispatcher_live` | 3 blocks, queues of 2, 2 readers, 4 chunks | no overwrite, losses charged, implements `SampleStream`, a stop ends every thread |
| `dispatcher_replay` | the same with 5 chunks, blocking | nothing dropped, `all_free` conclusive, a replay ends |
| `rings` | the collector with 2 workers of 3 events each, ring of 2, mode switched at any time; one link with a ring of 3, 6 clocks, 5 packets of 16 kinds | no lost wakeup, the collector implements `EventQueue` with its count of losses, events surface, a stop ends all; a link's ring keeps the latest packets in order, no header is forgotten by the acquisition, and clocks are adopted and moved only as the sightings allow |
| `pipeline_deep` | 1 lane, 2 workers, `Split` 2 | the drain returns only when everything is idle, and no deadlock under backpressure |
| `application` | a hybrid session of 2 workers each, every step of the start may fail; the GUI with 2 runs, 4 frames, lists of 2; a table of 5 entities, 3 polls, sorts or clears | the PFB thread is the only user of what is freed, nothing is freed twice, `session_destroy` returns; the worker never outlives its session, the list shows this run, a stop is obeyed; the table is in order and each history its device's own |
| `registries` | 6 BLE events, 3 access addresses, table of 2, tally of 2; 4 BR/EDR packets, 2 LAPs, clock modulo 8; 4 frames in a ring of 3 | tables agree, only proven CRCInits are shown, proven connections stay, a link heard often enough is promoted, members agree, times run forward, the mean is of one window |
| `frontend` | 28 counts on both grids and three modes; a lane with decimation 2 and 36 samples; 17 BLE bits; 19 BR/EDR bits with 2 holes; the codecs with their real codes, all packet types, every interesting length | framing finds what a parse of the whole stream finds; stamps are a packet's own; what is accepted is served, what is offered is accepted; positions survive losses; codes are inverted, what is shown was on the air, merges add up, verdicts are sound |
| `verdicts`, `gui_stop`, `gui_poll`, `session_free`, `keeps_acquiring` | see Findings | statements the code does not keep |

The bounds are chosen so that the interesting cases occur: more chunks than the
pool and any queue hold, so indices wrap, pools exhaust and queues overflow;
fewer blocks than the queues can reference together, so a slow reader starves
the pool; two readers, because a block's count is then shared between a fast and
a slow one; two workers on the collector, because a wakeup is only lost when the
thread signalled may be the wrong one of several (and any number of them in the
proof). Two workers behind a PFB that makes two blocks of one, because the PFB
then waits for room while it holds a block; one lane, because that the drain
asks for all of them is proved. In `BredrLink` 5 packets fill a ring of 3 and
overwrite it, or lock a clock, raise, lose and regain it; the clocks are 6 so
that a clock, its four neighbours and one more are distinct; the frames are a
packet of the connection, one whose clock is a slot ahead, one that a payload
check settles but whose HEC also validates at a second clock, one with errors
and one with no header; the starts are two adjacent slots and two after a
silence longer than `IdleReset`, off the slot boundary. (The two frames nothing
is learned from come at the second start and at the last only.)

In `registries` three access addresses compete for two slots and two places in
the tally, and six events promote one (three sightings), verify it and evict
another; the receive clock has 8 values, so that three starts reach across its
wrap. In `frontend` 17 bits hold a packet inside a false candidate inside
another one, and 19 a packet, a hole and a second packet; the counts asked for
are the smallest and largest of each grid, the limits of the radios, and each
parity in between; three block sizes are below, at and above what a frame
needs. Three advertisements of thirteen kinds are merged: each type of list, more
UUIDs of one width than the two places a list has, short UUIDs in long form, a
structure cut off; the same advertisement may come again. The packets of the
connection in `BredrVerdicts` are all a connection may send (`MaySend`), with each
outcome of the checks on the payload. In `application` the lists hold fewer rows than a run has frames, and
two runs are one more than the session that `ReceiverController` starts with.
Access addresses and CRCInits are symmetric in `registries`: nothing orders or
combines them. Lengths (`Max...`, `Packets`, `Split`) are bounds of the model,
not of the program.

`CHECK_DEADLOCK FALSE` stands where the system really stops: all threads have
returned, the window is closed, a live reader waits for a producer that has
nothing more to send, or a bound on inputs is reached.

### Fairness

Weak fairness for the steps of each thread: the operating system schedules a
thread that can run, a mutex is eventually granted, a `nanosleep` or a timed
wait ends. Nothing is assumed about whether anyone requests a stop, about
spurious wakeups, or about the drain timeout. Once begun, a stop request goes
on. A timeout of a blocking submit is fair because the code bounds it by 50 ms.
In `Session` the run loop need not end: only the teardown is fair. In
`GuiReceiver` the worker and the collectors run, and the GUI thread handles its
queue: strongly fair for the arrival of a row and the end of a run, because
they wait while it handles something else. What the user does and what the radio
hears is not assured. `MCApplication` conjoins the fairness of its parts; it is
vacuous in those that do not run. `MCRings` states the fairness of `Collector` for
the behaviours that exercise it.

## Findings

Five statements do not hold of the code; each has a run whose counterexample
shows it.

1. `verdicts`: not "each ACL/FHS payload type" confirms a clock
   (`src/tests/bredr/test_recovery_btbb_parity.c:663`). The payload header of DM1,
   DM3, DM5 and DV is decoded from 12 or 24 bits, which the 2/3 decoder refuses
   (`bredr_clock_recovery.c:240`), so they never do, and a DM1 prunes the true
   clock; the length search for EV4 never starts (447, 476); a DH5 of more than
   300 bytes is checked against bytes behind a local array (390).
2. `gui_stop`: a stop requested before the worker reaches `session_init` is erased
   by its `memset` (`service/session.c:78`); the destructor of the controller, whose
   comment expects the run to end promptly, joins a capture nobody ends.
3. `gui_poll`: the device poll is not "safe to call from the GUI thread while a
   capture runs" (`src/src/apps/gui/backend/backend_api.h:323`) to the very end of it:
   the registries are freed on the worker thread without their lock.
4. `session_free`: `session_destroy` does not "guard against a ... use-after-free"
   (`service/session.c:813`). It frees the channel processors with the readers
   inside them (857-873) before it joins the service threads (891), and a PFB
   thread that is in the middle of a block goes on pushing to those readers
   (`radio/sample_dispatcher.c:298`). The comment at 889 ("request_stop already set
   the flag") holds of the threads that looked at the flag before 878 cleared
   it again.
5. `keeps_acquiring`: an acquisition with no valid clock does not "leave state
   unchanged and let acquisition accumulate more packets" (`bredr_clock_recovery.c:915`):
   the solver has set `uap_valid`. If the clock was known before an idle reset,
   which clears `uap_valid` and leaves `clk_known` (80-95), the link counts as
   tracked again, at an offset nothing has confirmed. `LockIsProved` names this
   one case as its exception (`LeftKnown`).

Further statements of comments are in the modules as properties that do not
hold, next to the definitions they are about. They have no run of their own;
each is refuted when it is added to the configuration of its module.

- `DrainedAtTheEnd` (`Collector`): collector threads do not "drain any remaining
  events after the channel workers have stopped producing"
  (`service/session.c:606`). They leave at the first empty moment after a stop
  request, and events of workers still busy stay in the ring.
- `NoOrphans` (`Session`): a collector thread that cannot be created tears the
  session down with `worker_count` still 0 (`service/session.c:613`): running
  workers are not joined, and what they use is freed. Hence the word "ready" in
  `OnlyPfbUsesFreed`: it speaks of sessions whose start came as far as the radio.
  Such a `session_destroy` may not even return: after a service thread that
  cannot be created nobody sets the flag or wakes the workers, and the
  destruction of the first reader's condition variable waits for its sleeper;
  after a collector thread that cannot be created, the other collector may look
  at the flag when 878 has cleared it again, and sleep on. `DestroyReturns` is
  therefore about sessions whose threads were all created, or none.
- `RoutedByItsClock` (`BredrLink`): the direction of a packet does not always
  come "from the recovered central clock for this packet" (`bredr_link.c:236`).
  A packet that validates only at a neighbouring clock is accepted while the
  drift waits for confirmation, and its role and LT_ADDR are then read with the
  clock it did not validate at.
- `HintIsFollowed` (`BredrLink`): the fall-back to "the candidate closest to the
  recovery backend's clock-offset hint" (`bredr_clock_recovery.c:895`) compares
  clocks with an offset.
- `NothingLost` (`BleFraming`): "a real packet embedded in noise (or a false
  candidate) is never lost" fails when more candidates end within one false
  candidate than the decoder's queue holds. `BleReceives` speaks of streams in
  which nothing was lost that way.
- `WindowIsContiguous` (`BredrFraming`): `sw_window` does not run on while a
  packet is collected, so for 64 bits after a packet an access code would be
  compared with bits from before it.
- `HintIsStable` (`BleCodec`): the "+N more" total grows with every
  advertisement that is heard again, since each stored 128-bit UUID is counted
  before it is looked up (`ble_codec.c:512`).
- `FrameNumbersUnique` (`GuiReceiver`): two collector threads increment
  `packet_count` without a lock; two rows may have the same number.

Three comments about verdicts disagree with the code in ways `VerdictsAreSound`
states on the code's side. "HV1/HV2/HV3 reserve FLOW/ARQN/SEQN as 0, so any of
those bits set indicates a malformed (or mis-clocked) header"
(`bredr_clock_recovery.c:156`): type 7 is EV3 as well (45, 597), whose ARQN and SEQN
mean something, and such a packet removes the clock it was sent at (`SpeaksAgainst`).
"HV1 with uncorrectable FEC errors: hard prune"
(`src/tests/bredr/test_recovery_btbb_parity.c:723`) and the "hard-negative privilege" of
HV1 (`bredr_clock_recovery.c:577`): the majority vote of `bredr_fec_decode_1_3`
(`bredr_codec.c:662`) returns a count of errors and refuses only a length that is
no multiple of three, never 240 bits, so `VerifyHv` never says 0. And an FHS
packet spoiled on the air removes the true clock, since an FHS whose checks fail
speaks against it (615).

Seen by reading only: `uap_valid` is not "cleared on tracking loss" (`bredr_link.h:88-91`), only
`clk_known` is; `last_seen` is not the time of the "most recently added packet"
(`bredr_link.h:201`) when that one came late, but of the one that started last; a
channel worker that cannot be created is not "fatal"
(`service/session.c:485`, the loops at 587-594 only break); the total and the
breakdown of the drops are not "snapshotted at the same point"
(`service/session.h:173`); `backend_session_run_ble` clamps the channel count
to 40 and not to what the radio sustains, as `backend_api.h:178` has it;
windows of two BR/EDR channels are captured at the smallest rate the planner
has, so that neighbours of the window are served as well.

## Proofs

TLC checks an instance; the theorems hold for every value of the constants.

**SampleDispatcher** (`SampleDispatcher_proofs`), for any `NBlocks`, `QueueCap`,
`NReaders`, `MaxChunks`, both modes, assuming only `DispatcherAssumption`:

- `TypeCorrect`: types, by one case per action.
- `RefcountCorrect`, `FillIsExclusive`, `SamplesAreStable`. The count is exact
  only because a reader refers to a block at most once (`Cardinality` of the set
  of readers then counts references), and that holds because a reader still to be
  offered the producer's block does not refer to it, which in turn needs the
  count to be exact when the scan finds it 0. `OwnershipInv` states these
  together with `RefcountExact`; the look at the count and its increment are two
  steps, and between them `OwnershipInv` keeps the count at 0, because only
  someone who already refers to a block can add a reference.
- `BlockingNeverDrops`: `RoomInv` strengthens it. The prefix of the queues
  `can_push` has seen keeps its room, since only this producer fills them, and
  while `push_block` runs the suffix still to be served has room.
- `NoSilentLoss`: `LossIsCounted` with `OfferedInv`, which says that the loop
  over the readers is never cut short except when the producer is stopping.
- `InvariantHolds` puts these together: `IInv`.
- `AllFreeMeansAllDone` (`DrainedIsComplete`): the scan of `all_free` reads one
  count after the other while readers work. `DrainInv` says that a block it has
  passed stays free, since the producer has ended and only a reference breeds
  references; so when it has passed all, no queue holds anything.
- `DispatcherIsStream` (`ImplementsStream`): every step is one of `SampleStream` or
  none. `OrderInv` identifies the chunks in a queue with the next ones to be
  taken, and `OwnershipInv` lets the claim of a block for the next chunk change
  no queue.

**Collector** (`Collector_proofs`), for any `Capacity`, `Producers`, `Modes`:
`TypeCorrect`, `LedgerBalances` and `NoWakeupIsLost`. The last is inductive given
the types. Consumer and producers never wait at once, since the one waits only
on an empty ring and the others only on a full one (`OneKindWaits`, which needs
`Capacity > 0`); so the single signal of a submit, when the consumer waits, can
only reach the consumer (`WakeOneConsumer`), and a submit cannot happen while
the ring is full except over the oldest entry, which leaves it full.
`CollectorIsQueue` (`ImplementsQueue`): the ring, from `tail` on, is the sequence of
`EventQueue`; with `CollectorRingInv` (`head` is `count` places after `tail`) each critical
section appends at its end, takes its head, replaces its oldest, or leaves it.

**ReplayPipeline** (`ReplayPipeline_proofs`), for any lanes, channels, pool and
queue sizes, assuming only the module's assumption on its constants:
`TypeCorrect`, `DrainHolds`, `DrainIsComplete`. `session_drain_exhaustive` looks
at one stage after the other, so the answer for the first is old when it looks
at the last. It is conclusive because a stage found idle stays idle
(`ProbedStaysIdle`): nothing upstream of it is left to feed it. That in turn
needs `HeldWhileWorking`: a thread lets go of a block only when everything made
of it has been pushed, so work in flight always shows in some reference count or
queue. `DrainInv` is the two together and is inductive with the types;
`QuietIsComplete` is its consequence when the last stage has been looked at.

**Session** (`Application_proofs`), for any protocols, numbers of channels and
sets of failures: `DestroyLeavesOnlyPfb` (`OnlyPfbUsesFreed`). It says who may still
use what is freed: the PFB thread the readers inside the processors, as the run
`session_free` shows it does, and nobody anything else. `JoinInv` says what the
joins have reached at each point of `mpc`: the threads recorded before it are
joined, and all workers, collectors and service threads are in the records;
`StorageInv` ties what is freed to the point after the joins, and the second
`session_destroy` to `torn_down`.

**GuiReceiver** (`Application_proofs`), for any capacities, any number of runs,
frames and collector threads, assuming only `GuiAssumption`:
`WorkerHasItsSession` (`SessionOutlivesWorker`) and `ListIsOfThisRun`
(`ListShowsThisRun`). Neither is inductive. A session the controller makes anew
must differ from all it has destroyed, hence `Sessions`: the destroyed ones are
1..n, and the current one is n+1 or none. That no row of the last run reaches
the list of the next one is a matter of the queue between the threads, hence
`Queue`: the end of a run is the last event in it and is posted only after the
worker has ended; the worker has ended only after the collectors were joined;
so between runs the queue is empty and nobody is in the middle of a row.
`GuiInv` is these with the types and the second property; every action keeps it.

**DeviceList** (`Application_proofs`), for any entities, readings, columns and
length of the series, assuming only `DeviceListAssumption` (ids are unique; a
piconet has one LAP, and one row per role and LT_ADDR): `TableStaysOrdered`
(`TableIsOrdered`) and `HistoriesFollow` (`HistoryFollowsDevice`), over `DeviceSpec`.
The argument for the order: the keys `lessThan` compares, column by column, are
seven integers compared lexicographically (`LessIsLower`), which needs that rows
of one piconet share a LAP, or the order would not be transitive; so "before, or
equal and earlier" is a strict total order on positions, ranks in it are a
bijection (`RanksAre`), and the sorted table has no inversion (`SortedIs`). That a
piconet is one block with its connection first follows from the keys
(`ShownIsTree`). A poll that takes the insert path ends with the same rows as one
that replaces the table (`InsertIsNext`), because survivors in the right order
are all met (`AllAreMet`). `DeviceInv` says for each row that it has the history
of its own device, the last readings of it and the counter before.

**BredrLink** (`BredrLink_proofs`), for any ring size, number of clocks, frames
and resets: `SurvivorsAlwaysAgree`, `ConfidenceIsKnowledge`, `RingIsLatest`
(`WindowIsLatest`), `AdoptedIsProved` (`LockIsProved`) and `OneNeverMoves`
(`TwoToMove`). `LockIsProved` looks at every step by which a link comes to be
tracked or a tracked clock moves, resets included, and has the one exception
`LeftKnown`. `Submit` is a chain of functions on a link, and each has a lemma
that states its outcome (`SolveOutcome`, `AcquireOutcome`, `TrackOutcome`,
`ScanOutcome`, `StepOutcome`) and which fields it leaves alone (`SameRing`,
`SameRecovery`); the invariant `LinkInv` (types, `RingInv`, `TrackInv`, `DriftInv`,
`SurvivorsAgree`) is kept by their composition. The ring arithmetic is done once
with positions `At(head, fill, p)`: insertion by time moves the younger packets
up by one and leaves a sequence in order, whether or not it is full. The loops
that search (the place of insertion, the nearest clock) are the least number
with a property.

**BredrRegistry, FirstSightTally** (`Registries_proofs`), over `LapSpec`:
`RowsAgreeWithConnections` (`MembersAgree`) and `ShownTimesRunForward`
(`TimesRunForward`). `bredr_registry_submit` changes the connection first and its
member row afterwards; `SoundBut(t, i, r)` is the state between, where all agree
but one role of one connection, and each helper takes it there or back to
`Sound`. `TimesInv` needs the clock to stay below half its range, as `clk_to_ms`
does, and states that first and last times are ordered whichever of the
packets was submitted first.

**RssiTracker** (`Registries_proofs`), over `RssiSpec`: `MeanIsOfWindow`
(`MeanOfWindow`). The scan goes backwards through the ring and stops at the first
frame of the latest one's source that is too old (`LeastNat`); `RssiInv` says that
the ring holds the frames added last.

**BleRegistry** (`Registries_proofs`), over `BleSpec`, assuming only
`BleRegistryAssumption` on constants and events: `BleTablesAgree` (`TablesAgree`),
`ShownIsProven` (`ShownAreProven`), `FirstSightsKept` (`NothingForgotten`) and
`ConfirmedStay` (`ProvenStay`). `BleInv` is `BleSound` (rows of both tables, ids,
links and the tally agree) with `HeardRight` (a row's confirmation against what
was heard since the row exists). That the tally forgets nothing is a pigeonhole
argument: it keeps the addresses in the order of their last frame, so the one
put out has at least as many others behind it as there are places (`Kept`,
`TailKept`). For the eviction, `WeakestExists` shows that the order in which
`conn_victim_index` compares rows has a least one, and `LeftRightly` that a
confirmed row goes only when all are confirmed.

**BredrFraming** (`FrontEnd_proofs`), over `AirSpec`, for any air, blocks and
holes: `StampsAreOwn` (`StampIsItsOwn`). `LatchInv` follows the time stamp and the
RSSI that the processor latches at the sync word through the collection of the
packet, over blocks and holes.

**Tuning** (`FrontEnd_proofs`), over `TuningSpec`, with the real rates and bands:
`TunedIsDelivered` (`TuningDelivers`) and `OfferedTunes` (`OfferedIsAccepted`), for
every window, mode and front end, and any maximum rates up to 80 MHz.
`LaidOut` records where an accepted window lies; `Service(g, l, h)` is one of the
few shapes of grid, lanes and bins the planner has, and in each a centre and its
bin determine each other (`BinInverse`, `OneBinEach`). The second theorem has a
hypothesis, `RatesFit`: every maximum rate is at least 4 MHz and not exactly 79.
The code does not check this; it holds because the radios it supports sustain
20 and 80 (`MaxRate`). With a maximum of 79 MHz the whole band would be offered,
laid out at 80, and refused.

**LaneStamps** (`FrontEnd_proofs`), over `LaneSpec`, for any factor of decimation,
frame, chunk, sizes of blocks and bounds: `LaneKeepsTime` (`LanesKeepTime`).
`LanesKeepTime` looks at the last block emitted and at totals; `LaneInv` says what
makes the next one right. A lane block is stamped such that from index `Decim`
on its samples are the stamp plus their place (`Stamped`): what the DDC carried
over may come from before a loss, and is less than one lane sample. Both carries
are shorter than an output (`CarriesAreShort`). All that is under way, bank
carry, rest of the block held, DDC carry and the next sample of the radio, is
one sequence (`Pending`), and a place where it skips is paid for by a loss:
`mixed` plus the number of such `Breaks` is at most `gaps` (`SkipsAreLosses`). A
frame cut from it takes its breaks with it and is spoiled if it has any; a
dropped block joins two breaks, or makes one and adds a gap. That a frame
without a break lies less than a frame before its stamp follows from the
lengths of the carries.

**BredrCodec** (`Codecs_proofs`): `ShownIsOnAir` (`ShownWasOnAir`), for every
number of bits captured, length field and outcome of the checks (`FramePackets`).
It speaks of an input of `bredr_decode_frame`, not of a behaviour. `DecodedWasOnAir`
bounds the bytes decoded by the bits captured at each rate of coding, `WholeCapture`
computes for every type what a full capture decodes to, `AclReported` and
`SyncReported` bound what is reported by what was decoded.

**BredrVerdicts** (`Codecs_proofs`), over `VerdictSpec`, for any packets and sizes
of the buffers: `VerdictsHold` (`VerdictsAreSound`). `PayloadSays` lists, type by
type, which verdicts `verify_payload_crc` can reach: one that confirms needs all
bits of the payload, and a negative one takes a DM1, which the finding
`TruthIsConfirmed` is about, or an FHS packet that its checks refuse; the header
alone refuses an EV3 with flags. `VerdictInv` adds what the proof
turns on and the code does not say: no eSCO packet ever confirms (their checks
return at most "likely"), so the mask of LT_ADDRs seen in eSCO packets stays
empty and `apply_esco_lt_addr_rule` never refuses a packet.
`BredrVerdictsAssumption` is about the connection, not the code, and only about
what it may send (`MaySend`): a peripheral neither broadcasts nor sends POLL or
FHS, and HV1 and HV2 have no flags. What happens to a packet on the air is open.

**BleCodec** (`Codecs_proofs`), over `InfoSpec`, for any data and capacities:
`AdvertisementsAddUp` (`AdvertisementsMerge`). What a recursive function computes
takes an induction, and the library's induction theorem cannot be used (it has
an operator as parameter), so two facts about sets of numbers replace it:
`Induct`, from the least element (`LeastNat`), and `Iterates`, by which a function
that goes through `m` steps exists. With them `Walking` and `Adding` unfold the
loops over structures and UUIDs one step at a time. The walk goes forward past
what it takes (`WalkForward`, `StructuresApart`). `Holds` says what a list is to
what was heard of its family: no element twice, none that was not heard, and
none missing unless the list is full; which ones a full list has depends on the
order they came in. A list grows by what it has room for (`Grows`), which
composes (`GrowsOn`) over UUIDs, structures and advertisements. The merge adds
lists that were parsed before: their UUIDs have their short form and stand in
the list of their family (`SoundInfos`), so that adding them again files them
the same way.

**BleFraming** (`Codecs_proofs`), over `FramingSpec`, for any bits, any widths of
the fields and any size of the queue: `FramesReceived` (`BleReceives`), the frames
and the window together. The decoder sees a bit at a time and forgets; the scan
it is compared with sees the whole stream, but a longer stream must not change
what was decided on a shorter one. `FollowsFrom` says so: for every
continuation of the stream, the scan comes to where the buffer begins, and has
then found the frames taken and queued. With it `FramingInv` has `Placed`, the
buffer is the rest of the stream from there, `Staged`, what each state has
already found out of the buffer, and `Covered`, that the window begins before
the preamble ends of every frame queued or still to be cut. That the buffer decides like the stream is `PreambleAgrees` and
its siblings; that a rescan passes over nothing but rejected offsets is
`Resumes`; `Measure`, four per buffered bit and one per state, falls with each
turn, so the loop has ended after `MaxTurns`. `CutIsParse` is the conclusion: when
the decoder waits, the scan finds nothing more. `FramingBounds` is all that is
asked of the constants.

The specifications `LapSpec`, `BleSpec`, `RssiSpec`, `AirSpec`, `TuningSpec`,
`LaneSpec`, `VerdictSpec`, `InfoSpec`, `FramingSpec`, `DeviceSpec` are what the runs' specifications, which choose
among several modules, do to the variables of the one module.

Only model-checked, and why:

- Liveness: `ENABLED` and fairness are outside TLAPS's reach.
- `CodesInvert`: what folds and recursive
  functions compute for every input, again induction over data, which the
  installed provers do not offer. The codes are linear, so that the check on
  their unit words decides them.

## Not modelled, and abstractions

- Samples, demodulation, filter coefficients, RSSI arithmetic: numeric code on
  data. The BCH arithmetic of the sync word is a table from windows to LAPs.
- `protocol/ble/bt_assigned_numbers.c` (5 025 lines) is tables of names, and the
  display helpers (`ble_display.c`, `bredr_display.c`), the views and summaries
  of the command line (`cli_modes.c`, `app_*.c`) and the QML files are layout and
  text: a model of them would be the text again. Of the CLI only the tuning it
  resolves is in `Tuning`; its signal handler is `RequestStop`. By reading:
  `backend_api.c` passes the name of a 16-bit service, which may be null, to `%s`.
- Device control and file parsing (`hackrf.c`, `bladerf.c`, `radio_common.c`,
  `wav.c`, opening and pacing of `file.c`) is I/O; the callbacks are the live
  producer loop of `SampleDispatcher`.
- `sample_dispatcher_t.dropped_blocks` and the readers' counters are plain
  integers read by other threads (a data race); they are modelled as atomic, and
  the figures of the drop breakdown are left out of `Session`.
- `session_request_stop` is one step in `Session`. The command line calls it in its
  signal handler, where the locks it takes (those of readers and collectors)
  may be held by the very thread that was interrupted: that deadlock is not
  modelled. In `GuiReceiver` it takes time,
  and it can walk readers of processors the worker has freed (`gui` is
  `"signalling"` while `dangling` is `"processors"`); nothing states the contrary, so
  it is listed as a hazard only.
- `sample_dispatcher_reset` and the registration of readers happen before the
  threads start.
- Memory allocation fails only where `Failures` says so; it does not fail in the
  registries.
- PDU fields that are only shown (names, appearance, company data, BR/EDR header
  flags) are not in the codecs.

## Further work

The abstract set of confirmed links the BLE registry implements; live losses of
all lanes together with their counters.
