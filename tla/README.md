# Optronic in TLA+

A TLA+ model of the Optronic sensor service (C++23, `src/`), checked with TLC and,
for the parts named below, proved with TLAPS. Every definition is translated from
the source; the mapping from definitions to lines is in `PROJECT.json` under `map`.

## 1. The system

`main.cpp` builds one process: an `App` that owns the order in which four components
come up and go down, and the threads those components run.

| Part | Source | State | Operations | Interacts with |
|---|---|---|---|---|
| SPSC ring | `framework/log/.../ring.hpp` | head, tail, slots | `try_push`, `try_pop` | one producer thread, one consumer thread, acquire/release atomics only |
| Logger | `framework/log/src/logger.cpp` | registered rings, drop and write counters, sink thread, mutex | `start`, `stop`, `log`, `drain_now`, destructor | every thread of the process; one ring per thread |
| App, SignalStop | `framework/app` | `started_`, `stop_requested_`, kicks, signal disposition | `start`, `stop`, `wait_for_stop`, `request_stop`, destructors | calls `init/start/stop` of components; the signal handler stores one flag |
| Service wiring | `main.cpp` | `pub_`, `pipeline_`, the telemetry worker, the NUC timer, the `--seconds` timer | `init/start/stop` of Log, Sensor, Video, Telemetry; sampling; callbacks | all of the others |
| Video pipeline | `modules/video/src/pipeline.cpp` | GStreamer graph, callbacks, bus thread, counters | `create`, `play`, `on_new_sample`, `dispatch`, `shutdown` | streaming thread and bus thread call back into the service |
| YOLO detector | `modules/detect/src/yolo.cpp` | one-slot mailbox, last detections, inference thread | `process` (`offer`), the worker, `last`, destructor | called by the streaming thread |
| Telemetry publisher | `modules/telemetry/src/publisher.cpp` | client, `running_`, `warned_` | `construct`, `start`, `publish_*`, `stop`, `on_connect` | libmosquitto's network thread; a broker with a last will and a retained message |
| NUC and ISP block | `modules/sensor/.../nuc.hpp`, `framework/hal/src/isp_model.cpp` | SHUTTER, NUC_ACC_CTRL, NUC_TABLE registers; deadlines | `run_nuc` | register reads and writes, the clock |
| HAL access, UIO | `framework/hal` | mapped registers, device node | `read32`, `write32`, `wait_irq` | the kernel; UIO is not used by the service yet |
| Launch description, handles, errors | `modules/video/src/factory.cpp`, `gst_ptr.hpp`, `framework/core` | none | pure functions, RAII, `std::expected` | |
| Configuration, control protocol, health monitor, time sync | `docs/03, 05, 06, 12` | | | specified, no code yet |

What is hard in it: six kinds of thread (main, the log sink, the telemetry worker,
GStreamer's streaming thread, the bus thread, the inference worker, with two timers
beside them) on a lock-free ring, three mutexes, one condition variable and some
plain members; startup that may fail at any component; a stop request at any moment;
a teardown that is a chain of joins; hardware that answers late or never, polled
against a clock; a connection that comes and goes. The places where this bites are
listed at their lines under `hazards` in `PROJECT.json`.

What makes each part correct:

* ring: two sides never in one slot, first-in first-out, refusal only when full, everything accepted is taken;
* logger: every record is a line or a counted drop, one consumer, nothing left behind, stop returns;
* App: dependency order up and down, the right components rolled back, nothing stopped twice;
* service: no thread uses a component after its end, the last retained health is OFFLINE, no join deadlocks, exit in bounded time;
* NUC: the shutter opens again whatever fails, the table read is this NUC's, deadlines bound the call;
* video: a lost frame is counted, a late one is dropped rather than delivered, a broken
  graph is noticed, nothing runs inside the object when `shutdown` has returned;
* detector: whole frames, accepted frames are inferred on, what is reported never goes back,
  the capture never waits for an inference;
* publisher: a unit that is gone is not shown as OK, one that is there is; a payload ends inside its buffer.

## 2. The modules

| Module | Models | Extended by |
|---|---|---|
| `LogChannel` | what the ring promises: a bounded FIFO whose producer may know less than the truth | |
| `SpscRing` | `try_push`, `try_pop`; implements `LogChannel` | `SpscRingProofs`, `MCSpscRing` |
| `Logger` | the logger on rings of which it counts the records; implements `LogChannel` per thread | `LoggerProofs`, `MCLogger` |
| `App` | App, SignalStop, and main's frame around them | `Service`, and with it `ServiceProofs` |
| `Service` | main with four components and five more threads; extends and implements `App` | `ServiceProofs`, `MCService` |
| `Shutdown` | the same teardown in time | `ShutdownProofs`, `MCShutdown` |
| `Nuc` | `run_nuc` and the block | `NucProofs`, `MCNuc` |
| `Pipeline` | the frame path, the bus thread, `play` and `shutdown` | `PipelineProofs`, `MCPipeline` |
| `Mailbox` | what the detector's threads promise each other: one slot | |
| `Detector` | the asynchronous detector and what `on_frame` reads of it; implements `Mailbox` | `DetectorProofs`, `MCDetector` |
| `Publisher` | `Publisher::Impl`, libmosquitto's thread, the broker | `PublisherProofs`, `MCPublisher` |
| `Detections` | the buffer of `publish_detections` | `MCDetections` |

Definitions preceded by "Mutated" are deliberate mistakes: each stands beside the
definition it would replace, and TLC must find a property violated when it does.
They are part of no specification.

### How state and actions correspond to the code

**SpscRing.** `write` and `read` are the two atomics, `readSeen` and `writeSeen` the
values the other side has last loaded: an acquire load returns any value between the
last one seen and the true one (`Between`), which is what per-variable coherence
leaves open. Admission, copy and release are separate steps, so the two `memcpy`s may
overlap if the tests let them. Indices live modulo `Modulus`, the model's 2^64.
`Refuse` in `LogChannel` says exactly when `false` may be answered: when there was no
room at the producer's latest look.

**Logger.** `log()` is call, registration (first call only), push, and count when the
ring refused. `drain_now` is lock, pop, write, next ring, return, on behalf of the
sink or of the owner; `report_drops` sums under the mutex and prints outside. `unwritten`
is a ghost: the calls of a thread that are not a line of the file. It and the code's counters
wrap; `written_`, which only `stats()` shows, is left out. A ring is reduced
to how many records it holds (`queued`) and how many taken ones its thread does not know
of (`unseen`): an acquire load may be stale on either side. A thread may be refused by a
ring that has room (`Look` catches up with the sink), and a drain may go on to the next
ring without having seen the newest records, except for the last one: whoever logged is
done before the destructor begins. That this is a ring is the proof that it implements
`LogChannel`, which `SpscRing` implements from below. The sums of `report_drops` are
taken from the counters as they are. One logger exists at a time, its owner destroys it when nobody is in `log()`, and one
thread owns `start`, `stop`, `drain_now` and the destructor, as in `main.cpp` and the
tests.

**App.** `pc` follows `main`, `at` the loop of `start`, `count` the loop of
`stop_through`; `comp[i]` is what component i holds. The destructor runs after the
components are destroyed, as the declarations in `main` order it.

**Service.** Every step of main is a conjunction with a step of `App`, or a step inside
a component's `init/start/stop` that `App` does not see (`step`). The other threads go
through their bodies at the grain at which they touch what another thread changes: the
test of the optional `pub_` and its use are two steps, as are the sampler's read of
`pipeline_` and its use. What `gst_element_set_state(NULL)` waits for, and that
callbacks cannot begin once detached, is modelled from how `pipeline.cpp` relies on it.

**Shutdown.** Each thread is the number of ticks left of its sleep, wait or work. A
tick passes only when nobody has something due, so the model measures the waits of
the code and not the scheduler. The inference worker is not there before the first frame,
waits 100 ms at a time for a frame, or infers; main's `notify_all` ends its wait or, falling
between its predicate and its wait (`Detector` has these as steps), does not.

**Nuc.** Each register access and each look at the clock of `run_nuc` is a step; ticks
fall anywhere between them. The block has the read and write side effects of
`isp_model.cpp`; how long a move or an accumulation takes is any of a set, and the
shutter may jam. `heldUp` is a ghost: some time went by in this NUC otherwise than
between two polls. With `StickyDone` the block behaves as the register map documents
it (DONE is cleared by writing 1) instead of as `isp_model.cpp` does.

**Pipeline.** Three threads: the streaming thread in `on_new_sample` (`callback`), the bus
thread in its loop (`busThread`), and the owner in `play` or `shutdown` (`control`). A frame
is the number of captures since its own, so that the leaky queue of the launch description
and the delay of a frame are one number (`queue`, `age`). Whether a transform, a sink or
the appsrc succeeds is free, a message may be posted at any time, and the graph may break
at any time, also while `play` waits for its state. GStreamer is external: that
`set_state(NULL)` waits for the streaming thread and flushes the bus is modelled from how
`shutdown` relies on it. `stats()` changes nothing and is left out; its three relaxed loads
may be of three moments, so nothing is claimed of what it returns.

**Detector.** The two mutexes and the condition variable are explicit: predicate, release
and sleep are separate steps, a notification wakes only a sleeper, the timed wait ends
by itself. A frame is copied in two halves, which suffices to see a torn one.
`try_lock` may fail for no reason, as the standard allows. Results are numbered in the
order in which the worker stores them; `on_frame` asks for the list, for its size and for
the time in three calls, between any of which the worker may store a new one. The slot of
`Mailbox` is the two halves of the buffer while `pending` says so, the work is the worker's
copy from the take until `pending` is cleared.

**Publisher.** `wire` is the stream to the broker, of which any suffix may be lost with
the connection; the broker publishes the will when a session ends without DISCONNECT,
immediately on a take-over and at the keepalive otherwise, even after the next
connection has begun to be made. Only the retained health topic is followed; events
matter where they fail, for the warning.

**Detections.** A text is its length; `snprintf` returns the length it would have needed.

## 3. The runs

| Run | Instance | Question | States |
|---|---|---|---|
| `ring` | capacity 2, indices mod 4, two records | slot race, FIFO, consumption | 4 thousand |
| `logger` | two threads, rings of 1, counters mod 3 | accounting through every order of the owner's calls, liveness | 113 thousand |
| `service` | four components, kicks mod 2 | lifecycle, lifetimes, teardown, liveness of the stop | 17 thousand |
| `service_publisher` | same | `pub_` used while main resets it | stops at the violation |
| `shutdown` | periods of 1 to 5 ticks chosen to overlap in every order | bound of the exit | 19 thousand |
| `shutdown_two` | ticks of 100 ms, the code's periods | the two seconds of SRS-LC-02 | stops at the violation |
| `nuc` | ticks of 50 ms: 3, 8; moves of 1, 3, 4; accumulations of 2, 8, 9; 3 entries | all of `run_nuc` | 26 thousand |
| `nuc_sticky` | same, sticky DONE | the documented block | stops at the violation |
| `pipeline` | queue of 2, 2 frames, 3 messages | frames, messages, `play` and `shutdown` in every order | 311 thousand |
| `detector` | two frames that recur, two results | the one slot (`Mailbox`), mutexes, reports, teardown, liveness | 12 thousand |
| `publisher` | 5 packets in flight | what a monitor sees | 21 thousand |
| `detections` | the buffer of 2048, lengths of real objects | the tail of a truncated list | stops at the violation |

Bounds, and why they are enough. The ring's and the logger's counters wrap, so the number
of records is unbounded in those runs; two slots and four index values let each index lap
the other's stale view, and a one-record ring is full after every push. In `logger` one
thread logs without end, and the other makes its first call at any moment and no second one
(`Chatty`): it may have to wait for the mutex while the sink empties the first one's ring,
and then brings a second ring and a second counter into the loops. A counter modulo 3 lets
a missed or doubled record be seen; that the accounting holds for any number of threads,
each logging as often as it likes, is proved. The service has
exactly the four components of `main`; which of them fails, and whether the timers
exist, is chosen freely. In `nuc` the times are in time, just in time and too late with
respect to each timeout; `MaxElapsed` (20, above the 14 the deadlines allow) only stops
the count, for a thread that is held up for ever. In `shutdown` each period is as small
as leaves a difference between any two ways they overlap; a missed notification
after the longest NUC makes the exit as late as the bound says. `MaxWire` 5 leaves room for a
lost connection's remains, a CONNECT and a clean end behind them; when it is full the
client does not send (guard `Room`), which loses no order of events. In `pipeline` captures
are unbounded (the ages are bounded by the queue and `Fresh`); two counted frames let a
drop and a success follow each other, `MaxFrames` and `MaxMessages` bound what is counted
and posted, and three messages let one wait for the bus thread behind each kind of other.
In `detector` `MaxResults` (2) stops the numbering, so that the list, its size and its time may each be of
another result. `detections` takes sequence numbers of one to
six digits and objects of the lengths the formats give.

CHECK_DEADLOCK is left on everywhere: where the system rests for good (`Gone`, `Exited`,
...) the specification has an explicit stuttering step.

Fairness.

* ring: both sides finish what they began; the consumer keeps polling (the sink loop does).
* logger: threads that can step do. Strong fairness on the mutex for a registration and a
  drain: the sink releases it after each drain and sleeps a millisecond when there was
  nothing. A sink that keeps looking at a ring sees what is in it sooner or later (strong
  fairness of its pops): an atomic store becomes visible in finite time. Where only one of
  several steps can be taken at a time, a thread's one registration or the sink's two locks,
  they share a condition.
  Nobody is obliged to log, and the liveness properties assume that the threads
  fall silent (`Quiet`): without it `drain_now` need not return, see below.
* service: every thread runs; sleeps and timed waits end. No signal, frame or bus message
  has to come.
* shutdown, nuc: threads run and the clock goes on; `nuc` is not assumed to be prompt
  except where `heldUp` says so.
* pipeline: the streaming thread, the bus thread and a call of the owner that has begun go
  on; a callback returns. Nobody has to capture, to play or to stop.
* detector: threads run, timed waits end. Strong fairness for the worker's lock of the
  results (`StoreLock`), which the streaming thread holds only for a moment per frame.
  Nothing is assumed of an inference; the properties that need its end say so.
* publisher: the unit's threads run as long as it is powered; the broker processes what it
  has received and notices a silent client. The connection may fail for ever.

### Where the code departs from its documents

Four runs end in a violation, each of what a document or a comment says:

* `service_publisher`: pub_ is tested and used on the NUC and streaming threads and reset
  on main (`main.cpp:490-514`; docs/02:44 "never shared mutable state without a documented
  owner"). `OwnThreadsInLife` is what does hold: the threads telemetry and video own are
  joined in time.
* `shutdown_two`: the teardown may take longer than 2 s (docs/01:5). `ExitBound` is the
  bound the code has.
* `nuc_sticky`: DONE of the previous NUC is taken for this one's on a block as documented
  (docs/04:25).
* `detections`: the room left for the closing brackets is 16 characters, the tail has 19 or
  20 (`publisher.cpp:245-258`): a list that fills the buffer is sent without its end, and
  with a length of the buffer's 2048 (terminator included) or more. The other payloads are far shorter than their buffers.

Met while modelling and without a run of their own, because they follow at once from a
line: the first log call of a thread allocates and may wait on a mutex (`logger.cpp:76-90`;
`record.hpp:62`); drops after the sink's last report are never printed
(`logger.cpp:56-60`; docs/07:11); a full ring drops the newest record where docs/07:10
speaks of the oldest; SignalStop leaves SIG_DFL instead of the previous handlers
(`app.cpp:90-94`; `app.hpp:73`); the three deadlines of a NUC add up to 700 ms against
the 600 of docs/04:42; `play()` returns ok when the state change is still under way after
three seconds (`pipeline.cpp:67-73`); the end of a NUC may be announced to nobody
(`main.cpp:270-296`);
`App::start` alternates init and start, so that video streams before telemetry is
initialised, where `component.hpp:25-26` says threads never run against uninitialised peers; a frame period of
a source above a million frames per second is zero and `stride()` divides by it
(`yolo.cpp:329`).

## 4. The proofs

Checked by TLAPS for every value of the constants that satisfies the `ASSUME`s of the
modules (a capacity that divides the index modulus, counters wider than a ring, finite
or infinite sets of threads and frames, any timeouts).

* **SpscRingProofs**: `IInv` is inductive: the four indices stay in their order around the
  circle and span at most the capacity (`ViewsInOrder`). `NoSlotRace` follows because two
  indices closer than the capacity have different slots (`SlotDistinct`). `Implements`
  maps each step to a step of `LogChannel` or a stutter, so the ring's behaviours are the
  FIFO's (its safety part, `Channel!Safe`).
* **LoggerProofs**: `IInv` adds to the accounting who may hold the mutex, that records lie
  only in registered rings, that what a thread has not seen leaves its ring within its size,
  that nobody logs during the destructor, and that rings already visited by the last drain
  stay empty: `Accounted` alone does not say why the destructor leaves nothing.
  `RingsAreChannels`: for each thread, `Ring(t)!Safe` of `LogChannel`. The channel remembers
  the answer to the last `try_push` and the logger does not, so the theorem is about the
  logger with a history variable beside it (`RecordedSpec`, whose steps are the logger's own).
  With `SpscRing`'s `Implements` this closes the gap between the two models: what `Logger`
  assumes of a ring is what the code of the ring provides, but for the records' identity,
  which `Logger` does not tell apart.
* **ServiceProofs**: `Shape` says what every position of main implies for every component; the
  four properties of the lifecycle of `App` follow for any number of components.
  `Composition`, SSpec => Spec of `App`. The only step that is not obviously
  one of `App`'s is the `--seconds` thread calling `request_stop`; the invariant `Hooked`
  says it lives only while the handlers are installed. The lifecycle theorems carry over.
  `SIInv` adds which step of a component main can be in, given where `App` is
  (`StepsInOrder`), and what each component's state says of its threads
  (`FollowsComponent`): from it follow `OwnThreadsInLife`, `OfflineLast` and `NoThreadLeft`,
  for any order of the threads' steps.
* **NucProofs**: the position in `run_nuc` determines the shutter and what is known of the
  accumulation (`ShutterFollows`, `TableFollows`). `OwnTable` assumes a block whose START
  clears DONE, the assumption `nuc_sticky` shows to be needed. `InTime`: as long as the
  thread is not held up, each wait has used no more than its own timeout
  (`TimeFollows`). `NoAlarm`: while main waits for the shutter, the time left of the move
  and the time left to the deadline go down together (`MoveFollows`), so a shutter that is in time is
  never reported.
* **ShutdownProofs**: each wait of main ends before the sum of the waits up to it
  (`WaitsEnd`), hence `Bounded`. The last wait is the end of an inference that began before
  the pipeline was down, or the rest of an idle worker's timed wait, which counts from the
  end of the NUC: two bounds, of which `Work` is the longer.
* **PipelineProofs**: `IInv` says that the queue holds the latest frames without a gap
  (`Latest`), where the owner can be while the bus thread lives (`BusThreadLives`), and
  that nobody can be called after the state change (`Silenced`). `EachCounted`, `NotLate` and `Left` follow
  for a queue of any size and any number of frames and messages.
* **DetectorProofs**: which mutex is held where, and what the mailbox and the worker's copy
  hold (`Locks`, `Contents`); whole frames, reports that never go back (`Forward`), and no
  overwriting as an action property. `Implements` maps each step to a step of `Mailbox` or a
  stutter: `Post` accepts, `Take` takes, `Clear` is done; it rests on the worker's copy
  equalling the mailbox until `pending` is cleared. It says more than `Whole` and `Kept`:
  each accepted frame is taken once.
* **PublisherProofs**: `BackedOK` is not inductive, for a DISCONNECT on the wire may arrive
  while OK is retained. `IInv` says why it does not leave that OK behind: the will is set
  before the first packet (`WillFirst`), nothing follows a DISCONNECT (`DisconnectLast`), and
  once the client has said OFFLINE on a live connection, or its DISCONNECT is on its way,
  every OK retained or under way has an OFFLINE or a CONNECT behind it (`OfflineFirst`,
  `TakenBack`): an OFFLINE overwrites it, a CONNECT makes the broker publish the old will.
  `Backed` and `Warned` follow for any number of packets and callers.

The inductive invariants were model-checked before they were proved; a run lists one
only where the mutants show that it says something the run's other properties do not.

Only model-checked: all liveness, since TLAPS proves neither a leads-to under fairness nor
ENABLED; `Implements` of the ring is the safety part of what the `ring` run checks for the
same reason. Every safety property and every action property of a passing run has a theorem.

## 5. Not modelled, and the plan

Not modelled: text of records, topics and payloads, but for the length of the detections;
command-line parsing; launch strings, but for the leaky queue; pixels and caps; the
arithmetic of the network's output; register types; UIO; data races as torn values (where
one exists, the property that excludes it is checked instead); a second logger or publisher
in the process; the rings of ended threads, which the logger keeps; a handler still running
when the guard ends; the reference counts of GStreamer buffers; documents without code.

Smaller simplifications within the modules, none of which changes what the properties say:
in `Pipeline` a graph has its appsrc and its queue leaks at the downstream end (`Fresh` is
about that queue; one that does not leak holds the source up instead), and the test of the
stop token and the timed pop of the bus are one step, as they are in `Service`; in `Nuc` the
command to close and the computation of its deadline are one step, and FAULT, which a
write to SHUTTER clears, may be there again at once; `Detector` leaves out the answer
`error` for empty data, which changes nothing, and the `stride()` that `on_frame` logs
last, of which `ReportsForward` says nothing; `Publisher` leaves out a construction that
fails, after which there is no session. In `Detections` a frame has fewer than a thousand objects.

Order of the work, first what carries the most behaviour:

1. Done: `LogChannel`/`SpscRing`, `Logger`, `App`, `Service`, `Nuc`, `Shutdown`, `Detector`,
   `Publisher`, `Pipeline`, `Detections`, with their runs; the proofs of section 4.
2. Next: `Sensor`, the CTRL, IRQ, timestamp and power-on BIT registers of the ISP block with
   SensorService's `init/start/stop`, composed with `Nuc`. The synchronous mode and the
   pacing of the detector. A composition of `Pipeline` and `Detector`.
3. Then: an abstract specification of what a monitor sees of a unit, and `Publisher` shown
   to implement it; the records of `LogChannel` told apart in `Logger`.
