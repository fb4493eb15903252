# Aethon: a TLA+ model of the collector and the objects around it

Aethon collects radio telemetry from remote devices. Bytes from a link become
packets, packets become sessions and archive records, and commands travel the
other way and wait for acknowledgements. The library is a set of objects
without threads or locks of their own: each one belongs to a thread that calls
it, and everything that can go wrong comes from the *order* of the calls, from
callbacks that run in the middle of a call, from the link, from clocks that the
callers pass in, and from crashes between two writes. That order is what the
modules here explore.

## 1. The system

### 1.1 Inventory

| Component | State | Operations | Interacts with |
|---|---|---|---|
| RuntimeScheduler | task table, running tasks per device, counters, next id | enqueue, lease_next/lease_many, complete, cancel, expire, clear_completed, reset | workers that lease and complete |
| CommandJournal | command entries with attempts and next attempt time, counters, next id | append, due, acknowledge, cancel, expire, compact_completed, clear | AckTracker, link |
| AckTracker | expectation per command with counts and verdict | expect, observe, timeouts, cancel, compact_terminal, reset | CommandJournal through `expectation_from_entry` |
| DeviceLimiter | token bucket and leases per device | register/unregister_device, set_limit, acquire, release, expire, check, consume, reset | callers with their own clocks |
| IngestQueue | deque of packets, byte count, per-device state, high-water marks | push, pop/drain/drain_payload_budget, clear, close, reopen | EventDispatcher handlers that may call back or throw |
| EventDispatcher | handlers | subscribe, publish (synchronous) | IngestQueue, CollectorRuntime |
| FragmentReassembler | pending fragments per device and stream | push, clear, clear_all | decoded packets |
| StreamParser | byte buffer | push, clear | link, packet and error handlers |
| SessionTracker | session per device | observe, expire_idle, clear | CollectorRuntime |
| CollectorRuntime | counters, sessions, links, archive writer | accept, destruction | SessionTracker, LinkMonitor, ArchiveWriter, handlers |
| ArchiveWriter / ArchiveReader | output stream, summary / input stream | append, close / next | the file system |
| BatchingPolicy | the open batch | offer/offer_many, tick, flush, reset | the upload loop |
| BackpressureController | last load report, pressure level, delay window and downsample factor per device | observe_queue, observe_sample, decide, note_batch_completed, reset_device, reset | the upload loop, IngestQueue statistics |
| FleetRegistry | record per device | upsert, erase, mark_seen, set_lifecycle, add_label, selections, summary | handlers of events |
| PacketPipeline, LinkMonitor, ObservationWindow | steps; samples; deque of observations | run; observe, report; add, expire_before | handlers of events |
| ReplayDriver / ReplayEngine | counts of one run | run | ArchiveReader, EventDispatcher |
| storage tools | none of their own; the archives on disk, a catalog or a collection built from them | rotation, retention, compaction, repair, audit, manifest, search, sampling, statistics | archive files, which change under them |
| diagnostics | snapshots, samples, histograms, budget events, an incident report | add, observe, merge, evaluate, build | fed by all of the above |
| band plan, sweep planner, interference, spectrum history, calibration store | allocations, observations, profiles | edit, query, plan, classify, add, look up | a receiver site that calls them one after the other |
| protocol codec, config, telemetry maths, crypto, compression | none that outlives a call | encode, decode, parse, compute | all of the above |

`PROJECT.json` lists every component with its files and its status.

### 1.2 What is hard, and the property that answers it

* **A slot taken must come back exactly once** (scheduler, limiter leases): four
  ways to end a lease, any of them late or repeated. RunningAccounting,
  ImplementsDeviceSlots, LeasesSound.
* **A table with caller-chosen ids** (scheduler, journal): a fresh id must never
  land on a live entry. TypeOK, TasksAccounted, CommandsAccounted.
* **Selection by one pass with a comparison that is not transitive**
  (`RuntimeScheduler::select`): PickOrder.
* **Retries, timeouts and late answers meeting in one instant** (journal and
  tracker): OutcomeFinal, CommandsAccounted, VerdictMatchesCounts, SidesAgree,
  EveryCommandSettles.
* **Rounding over time** (token bucket): TokensSound.
* **Callbacks in the middle of an update** (queue, dispatcher): QueueAccounts,
  EventsServed.
* **Several batches closed by one call, and packets that must not meet**
  (batching): BatchesExact, BatchesLeave.
* **Decisions from an estimate that ages** (backpressure): PressureSound.
* **Input in any order, number and cut** (parser, reassembler, sessions):
  StreamRecovered, LoopConsumes, MessagesWhole, SessionsSound.
* **Crashes between writes** (archive, rotation): ArchiveTruthful,
  RotationExact, and RepairFaithful for what is left.
* **Views of files that have changed** (collection, catalog): SearchSound,
  CatalogSound, CollectionAccounts; CompactionExact and RangesExact for what
  they are built with.
* **Borders that two windows share, and clocks smaller than a window**
  (diagnostics): PartitionExact, MetricsConserve, AlertsConsistent,
  ReportFaithful, NeverFreshByItself.
* **Plans that change between a finding and its follow-up, late spectra, a zero
  that means for ever** (rf): PlanningSound, FindingsFollowed,
  HistoryExact, CalibrationSound.

## 2. The modules

Names follow the source. Each module starts with what it models and what it
abstracts; operations that do nothing (early returns without effect) are
stuttering steps and have no action. `MC*` modules give the constants their
values. Definitions under a comment `mutant:` are faulty variants of the
definition that follows them; substituting one must break a property.

| Module | Models | State and actions |
|---|---|---|
| RuntimeScheduler | src/runtime/scheduler.cpp | `tasks` = tasks_, `running` = running_by_device_ (a missing entry is 0), `stats`, `nextId`, `lease` = what the last call returned. EnqueueAccepted/EnqueueRejected, LeaseNext, CompleteSuccess/CompleteFailure, Cancel, Expire, ClearCompleted, Reset |
| DeviceSlots | what the scheduler promises about devices | `holders`: the tasks that hold a slot of each device. Take, Give, GiveAll |
| ControlMessages | include/aethon/control/command_journal.hpp | the acknowledgement that journal and tracker both receive |
| CommandJournal | src/control/command_journal.cpp | `entries`, `jstats`, `nextId`. AppendAccepted/AppendRejected, Due (one pass in id order that stops after max dispatches), Acknowledge, Cancel, Expire, CompactCompleted, Clear |
| AckTracker | src/control/ack_tracker.cpp | `records`, `tstats`. Expect, Observe (Classify then RecordObservation), Timeouts, CancelExpectation, CompactTerminal, ResetTracker |
| ControlPlane | journal and tracker composed | both states, a clock, the thread's place in its round, the packets and acknowledgements on the link. The rounds are RoundTimeouts, RoundDue, RoundExpect, RoundEnd; between rounds Submit, Deliver, CancelCommand, ClearAll; DeviceAnswer, LosePacket, LoseAck and Tick are the environment |
| IngestQueue | src/runtime/ingest_queue.cpp | `queue`, `bytes`, `devices`, `qstats` = stats_, `closed`; `pushing` counts the push() calls that are in the accepted callback, one within the other; `emptied` counts what clear() dropped, `uncounted` the calls a handler's exception ended. PushRefused, PushRoom, PushEvict up to the callback, PushEnd after it or PushThrows, Pop, ClearQueue, Close, Reopen |
| FragmentReassembler | src/protocol/reassembler.cpp | `pending`, `stats`, and the history of what was delivered and emitted. One action per way push() ends |
| DeviceLimiter | src/control/device_limiter.cpp | `devices`, `lstats`, `nextLease`, and the history of what was paid since the limit was set. One action per operation and outcome |
| SessionTracker | src/stream/session_tracker.cpp | `sessions`, and the log of the packets observed. Observe, ExpireIdle, ClearSessions |
| StreamParser | src/stream/stream_parser.cpp | `buffer`, `phase` = where push() is, and the history of the input (`stream`) and of the packets delivered (`parsed`). Push appends a chunk; TryExtractOne is one round of the loop, so that a handler may push between two rounds; ClearBuffer |
| BatchingPolicy | src/runtime/batching_policy.cpp | `open` = open_. Offer, TickBatch, FlushBatch, ResetBatch are operators that yield the open batch and the batches returned |
| BackpressureController | src/control/backpressure_controller.cpp | `sample`, `level`, `pressure` = devices_. ObserveQueue, ObserveSample, Decide, NoteBatchCompleted, ResetDevice, ResetController |
| Uplink | the two around one upload path | both states, a clock, the uploads under way, counts. Admit and HoldBack (decide, then offer or not), Report, ReportQueue, UploadDone, Poll, Flush, Forget, Restart |
| Collector | src/runtime/collector.cpp, src/storage/archive.cpp | counters, the archive writer's summary and output buffer, the file. Accept* by outcome, AppendFails, Flush (the stream may write its buffer at any time), Destroy, Crash, Restart |
| Metrics, AlertRules | src/diagnostics/metrics.cpp, slo_window.cpp, alert_rules.cpp, incident_report.cpp, timeline.cpp | operators: what a snapshot, a series, a histogram, a budget, a rule and a report are computed from |
| Diagnostics | the four in one process | `current`, `previous`, `history`, `edge`, `hub`, `slo`, `report`. AddSample, Scrape, ObserveLatency, MergeUp, AddSloEvent, OpenReport, Resolve, Tick |
| ArchiveFile, ArchiveUpkeep, ArchiveCatalog, ArchiveCollection | src/storage/ | operators: a file as its header and slots with their damage, index, manifest and queries; rotation, compaction, audit and repair; catalog, retention, forecast, health and time ranges; collection, search, sampling, statistics |
| ArchiveStore | a directory under maintenance | `files`, `job`, `catalog`, `collection`, `ranges`, `report`. StartRotation, WriteShard, CrashInShard, RefuseOutput, Compact, Repair, DamageSlot, DamageStart, CatalogAdd, CatalogRemove, Collect, AddTimeRange |
| BandPlan, SweepPlanner, Interference, SpectrumHistory, CalibrationStore | src/rf/ | operators over a plan, a request, a frame, a history and a store |
| RfMonitor | a receiver site | `plan`, `store`, `history`, `report`, `sweep`. AddAllocation, ClearPlan, AddProfile, RemoveProfile, ClearStore, Observe, ClearHistory, Classify, Sweep, Followup |
| PacketViews | src/runtime/fleet_registry.cpp, pipeline.cpp, src/stream/link_monitor.cpp, src/telemetry/window.cpp | operators, each with what it should say stated from the list of calls |
| EventDispatch | src/runtime/event_dispatcher.cpp, replay_driver.cpp, src/replay/replay_engine.cpp | `handlers`, `calls` (the stack of publish() calls), the views, `replay`. Publish, one step per handler, PublishReturns, ReplayRecord, ReplayStops, and the calls on the views |
| *Proofs, SumTheorems | | the theorems of section 5: one module of proofs for the scheduler and the dispatcher, for journal and tracker, for the two joined, for the receive path (reassembler, parser, sessions, archive, queue), for the limiter and the uplink, for the diagnostics, and for the time ranges and the repairs of ArchiveStore; SumTheorems holds what they share about sums, finite sets, folds, and the numbering of a set's elements by their places |

How they fit together: ControlPlane instantiates CommandJournal and AckTracker
(`J!`, `T!`) on shared variables; Uplink extends BatchingPolicy and
BackpressureController; RuntimeScheduler instantiates DeviceSlots with
`holders` mapped to the tasks in state running. MCControlObjects and
MCReceivePath each hold several components that do not interact, and let one of
them work in each behaviour: they extend all of them, so initial state and
next-state relation have a name of their own in each (`InitTracker`,
`NextLimiter`, `ParserSpec`, ...). Diagnostics, ArchiveStore, RfMonitor and
EventDispatch extend the operator modules named before them; in their MC modules
a variable `focus`, fixed at the start, says which of the operations a behaviour
consists of, so that combinations without common state are not multiplied.

The source contains no loop that joins BatchingPolicy, BackpressureController
and an upload, and the repository's tests call them separately: Uplink's order
of calls is the one their interfaces ask for, and `uploads` stands for whatever
consumes the batches. The same holds for Diagnostics, RfMonitor and
EventDispatch: the library offers the objects, an application decides who calls
what when, and the models allow every order. The handlers that connect the
dispatcher with registry, link monitor and window are such application code.

Data is reduced to what the properties tell apart. A label, an intent, a
message or a byte of noise is a model value; times are small naturals; a record
of the archive is two cells so that it can be torn; a frame is the magic (two
cells), a length, a body and a checksum. Where the code divides floating point
numbers the models compare fractions of integers or multiples of a small unit;
frequencies of the shipped band plan are in units of 500 Hz, which divide all of
them. In `std::sort` equal elements keep their order, as they do in the insertion
sort that the library uses for up to sixteen elements, and the models stay below
that; for time ranges the order of equal ones is left open (SortedByStart). Where theorems speak of sorting (Metrics, AlertRules) it is written without
an operator as argument, which the provers cannot instantiate: `Sorted` orders the
positions of a sequence by two numbers each and then by the position, and `Chosen`
is copy_if by positions. `KeyRank` gives the place of a metric's key in the order of
the keys. The `\o <<>>` in `Placed` changes nothing; it makes TLC compute a sequence
once instead of at every access.

## 3. The runs

All runs use every value of the inputs listed in the MC module in every state.

| Run | Bounds | Shows |
|---|---|---|
| scheduler | 2 devices, 5 task shapes (dated, undated, labelled, not ready yet, explicit id), 3 tasks between resets, burst 2 | accounting, conservation, label uniqueness, pick order, finality and the refinement of DeviceSlots |
| control_objects | journal: 2 attempts, growing backoff, acknowledgements of every kind incl. foreign devices; tracker: 2 command ids, 1 and 2 required acceptances, with and without deadline; limiter: several limits, a second of few units, instants in any order, 2 leases | budget, conservation and finality of commands; verdicts; leases and the token bucket |
| control_plane | 2 commands, 2 attempts each, one dispatch per round, 3 instants, ack timeout equal to the first backoff | the joint safety property (ack timeouts longer than the backoff, for which it says less, are left to the theorem) and that everything settles |
| receive_path | parser: frames of 4 cells, limit 5, 10 cells of input in 7 chunks; reassembler: 9 fragments, 5 deliveries, limit 3; sessions: 2 devices, 3 packets per device; queue: every pair of policy and drain order, 5 envelopes, 3 that enter, push() within push() once; collector: 4 packets per life, torn and failed writes | chunking, noise and progress; whole messages; sessions against the log; accounting with handlers calling back, pushing and throwing; what a reader finds after a crash |
| repeated_fragments | 3 fragments | a documented claim that fails (section 6) |
| garbage_before_frame | the parser's part of receive_path | a documented claim that fails (section 6) |
| uplink | 1 device, 3 packets offered, batches of 3 packets or 3 bytes, age limit 2, 4 instants, queue capacity 4, 2 packets held back | batches, their order and their departure; the load estimate and the delay windows |
| diagnostics | one counter from two sites, rules of all five kinds, two histograms with different bounds, 3 inputs, 3 instants; the second site reports once and when the sample is taken; reports from the second instant on, and nothing follows their resolution | conservation in series and histograms, exact partitions, rules that agree, faithful reports, staleness that does not heal |
| storage | two archives and three more paths, 3 operations, five kinds of damage, crash inside a shard | rotation, repair, compaction, catalog, search, sampling and ranges |
| rf | the shipped plan and plans of five allocations that overlap, do not fit their raster or end at the last frequency; 6 profiles, 4 frames, 4 calls, a history of 2 | channels and guards, sweeps, follow-ups, history, calibration |
| event_dispatch | 5 events incl. device 0 and time 0, 3 handlers, nested publish() of depth 2, 4 calls on the registry, 3 steps, archives of 4 records, one damaged | delivery, replay and the four views |

Why the bounds are enough: the accounting properties break with one lost or one
doubled update, so a table of three entries with every order of calls reaches
them; the orderings need three candidates to show a cycle; the token bucket
needs a rate that does not divide the second and two refills in a row; a retry
meets its own timeout at the second send; a torn record needs one record
before it; a rotation needs a shard before the one that crashes and one after it;
a view is stale after one change; a follow-up needs one edit of the plan between
it and the finding; a history of two is full at the third observation; a handler
can disturb a list of two. Every property has a mutant that TLC rejects under the same
configuration.

Bounds in guards (`MaxAppended`, `MaxEnqueued`, `MaxRetries`, `MaxSeen`,
`MaxInputs`, `MaxSteps`, `MaxPublished`, ...)
cut the behaviours after that many events; they are not in the code. Counters
that the 64-bit code never exhausts are unbounded naturals in the properties.

**Fairness.** ControlPlane: the thread keeps running its
rounds (weak fairness of Round: the loop that owns the objects does nothing
else) and the clock advances between rounds (strong fairness of Tick, which is
disabled inside a round). Nothing is assumed of link, devices and callers:
packets and answers may be lost for ever. The clock stops at MaxTime, which
lies behind every deadline and expiry that the commands of the run can have.
Uplink: the thread calls tick() again and again (weak fairness of Poll; nothing
else in the code looks at the age of a batch that receives no packet) and time
passes (weak fairness of Tick); the last packet arrives early enough for its
age limit to lie before MaxTime. The other modules assume no fairness.

**Deadlock** is checked except where a bound on the history ends every
behaviour; those configurations say `CHECK_DEADLOCK FALSE`.

## 4. What only TLC shows

* Liveness: EveryCommandSettles and BatchesLeave. The provers do not reach
  fairness and ENABLED.
* MetricsConserve, the properties of ArchiveStore other than RangesExact and
  RepairFaithful, those of RfMonitor, and LinksReported.
  The first compares folds with folds (buckets of a histogram, series of a
  snapshot), the others are about SelectSeq, SortSeq and folds whose operator is an
  argument: what such a fold computes for every input needs an induction over an
  operator, which the provers cannot instantiate, unless the definitions are
  written as in Metrics (section 2). SweepPlanner, which RfMonitor is built from,
  steps with a RECURSIVE operator. All of these are checked against their reference
  definitions on the inputs of the runs.

## 5. What is proved

Every theorem holds for all values of the module's constants that satisfy the
named assumption; an assumption says no more than that numbers are naturals and
that inputs have the fields of their type, except where the table says so. The
bounds in guards (`MaxSeen`, `MaxAppended`, ...) are constants as well: what is
proved holds for every bound.

| Theorem | Property | Assumption |
|---|---|---|
| RuntimeProofs: TypeCorrect, AccountingExact, TasksConserved, BurstLimit, FinishedTasksFinal, SlotsRefinement, PickFollowsOrder | TypeOK, RunningAccounting, TasksAccounted, BurstRespected, FinishedIsFinal, ImplementsDeviceSlots, PickOrder | SchedulerAssumption |
| RuntimeProofs: EligibleIsLeased | the selection finds a task whenever some task is eligible | SchedulerAssumption |
| RuntimeProofs: EventsServedExactly | EventsServed | DispatchAssumption |
| ControlObjectsProofs: JournalTypes, CommandsSettledOnce, OutcomesFinal | TypeOK, CommandsAccounted, OutcomeFinal | JournalAssumption |
| ControlObjectsProofs: VerdictExact | VerdictMatchesCounts | TrackerAssumption |
| ControlPlaneProofs: JournalAndTrackerAgree | SidesAgree | ControlAssumption, which includes the assumptions of journal and tracker |
| ControlPlaneProofs: JournalImplemented, TrackerImplemented, GuaranteesCarryOver | ControlPlane implements the specifications of CommandJournal and of AckTracker; CommandsAccounted, OutcomeFinal and VerdictMatchesCounts in it | ControlAssumption |
| ReceivePathProofs: SessionsFollowLog | SessionsSound | SessionAssumption |
| ReceivePathProofs: ArchiveTrue | ArchiveTruthful | CollectorAssumption |
| ReceivePathProofs: QueueKeepsItsBooks | QueueAccounts | QueueAssumption |
| ReceivePathProofs: MessagesComeOutWhole | MessagesWhole | ReassemblerAssumption |
| ReceivePathProofs: ParserRecovers, ParserAdvances | StreamRecovered, LoopConsumes | ParserAssumption: a valid frame starts with the magic, announces its length and fits the limit |
| UplinkProofs: LeasesKept, TokensKept | LeasesSound, TokensSound | LimiterAssumption: clocks do not show 0, which the code takes for "never refilled" |
| UplinkProofs: BatchesKept, PressureKept | BatchesExact, PressureSound | UplinkAssumption: min_delay_ns is at most max_delay_ns; priorities are those of `IngestPriority` |
| DiagnosticsProofs: StaleStaysStale, RulesAgree | NeverFreshByItself, AlertsConsistent | DiagnosticsAssumption: `Rules` is a sequence of rules of the five kinds, keys have a rank, latencies and weights are naturals, a histogram has finitely many bounds |
| DiagnosticsProofs: ReportsFaithful, PartitionsExact | ReportFaithful, PartitionExact | DiagnosticsAssumption |
| ArchiveStoreProofs: RangesKept, RepairsFaithful | RangesExact, RepairFaithful | StoreAssumption: the bounds of ranges are times below TimeModulus, inputs are lists, archives hold lists of records at first |

None of these properties is inductive as it stands. The arguments:

**Scheduler.** The counter decides whether a lease is possible, the tasks decide
what the burst property counts, and cardinalities mean something only for finite
sets, which TypeOK provides: `IInv == TypeOK /\ RunningAccounting /\
BurstRespected`. StepKinds classifies each action by what it does to the set of
running tasks (starts one, ends one, ends all, changes nothing) and to the
counters; invariants and refinement follow from the classification without
looking at the actions again. TasksConserved does the same with the set of
unfinished tasks (ActiveSteps).

PickOrder is about the pass of select(), which compares the best task so far with
the next one. Its comparison is not transitive, so "no task beats the pick" is
false. What the pass keeps, id by id, is that the pick is ready and its device has a
slot, that it has the earliest deadline among those due soon if there is one, and
that without deadlines it is the first in an order that is total; and no id above the
pick beats it (a lower one may, when dated and undated tasks are mixed and none is
due soon). The ids below the one reached are the counter of that induction. EligibleIsLeased follows from it.

**Dispatcher, replay and three of the views.** A publish() that is under way has called
a prefix of the copy it took, so one that returns has called all of it, whatever the
list has become (`DeliveryInv`). A replay has published the intact records in its
window that lie before the one it reads, and has counted all of them, or all but
the last one while that one is still being handled or its handler threw
(`ReplayInv`); the numbers of the records are positions in a set that grows at the end
(ChosenMore). PacketPipeline::run and ObservationWindow::add are a fold and a cut at
the first fresh entry. The state of the fold after `n` steps is the packet with the
smallest payload that any of them left, and a result that says whether a step had
dropped it before any stopped (PipelineDecides). The window is a suffix of what was
added, and `WindowIs` says of each entry in front of it why it left: the reasons
survive every later call, since what is too old stays so and what was crowded out
stays out (`ViewsInv`). A record of the registry is what the calls since the device
was last upserted or erased make of the record it started from then. `RegistryIs` says
so of all devices at once: a call leaves the calls on every other device alone
(SameCalls), an upsert or erase leaves none to consider, and for the rest RecordKept says
field by field what one call more does to the latest, the first and the number of the
calls of each kind. mark_seen() takes a record whose id is 0 for one just created; a
record with calls carries the id of its device (RecordKept), so that happens once per
device, and with every packet of device 0.

**Journal.** Each step lets one fresh command join the unfinished ones, settles a
set of them while another set is sent once more, or starts over (StepKinds). The
bound on all sends needs more than counters: the sends that unfinished commands
may still make are a set of pairs of command and attempt (Left), from which every
dispatch takes one away. `JInv == TypeOK /\ CommandConservation /\
AttemptsBounded /\ BudgetKept`. That due() stops after max dispatches, in the
order of ids, comes out of the cardinality of the ids visited.

**Tracker.** A record requires at least one acceptance and is in one of four
states (RecordsTyped); with that VerdictMatchesCounts is inductive (`TInv`).

**Journal and tracker joined.** The question is who may still wait for an answer.
A waiting record has its deadline no later than the next attempt of its command
(Ordered); timeouts() ends every record whose deadline has come (Fresh), so due()
finds no waiting record among the commands it repeats, and expect() is not
refused; every send that is out is tracked with its own deadline (Tracked). This
part of SidesAgree, and of `PInv`, has the premise TimeoutWithinBackoff: the ack
timeout is not longer than any backoff. The code does not enforce that (its default
initial delay is 1 ms); with a longer timeout expect() is refused for the repeated
command and the old deadline judges the new attempt. What is left then is
Registered, which needs no premise: expect() is only refused while the older record
waits, no deadline lies more than the ack timeout ahead of the clock, and an answer
that ends a record takes its command out of the state sent; so every send has an
unfinished record that ends no later than its own would. The part about never-sent
commands (LinkOK) has the premise that clear() waits until the link is empty, which
is up to the caller as well. That a refusal ends both sides holds without either.

Beyond agreement: each step of the thread, of a caller or of the link is shown to be
a call of the journal and a call of the tracker with arguments those are specified
for, or to leave them alone (JournalCalls, TrackerCalls). So the composed system
implements both specifications, and what ControlObjectsProofs shows of each holds in
it (GuaranteesCarryOver), inside a round as well as between rounds.

**Limiter.** The leases are one set of pairs of device and lease (Held). Every
step takes a set of them away and counts it, adds at most one with a fresh id, or
starts over; LeaseInv adds that ids are below the next one and counters are
numbers. For the bucket, AccountsOK says that what was paid since the limit was
set, and what is left, stay within the burst and the refill over the time
covered; a bucket that was never refilled has not been paid from. The rounding
of a refill is one lemma about integer division.

**Sessions.** The property takes maxima over the whole log, the code keeps them
from packet to packet. `SInv` says what makes a value the maximum: some packet of
the log has it and none exceeds it (Tops).

**Archive.** What the stream has flushed and what waits in it are together a
prefix of the cells of records 1, 2, 3, ..., and all of them while no write has
failed; a failed stream holds nothing back (`CInv`).

**Queue.** The byte counter is the sum of the payloads in the queue, so the
subtractions that clamp at 0 never do; a device's entry counts what it has queued,
or one more after an eviction, and so goes only with its last packet. These hold
between the two halves of a push as well, where handlers call back, push again or
throw: a push() that waits for its handlers has queued its packet and will count one,
or never does (`pushing` and `uncounted` stand for these in the balance). That
select_next() and the choice of a victim find a packet is a fact about the orders
they compare by.

**Reassembler.** Whatever a stream holds came from fragments delivered under its
key, so a message that has its key to itself owns its stream; the size a stream
has counted is that of the fragments it holds, so a message that fits is never
given up; and what was delivered of a message still due waits in its stream
(Kept). "Has its key to itself" is WellCut: one key, one count, one fragment
for each position, and no other message under that key. For other messages the
code promises nothing (section 6).

**Parser.** The reference is a recursive function that cuts the whole stream into
frames. The buffer is what is left of the stream from some position on, and the
frames delivered so far, followed by what the reference cuts from that position, are
what it cuts from the start, for every continuation of the stream (Ahead): a
position is given up only when no cell still to come can change what is cut there.
Noise without the magic then drops out of the reference itself. A round of the loop
that goes on has consumed a cell, and one that waits leaves less than a frame.

**Uplink.** A packet joins a batch only if all the rules still hold with it, so
every batch keeps them while it is open (Fine), and the packets in the open batch
are numbered on from those that left (Ordered). One call of the batcher is a
sequence of two small steps, closing the open batch and adding a packet, and each
keeps both. The same two steps keep what is outstanding up to the packet added,
so the controller's estimate stays below it, and a delay is never later than
max_delay_ns from the clock (`UInv`). With max_packets or max_payload_bytes 0 or
too small a single packet still makes a batch of its own; the limits are stated
for batches of more than one packet.

**Diagnostics.** Selecting and sorting numbers positions by how many of them come
before; because the order by two numbers and the position is total, the numbering is
a permutation, so a sorted sequence has the elements it was given, in order
(RanksNumber, SortedEnumerates).

*Stale metrics.* Samples are appended with the time of the clock or an earlier one,
so none is later than it (SamplesTyped). When only time passes, the window of a
history moves past samples and takes in none (CandidatesLeave); a rule that found
every candidate too old finds the rest too old, and one without candidates reports
no data.

*Rules on one metric.* Two rules on one metric and window select the same samples.
A metric that is missing leaves the threshold rule nothing to judge; a rate that
rises has two samples between which the values rise, while a trend that is flat or
falling with noise floor 0 has none (NoRiseInTrend). AlertsConsistent says which
rules it is about: the threshold rule is enabled, the rate is compared by `>` with a
threshold of at least 0, and the noise floor is 0; without these the rules may well
both fire. What passes the duration gate has two samples that far apart.

*Reports.* A report once opened consists of alerts, findings and actions of the
kinds its builder adds (ReportKept). The timeline is a permutation of the events it
is made from, so each firing alert is in it, and with a level that at_or_above()
keeps; the finding on top is no less severe than any. The action that is open is one
that recommend_incident_actions() always adds while the report is investigated.

*Budgets.* With width `w` the instants of a range fall into slices of `w + 1`; an
instant has one home among their starts (SliceHome), so what the slices weigh adds
up to what the range weighs (SlicesAddUp). If every slice stays below its share of
errors, or has no weight, so does the sum (PartSpent). That merged histograms yield
events of the right types needs the fold over the other's observations to exist
(MergeExists).

**Time ranges.** Coverage is what matters: the ranges kept cover the same instants as
the ranges added, and are apart unless the last instant is covered (`RInv`). It is
kept by each step of normalize() because the ranges come sorted: a range either starts
beyond the end of the last one, or is swallowed and leaves no gap (MergeStep). Where
end + 1 wraps to 0 a range that starts inside the last one is kept beside it, so the
ranges then overlap, and contains() and overlaps() are right all the same. What
std::sort does with ranges that start together makes no difference to this.

**Repair.** What a repair finds can have been left by anything: `UpkeepInv` says that
every path names a file of header and record slots (FilesOk), that a rotation under
way has shards to copy (JobOk), and that a repair reported what the plan and the
scan allow (ReportOk); RepairedFaithfully says it of the file written, namely that it
is the archive a writer makes of some list of records. FilesOk needs JobOk because
a rotation writes what it reads at the places its plan names (RotationPlanned,
ShardCopied), or a prefix of that when it crashes. From there RepairFaithful is about
archives: a written one reads back its records (WrittenReadsBack), its header and its
manifest agree with them, since the devices and the kinds partition the records
(SummaryCounts, ManifestConsistent), and so the audit finds nothing but times out of
order (WrittenAudit). Which branch of the plan was taken decides what can have been
lost (PlannedAction), and the salvaged records begin with the readable ones because the
slots before the first damage come first among the whole ones (KeptPrefix,
RepairedOutput). A record of time zero is outside the claim on times: the repair takes
zero for "no time found" and writes the packet's own time stamp.

SumTheorems proves what these arguments need about the library's sums (that the
fold exists and does not depend on the order of elements, how a sum changes with one
element, how it is put together from those of a partition, and how two sums
compare) and about ranks in an order, from a counterexample of least cardinality, because induction theorems
with an operator parameter are out of reach; SetInduction states induction over
finite sets for a set of sets instead.

## 6. Disagreements between documents and code

* `docs/api.md:19` says the reassembler "ignores duplicates". It does while the
  message is pending; once the message is complete its stream is gone, and
  repeated fragments start it anew (repeated_fragments: EmittedOnce).
* `README.md:20` promises recovery of valid packets "after arbitrary link
  garbage". Garbage that contains the magic and a plausible length swallows
  the valid frame behind it (garbage_before_frame: RecoversAfterAnything).
  Garbage without the magic costs nothing (receive_path: StreamRecovered).

Behaviours worth knowing that no document contradicts, and that the properties
are stated around:

* A handler that throws in the accepted event ends push() after the packet was
  queued (`ingest_queue.cpp:337`) and before it is counted: the caller sees an
  exception, the packet stays, and accepted stays one short of what is queued,
  evicted, drained and dropped for good (QueueAccounts counts such calls apart).
* A raster that ends at channel 2^32 - 1 without a centre frequency there keeps
  `BandPlan::channels_for` in its loop: the `continue` at `band_plan.cpp:447` passes
  over the test for the largest number at line 459, and the counter wraps
  (ListingEnds; RfMonitor assumes rasters that end).
* Under the evicting overflow policies the byte budget of IngestQueue can be
  exceeded, and its per-device packet count can be one too high until the next
  removal (QueueAccounts).
* While the level is throttle an ordinary packet is never admitted, only delayed
  again, whereas at the higher level shed a share of the packets gets through; a
  protected packet that is accepted ends the delay window of its device. A batch
  whose first packet arrived at time 0 has no age and does not leave by it.
* A completion names a task, not a lease: a worker that answers late for a lease
  that failed ends the next one (`scheduler.cpp:129`). An acknowledgement names a
  command, not an attempt: a busy answer to an earlier attempt moves the next one
  (`command_journal.cpp:188`). A stream id used again before its message is
  complete mixes the two (`reassembler.cpp:24`). In all three the object cannot
  tell the cases apart, and the accounting holds either way.
* A cost above the burst is refused for ever although the limiter names a time to
  retry (`device_limiter.cpp:159`).
* The duration gate of an alert rule looks at how long its metric has been
  reported, not at how long the condition has held.
* A device that is labelled before its first packet stays `unknown` when packets
  arrive; device 0 becomes `active` again with every packet, also when it was
  quarantined (`fleet_registry.cpp:61`).
* ObservationWindow expires from the front only and before it enforces its size:
  a late observation behind a newer one stays, and opens the window once the
  newer one is crowded out.

## 7. Not modelled

`PROJECT.json` gives the reason for each part. In short: byte-level encoding,
cryptography, compression, the configuration and query languages and all
rendering (text or bytes, no state that outlives a call); noise estimators,
smoothing, signal quality, IQ summaries, telemetry statistics, filters and
anomaly detection (floating point); packet validation, version negotiation and
the extension registry (pure selections over small tables); the command line
front end. Within modelled parts: load reports to
BackpressureController that are older than the last completed batch or already exclude
it (the code compares no times; Uplink reports the load of the moment); a replay started by a handler of the same replay; the pause
between replayed records; 64-bit wrap of ids; the byte order and widths of the
archive; a handler for oversized frames that calls back into StreamParser.

## 8. Plan

1. Proofs: MetricsConserve, with the fold of a histogram's buckets treated as the one
   over its observations is; RotationExact and CatalogSound, once the selections
   in ArchiveFile and ArchiveCatalog are written as Metrics writes them.
2. Admission path: Uplink with IngestQueue in front of it, so that the load the
   controller is told is the queue's own.
3. Transport path: StreamParser, FragmentReassembler and CollectorRuntime with
   SessionTracker and LinkMonitor in one behaviour.
4. Negotiation against the best common version, ExtensionRegistry.
