# dds-ids: TLA+ specifications, model checks and proofs

dds-ids watches the traffic of a DDS domain. A **SecurityClient** process samples
topics, analyses the samples and publishes a `DetectionReport` for each finding;
a **SecurityManager** process reads the reports of all clients and writes them to
an output topic, usually in another domain. This directory models both processes
from their source, checks the models with TLC on small instances, and proves
for every instance, with TLAPS, every safety property the runs check: the order, life
cycle and promise of the manager, and all invariants of the sink, the alert stage, the
application, the collection, the wrapper and the loader. Liveness is model-checked only.

## 1. Inventory

| Part | Source | State | Operations | Talks to |
|---|---|---|---|---|
| `ManagerState` and its `Main` | `SecurityManager/` | domains and topic names, `g_running`, participants, reader, writer, wait set, the samples in the reader | `config`, `run` (`createInputEntities`, `waitForAnyPublisher`, `createOutputEntities`, `bridgeLoop`, `cleanup`), `stop` | Fast DDS; the clients' writers; itself when input and output are one channel |
| `DdsDetectionReportSink` | `SecurityClient/alert/` | four entity pointers, `initialized_` (atomic), `writerMask_` (plain) | `configure`, `initialize`, `publish` (`waitForMatch`, `currentWriterMask`), `stop`, `finalize` (`releaseWriter`) | Fast DDS; the manager |
| `AlertResponseStage`, `NoopResponseHandler` | `SecurityClient/alert/` | `running_`, the sinks and handlers and their configurations | `configure`, `addAlertSink`, `addResponseHandler`, `initialize`, `publish`, `stop`, `finalize` | the sinks and handlers it owns |
| `SecurityClientApp` and its `Main` | `SecurityClient/app/`, `SecurityClient/Main.cpp` | `configured_`, `initialized_`, `running_`, the configuration, three stages | `configure`, `initialize`, `run`, `stop`, `finalize`; `Main::start`, `Main::stop` | all stages |
| `CollectionStage`, `DdsCollector` | `SecurityClient/collection/` | `running_` of the stage and of each collector, their readers, the observation store | `configure`, `initialize` (`createReader`), `start`, `pollOnce` / `poll`, `stop`, `finalize` (`releaseReader`) | Fast DDS; the application |
| `StageRuntime` | `SecurityClient/app/` | `configured_`, `initialized_` of its own | the application's life cycle again: `configure` (two overloads), `initialize`, `run`, `stop`, `finalize` | the application it owns |
| `SecurityClientConfigLoader` | `SecurityClient/config/` | none | `load`: two JSON files to one configuration | the application |
| libdds-ids | not in the repository | unknown | `MainBase` (calls start and stop), `AnalysisDetectionStage`, `ObservationStore`, logging | both processes |
| IDL, docker, build files | `idl/`, `docker/` ... | none | code generation; `restart: unless-stopped` | |

What is hard, and what makes each part correct:

* **Manager.** Three one-sample stages (a client's writer, the manager's reader,
  the local `sample`) that Fast DDS and the main thread refill at any time; a
  reader that may see its own writer's samples; a stop, a failing `create_*` call
  or a crash anywhere; restarts. *Correct*: nothing is invented, duplicated or
  reordered; nothing is lost but for a named cause; every way out of `run`
  releases everything; the result tells why `run` returned; a stop ends it; no
  report is left lying.
* **Sink.** `publish` and `initialize` run against `stop` and `finalize` of
  another thread without a lock; a two-second wait races with late matches.
  *Correct*: `true` means written; no write before a match was seen; the wait
  ends; nothing is leaked by partial failures; `stop` alone is harmless.
* **Alert stage.** Sinks are bound to configurations by position; any call may
  fail, `stop` may come in the middle. *Correct*: findings reach the configured
  topics; one failure neither hides nor stops the rest.
* **Application.** `Main::stop` stops and finalizes the application under a
  running `run`. *Correct*: success is not reported for a failure; a stop of a
  running loop ends it; nothing is left afterwards; `stop` alone is harmless.
* **Collection.** Each reader keeps one sample, which publishers replace while the
  collectors are polled one after the other; a collector or the analysis may fail
  in the middle. *Correct*: every sample's fate is known; the store agrees with
  the batch the detectors get; a source's samples get in in order and once.
* **Calls in any order.** `StageRuntime` lets its caller repeat and mix
  `configure`, `initialize` and `finalize`, any creation may fail, and the flags of
  wrapper and application part ways. *Correct*: no pointer dangles; `initialize`
  never mixes two configurations; what leaks, doubles or faults needs an
  `initialize` repeated without `finalize`.
* **Configuration loader.** Numbers come as numbers or as texts, from widths beyond
  the members'; an item is rejected, or throws, in the middle; `configure` is called
  again afterwards. *Correct*: all or nothing; numbers in range; launch options
  win over the documents everywhere.

`PROJECT.json` lists the hazards, each at its line, with the properties about it.

## 2. Modules

| Module | Models | Checked by |
|---|---|---|
| `ReportRelay` | the abstract promise of the manager to its readers | as `RelaySpec` of `ManagerBridge` |
| `ReportRelay_proofs` | `RelayCorrect`: what the promise entails | TLAPS |
| `ManagerBridge` | the manager, its DDS entities, its clients, crash and restart | `manager_safety`, `manager_liveness`, `manager_stop_waiting` |
| `ManagerBridge_proofs` | types, life cycle, result, order, refinement, accounting | TLAPS |
| `DetectionReportSink` | one sink under two threads | `sink`, `sink_no_clock` |
| `DetectionReportSink_proofs` | types and all invariants of the sink | TLAPS |
| `AlertStage` | the stage's sinks and handlers under two threads | `alert`, `alert_routing` |
| `AlertStage_proofs` | types and all invariants of the stage that hold | TLAPS |
| `ClientApp` | the application with its collectors under two threads | `client` |
| `ClientApp_proofs` | types and all invariants of the application | TLAPS |
| `CollectionPass` | one sample's way from a reader into the store and to the analysis | `collection_pass` |
| `CollectionPass_proofs` | types, every sample's fate, store and batch, refinement of `ReportRelay` | TLAPS |
| `StageRuntime` | calls in any order, with failing creations, down to the DDS entities | `stage_runtime` |
| `StageRuntime_proofs` | types and all invariants of the wrapper | TLAPS |
| `ConfigReaders` | the loader's readers of values, items and rules, as operators | `config_documents` |
| `ConfigLoad` | `configure`: loading item by item, hand-over, launch overrides | `config_documents`, `config_calls` |
| `ConfigLoad_proofs` | the readers, types and all properties of the loader, lemmas on flattened lists | TLAPS |
| `MC...` | constants for TLC | |

The models meet at these seams. `ClientApp` keeps of the alert stage a flag,
whether its sinks exist and the outcome of a publish; `AlertStage` is that stage
call by call, and keeps of a sink its configuration and whether it is up;
`DetectionReportSink` is that sink access by access. What a sink's writer
accepts is what `ManagerBridge!Publish` puts into a client's writer.
`ManagerBridge` implements `ReportRelay` with `relayed` = `out`; so does
`CollectionPass` with `relayed` = `stored`, what was upserted. `ClientApp` takes the
samples of one collector in one step, `CollectionPass` sample by sample, with the
publishers; the former has the second thread, the latter the data. `ConfigLoad`
yields the configuration whose sources and sinks `StageRuntime` and `AlertStage` start
from; a configuration there is any of a few.

### ManagerBridge and the code

`pc` is the main thread's place: `start`, `configured` (before `run`), `await`
(`waitForAnyPublisher`), `createOutput`, then `loop`, `wait`, `dispatch`, `take`
and `forward` in `bridgeLoop`, `fail` and `shutdown` before the two kinds of
`cleanup`, `returned`, `crashed`. One action is the code between two points where
another thread or Fast DDS can make a difference: one iteration of the polling
loop, one read of `g_running`, one `wait`, one `take_next_sample`, one `write`.

* Each reader and writer is RELIABLE with KEEP_LAST depth 1, on a type without a
  key (`detectionReport.idl`). Hence `wire[c]`, `history`, `hand` and `echo` are
  slots that the next sample overwrites. A reader is VOLATILE by default, so what
  is published without a match is for nobody.
* The wait set is the two conditions it is made of: unread samples, and a
  matched status not yet read. `get_subscription_matched_status` resets the latter
  (`DispatchStatus`) or does not return `RETCODE_OK` and leaves it set (`StatusNotRead`);
  in `waitForAnyPublisher` such a round changes nothing and is a stuttering step.
* A sample on the same channel (same domain and topic on both sides, which `-t`
  allows) comes back as an `echo`, told by the publication handle.
* A report is its client and a number: contents never influence the bridge.
* `published`, `out`, `lost` and `failed` are history variables. `lost` grows only
  where a slot is overwritten, a write fails, a writer leaves or the reader goes.
* `topic_count` is always 1, so `topics[0]` is the only topic. The flags
  `matched` and `out_matched` only choose log lines and are left out.
* The creation of entities is one step per function: before `run` has left it no
  other thread sees the entities. The step picks how far creation gets.

### DetectionReportSink and the code

`run` and `ctl` are the places of the two threads, and a step is one access to
shared members. `ptr` is the set of members that are not null and `live` the
entities that exist; they differ while `releaseWriter` has deleted an entity but
not yet reset its member. `initialize` creates entity by entity. The `releaseWriter`
of `finalize` deletes the writer, then the publisher, then resets both members, and
then deletes topic and participant; `initialize` may come in between any two of these,
and the publisher's deletion is refused if it has made a writer by then. So for a
moment an entity may exist that only the participant still holds: `NoOrphan` says that
everything can still be released, by its own member but for that moment. A call through a
null member or a deleted entity is undefined behaviour: `run` becomes `fault`, and
nothing is claimed from there on. `writerMask_` is not atomic, so a test right
after an assignment may see the value assigned (`register`) or what `stop` put in
memory since; both are taken. `createWriter` is an unused stub and left out.

### AlertStage and the code

`Initialize` is what `SecurityClientApp::initialize` and
`AlertResponseStage::initialize` do together: a sink for each *enabled*
configuration, bound by `addAlertSink` to the configuration at its own
*position*, then initialized in order until one fails. `publish` goes sink by
sink, then finding by finding and handler by handler; `stop` sink by sink. The
stage's `finalize` is modelled between publishes only, the overlap is `ClientApp`'s.

### ClientApp and the code

One step per flag that another thread reads or writes. `Initialize` may end before
anything is made, because the application is not configured or the analysis stage,
which is external, does not take its configuration. Collectors are numbered;
`polling` and `readers` are the flags and readers of each. `analyze` belongs to
libdds-ids and has any outcome. `singlePass` is never set by `Main` but by other
users of the class. A stop that comes between `initialize` and the loop is
overwritten by `running_.store(true)` (SecurityClientApp.cpp:187), and the loop then
goes on over the collectors that are left, possibly none: that is why `StopEndsRun`
speaks of a stop that finds `run` in its loop. `initialize` fills `collectors_` one
`push_back` at a time: one that meets a walk of `stop` or `finalize` over the same
vector may move the elements from under it, and a `finalize` may delete the
participant that `createReader` works with; both are faults. `FaultNeedsFinalize`
names the only two causes of a fault: the finalize of `Main::stop`, and a stop
that began before `initialize` was done.

### CollectionPass and the code

`slot[s]` is the history of the reader of source `s`: KEEP_LAST depth 1
(DdsCollector.cpp:171-173), so that a new sample, or a change without data, displaces
the old one. The run thread's places are the collector to be polled, the take
loop, the upserts, and the analysis; publishers step in between any two. `samples`,
`batch` and `store` are `samples` and `outSamples` of `pollOnce` and the observation
store, of which the code relies on its keeping the latest sample of a topic.
`analyzed`, `stored`, `displaced` and `dropped` are history variables.

### StageRuntime and the code

One thread: the calls are `StageRuntime`'s, and `initialize` is taken apart into
the creations that may fail. A pointer is the participant its entity belongs to,
so that one can see pointers of two generations: `initialize` on collectors that
are up overwrites `participant_` first. `releaseReader` forgets all four pointers,
`releaseWriter` keeps `writer_` without a publisher and goes through `participant_`
for the others, so they are modelled apart. Calls that are refused, and the response
handlers, which do nothing, change none of this and are left out. A poll of the new type on a reader
made for another, and a release through a null participant, are `fault`. Both can be
reached, as can leaks and doubled sinks, but, as the properties say, only after an
`initialize` that was repeated without a `finalize` reaching the application; what
`Main` calls never does that. `launch` and `config.call` record which call of
`configure` gave the options and the configuration.

### ConfigReaders, ConfigLoad and the code

A JSON value is its kind and what decisions depend on: a text (a member of a few,
and beside it the number it begins with, if it does), a number, a flag, an object's
values, or absence. A document is a function from its seven lists to their items. The widths
of `int` and `long` are the constants `IntHalf` and `LongHalf`, and the narrowing of
`get<int>`, `get<unsigned>` and the truncation of `stoul` are what they are in two's
complement; `stoi`, `stoul` and `stoll` throw out of their range and the fallback is
taken. A vendor id is read as unsigned and kept as `int`. Documents have any values and
any number of items.
`load` appends item by item to a local configuration; an item is read,
rejected (`return false`) or throws, and `configure` lets the exception through.
`source` records what the last successful call's documents mean as a whole
(`Meaning`), which `config_` is compared with after any number of other calls.

## 3. Runs

| Run | Bounds | Shows |
|---|---|---|
| `manager_safety` | 2 interchangeable clients, 2 reports each, 2 domains | `TypeOK`, `Accounted`, `PipelineOrder`, `Lifecycle`, `ExitHasCause`, `RelaySpec` |
| `manager_liveness` | 2 clients, 1 report each, 2 domains | `StopTerminates`, `StatusIsRead`, `ReportIsDecided` |
| `manager_stop_waiting` | 1 client | **violated**: `GracefulStopReturnsTrue` |
| `sink` | 2 calls, up to 2 findings each | `TypeOK`, `FaultNeedsFinalize`, `NoOrphan`, `TrueMeansWritten`, `NoBlindWrite`, `PublishReturns` |
| `sink_no_clock` | 2 calls, 1 finding; the clock may stand still | `StopCutsWait` |
| `alert` | 3 sinks, 2 topics, 1 handler, 2 findings | `TypeOK`, `RoutesWhenDisabledLast`, `FanOut`, `FailureIsReported` |
| `alert_routing` | 2 sinks, 1 finding | **violated**: `RoutesToConfiguredSinks` |
| `client` | 2 collectors | `TypeOK`, `SuccessMeansStopped`, `FaultNeedsFinalize`, `NothingLeft`, `StopEndsRun` |
| `config_documents` | one call; one item of one section takes every form, around every edge of an int of 2 bits and a long of 4, rule ids, cycle windows and vendor ids included; two transports with and without names | `TypeOK`, `NumbersFaithful` |
| `config_calls` | 3 calls, 4 runtime and 3 policy documents, 3 kinds of options | `ConfigIsOneLoad`, `OverridesReach`, `AllOrNothing` |
| `stage_runtime` | 3 `configure`, 3 `initialize`, 4 configurations of up to 2 sources and 2 sinks | `TypeOK`, `NothingDangles`, `LeakNeedsReinit`, `FaultNeedsFailedReinit`, `InitializesWhatWasConfigured`, `NoSurplusSinks` |
| `collection_pass` | 3 sources, 2 of one topic, 2 samples each | `TypeOK`, `SampleFate`, `StoreMatchesBatch`, `StoreRelay` |

Why these bounds are enough to meet the interesting cases: with two clients a
report of one can displace one of the other in the reader; with two reports of
one client one can overtake, be doubled or be displaced in the client's own
writer. Stops, crashes and restarts are not bounded, so that a second life of the
manager follows the first with reports still to come. Two domains and two topic
names give equal and distinct channels in both ways. With two findings a call
can fail half way; a second call meets what the first left behind. Three sinks
let a disabled one be first, in the middle and last. Two collectors let a stop or
a failure come between them. `MaxReports` and `MaxPublishes` bound otherwise
endless counters and are conjuncts of `Publish` and `Begin`, as do `MaxSamples`,
`MaxCalls` and `MaxInits`.

The loader's readers compare a number with the bounds of three widths only, so an
int of 2 bits with a long of 4 has every case: inside and just outside int,
unsigned, long and unsigned long, on both sides of zero, as number and as text.
Items do not influence each other's reading, so one item that varies beside plain
ones meets every rejection at every place; three calls let a success be followed
by a failure and that by another success. Two sources of different types and a
configuration that swaps or drops them let a second `initialize` find collectors
of another number and type, and one without sources lets it reach the sinks at once;
three calls of `initialize` let one succeed, one fail
and one follow. Two samples let one displace the other, and three sources with a
shared topic let another source come between the two.

Only the manager's runs check deadlock: the other threads and call sequences end,
and after that nothing need happen. A manager that
returned or died is started again.

### The two violations

* `manager_stop_waiting`. ManagerState.cpp:74 says that `run` returns "true when
  shutdown was requested (graceful stop), false on unexpected failure". A stop
  while `waitForAnyPublisher` polls makes that function return false, and `run`
  returns false (line 59-63): the process exits with `EXIT_FAILURE` although
  nothing failed. What does hold is `ExitHasCause`.
* `alert_routing`. `initialize` skips disabled sink configurations
  (SecurityClientApp.cpp:129-132), but `addAlertSink` takes the configuration at
  the position of the sink (AlertResponseStage.cpp:137-139). With a disabled
  sink listed before an enabled one, the latter gets the former's configuration:
  it is not initialized, and `publish` returns true for findings that nobody
  gets, against AlertResponseStage_test.cpp:147,
  `PublishRoutesFindingsToConfiguredSinksAndHandlers`. `RoutesWhenDisabledLast`
  shows that this order is the only cause.

### Fairness

* `ManagerBridge!FairSpec`: the main thread is scheduled and its calls return
  (WF); Fast DDS delivers what it accepted (WF of `Deliver`, `DeliverEcho`). SF of
  `DispatchStatus` says that reading a matched status does not fail for ever. SF of
  `TakeNothing` says that publishers leave gaps: the inner loop of `bridgeLoop`
  does not read `g_running`, so that under an endless stream of samples a stop
  would indeed not be noticed. This is an assumption about the environment, and
  the liveness of the manager rests on it. No stop, match, publication, crash or
  restart need ever happen.
* `DetectionReportSink!Spec`: both threads are scheduled, time passes. A stop need
  not come, and no new call; subscribers come and go freely. `WaitSpec` drops the
  clock, to show that a stop by itself ends the wait.
* `ClientApp!Spec`: both threads are scheduled.

## 4. Proofs

The theorems hold for every value of the constants that satisfies the assumptions
below. Each assumption only says what kind of thing a constant is.

| Module | Assumptions |
|---|---|
| `ManagerBridge` | the absent client is not a client (`ClientsAssumption`); the bound is a number (`MaxReportsAssumption`) |
| `DetectionReportSink` | the bounds are numbers, and a finding is allowed (`MaxPublishesAssumption`, `MaxFindingsAssumption`) |
| `AlertStage` | the bounds are numbers (`BoundsAssumption`) |
| `ClientApp` | the number of collectors is a number (`NAssumption`) |
| `CollectionPass` | sources and samples are counted, and each source has a topic (`PassAssumption`) |
| `StageRuntime` | a configuration is a list of source types and a list of flags, one for each sink (`ConfigsAssumption`); the bounds are numbers (`BoundsAssumption`) |
| `ConfigLoad` | a document has its sections, each a list, and so have its topics and vendor lists; its domains are values of one kind, as the parser makes them (`DocsAssumption`); a domain of the launch options is an `int` (`OptionsAssumption`); the bound is a number (`CallsAssumption`); the widths are positive and the long a multiple of the int (`WidthAssumption`) |

| Theorem | States |
|---|---|
| `RelayCorrect` | whatever implements `ReportRelay` hands on only published reports, each client's in order and at most once |
| `TypeCorrect` (`ManagerBridge_proofs`) | `Spec => []TypeOK` |
| `LifecycleHolds` | `Spec => []Lifecycle` |
| `ExitHasCauseHolds` | `Spec => []ExitHasCause` |
| `PipelineOrderHolds` | `Spec => []PipelineOrder` |
| `AccountedHolds` | `Spec => []Accounted` |
| `ImplementsRelay` (`ManagerBridge_proofs`) | `Spec => RelaySpec` |
| `ImplementsRelay` (`CollectionPass_proofs`) | `Spec => StoreRelay` |
| `CollectionPass_proofs` | `Spec => []P` for `P` each of `TypeOK`, `SampleFate`, `StoreMatchesBatch` |
| `StageRuntime_proofs` | `Spec => []P` for `P` each of `TypeOK`, `NothingDangles`, `LeakNeedsReinit`, `FaultNeedsFailedReinit`, `InitializesWhatWasConfigured`, `NoSurplusSinks` |
| `ConfigLoad_proofs` | `Spec => []P` for `P` each of `TypeOK`, `NumbersFaithful`, `ConfigIsOneLoad`, `OverridesReach`; `Spec => AllOrNothing` |
| `DetectionReportSink_proofs` | `Spec => []P` for `P` each of `TypeOK`, `FaultNeedsFinalize`, `NoOrphan`, `TrueMeansWritten`, `NoBlindWrite` |
| `AlertStage_proofs` | `Spec => []P` for `P` each of `TypeOK`, `RoutesWhenDisabledLast`, `FanOut`, `FailureIsReported` |
| `ClientApp_proofs` | `Spec => []P` for `P` each of `TypeOK`, `SuccessMeansStopped`, `FaultNeedsFinalize`, `NothingLeft` |

*The manager.* `TypeOK` is not inductive: `WriteOk` appends a report made from
`hand`, and only because `hand` is filled exactly in the forward step (`HandOk`) is
that a report of a client. `Lifecycle` and `ExitHasCause` need to know why `run`
is on its way out: `LifeInv` adds that at `fail` and `shutdown` a creation failed
or a stop came, and that a failed creation leads straight out. That the bridge
implements the promise rests on `PipelineOrder`: along writer, reader, local
sample and output each station holds a strictly newer report of a client than the
next. It is inductive given the types, and says of `hand` just what
`ReportRelay!Relay` asks for; so `WriteOk` is a relaying, `Publish` a publication and
every other step a stutter. `RelayCorrect` then speaks of the manager's output.
`Accounted` counts places; its inductive form does not count. `LostIsRest` says that
the lost reports of a client are exactly the published ones that no station and not
the output holds: each action is one of a few effects on the stations (an arrival that
displaces, a move, a discard), and each effect keeps it. That no two stations hold the
same report is `PipelineOrder` again, and the two together give one place each.

*The collection.* The same idea carries `CollectionPass`: a source's samples get newer
from the store over `samples` to the reader (`Ordered`), and only the collector at work
has samples in hand (`InHand`), so that an upsert is a relaying. `RelayCorrect` then
speaks of what reaches the store. `SampleFate` follows from `Placed`: what is in the
batch or was analyzed went through the store and not twice, what was displaced never
will, and nothing published is anywhere else; the order of the samples (`ApartInOrder`)
keeps reader, hand and store disjoint. `InPass` ties the dropped samples to the batch of
the pass that failed. `LastOfTopic`, the form of `StoreMatchesBatch` that holds at every
step, is kept since upsert and batch take each sample in the same step, one after the
other, also for two sources of one topic.

*The wrapper.* `Apart` carries `NothingDangles`: every pointer refers to a participant
that exists, and no participant is referred to by two collectors, or two sinks, or one
of each, so that releasing one leaves none of the others dangling. A step either makes
no pointer refer to more than it did (`Narrows`, `MoveApart`), or gives its object a
participant that nobody has (`FreshIsNew`). `Halfway` says what is there while the
entities of one reader or writer are made. The three properties about a repeated
`initialize` are implications whose inductive forms say what is true before: `FirstTime`
(whoever the walk has not reached has nothing, and every participant has an owner),
`NoFailure` and `Typed` (readers fit their collectors, and no sink has entities without
a participant, as long as no repeated `initialize` failed).
`InitializesWhatWasConfigured` follows since the wrapper's flag, unlike the
application's, is reset before a `configure` that may fail.

*The loader.* `AllOrNothing` rests on `Progress`: in a section the items before the next
one were read, at the policy document the runtime sections, at the hand-over all of
them; opening the policy document changes no runtime section. `ConfigIsOneLoad` compares
a loop, which appends item by item, with `Meaning`, which takes the documents as a
whole: `LoadedSoFar` says that at every point each section holds what its first `Done`
items give, flattened, so that at the hand-over nothing is left to read (`WholeLoaded`);
`OneLoad` follows `source` from there through the overrides. `TypeOK` follows because
every reader gives elements that fit, whatever the item (`ItemsFit`), and appending and
overriding keep that; the vendor ids of a rule are a flattened list of their own, whose
elements fit because each is narrowed (`VendorsFit`, `FlattenFits`). For `NumbersFaithful` the item at each place of a section gives
the element at that place (`OneEach`), the readers keep what fits (`ReadFaithfully`),
and a source takes the first transport of its name (`FirstTransport`).

What `FlattenSeq` computes is defined by recursion, so these proofs need induction over
the length of a list. The library's induction theorems take a predicate as a parameter,
which the provers cannot instantiate; `InductionOnSet` states induction for a *set* of
numbers instead, proved from the well-foundedness of `<`, and a proof defines the set
of lengths for which its claim holds. `FlattenNone`, `FlattenMore` and
`FlattenSingletons` are what the rest needs, and `FlattenFits`, that what all lists'
elements satisfy the flattened list's do.

*The sink.* Until `finalize` deletes something, what the members hold is what exists,
and the writer is there wherever `publish` is past its first check (`Intact`): so no
fault. `NoOrphan` is inductive with its first part: each creation goes through the
participant or something in it, so that whatever exists has a participant that is held,
and `releaseWriter` ends with that. A mask that says
"matched", in memory or in a register, was seen in this call (`Seen`): so no blind
write, whatever `stop` does to the mask. Only a stop makes an enabled sink unusable
(`Up`), and findings are written or still to be written (`Count`): so `true` means
written.

*The alert stage.* `Called` gives what a publish has called by the place of its loops,
`Reported` ties the result to the failures. For the routing, `Enabled` shows that if
no disabled sink precedes an enabled one, the enabled configurations are the first
`EnabledSinks` ones, by counting; then the positions of sinks and configurations
agree, and without failures each call adds its topic (`Routed`).

*The application.* While `initialize` is not over, `initialized_` is not set, so that
a stop that comes then is not in time (`Early`). Until `finalize` comes, what the run
thread is about to use is there (`Present`); the loop ends only by a stop, a failure
or its single pass (`Looping`); what `finalize` has to release lies ahead of its walk
over the collectors (`Releasing`), which leaves nothing at its end.

Two proof attempts failed for a reason, and the models were corrected. In
`StageRuntime!Run` the result stood in the scope of the quantifier over the collectors,
so that it was left open when there are none; no configuration of the run was without
sources. `NumbersFaithful`
compared the names of transports as they stand in the documents; the loader compares
them as it reads them, where a transport without a name and one whose name is empty are
the same. It now uses `ReadString`, and both runs have configurations for these cases.

Only model-checked: liveness (`StopTerminates`, `StatusIsRead`, `ReportIsDecided`,
`PublishReturns`, `StopCutsWait`, `StopEndsRun`), which like ENABLED is out of the
prover's reach, and the two violations. That the models are those of the code is a matter
of reading; `PROJECT.json` maps each definition to its lines.

## 5. Not modelled, and why

* The hazards that the code does not guard against: where `PROJECT.json` lists a hazard
  without a property, its note says what the code does there. Such a fault, loss or
  lost stop is in the models, and the properties name it as their exception.
* The overlap of `Main::stop` with `initialize` inside the vector of sinks: it is
  the same defect as the one modelled with `collectors_`.
* `CollectionStage::addCollector`: only tests call it, `SecurityClientApp` keeps the
  stage private.
* The composition of a sink with the manager. `ManagerBridge!Publish` already allows
  every timing of the writes that `DetectionReportSink` can produce, so that a
  composed model would only have fewer behaviours than what is checked.
* What `analyze` makes of the samples, and Fast DDS and libdds-ids inside: not in
  the repository. Modelled by what the code here relies on.
* Texts on which no decision depends (signal names, log level), log output, IDL
  generation, packaging, CI.

## 6. Plan

Done, in this order: `ReportRelay`, `ManagerBridge`, its proofs,
`DetectionReportSink`, `AlertStage`, `ClientApp`; then `ConfigReaders`, `ConfigLoad`,
`StageRuntime`, `CollectionPass` and their first proofs; then the proofs of the sink,
the alert stage and the application; then `Accounted` of the manager and the remaining
invariants of the collection, the wrapper and the loader.

No invariant and no action property that a run checks is left without a theorem. Worth
adding next: that the numbers of rules and the vendor lists are kept as faithfully as
`NumbersFaithful` says of the domains, and that the alert stage's view of a sink
(up or not, one call at a time) is implied by `DetectionReportSink`.
