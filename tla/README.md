# Cluster-recorder: specifications, model checking and proofs

Cluster-recorder records what happens to the nodes and pods of a Kubernetes
cluster. An agent on every node samples links, routes and host facts and posts
the samples to one collector; the collector also follows the API server through
informers, keeps everything in SQLite, writes a change record whenever a field
differs from the snapshot before, groups crash loops into incidents and marks
healthy baselines. These modules state what that machinery promises, check it
with TLC on small instances and prove part of it with TLAPS for all of them.
Paths below are relative to `src/`.

## 1. Inventory

| Part | State it keeps | Operations | Talks to |
|---|---|---|---|
| Fields and diff engine (`internal/sample`, `internal/diff`) | none | `Validate`, `Equal`, `FieldsEqual`, `Classify`, `Snapshots` | called by the handlers |
| Agent loop (`internal/agent`) | `buffer` in memory | `tick`: sample, append, drop the oldest, flush oldest first; `post` | HTTP to the collector, 10 s timeout |
| Agent sampling (`internal/agent`, `internal/cni`, `internal/host`) | `hints`, `choice` (driver instance and its pinned mode), `detectedAt` | `refreshHints`, detection, `Topology`, `Sample`, host `Fields` | collector (hints), netlink, `/etc/cni/net.d`, `/proc` |
| Agent endpoint (`internal/api`) | tables `snapshots`, `changes` | `agentSnapshot`: decode, validate, read latest, insert, diff, insert changes, answer | agents, store |
| Node informer handler (`internal/informers`) | the same tables, source `api` | `RecordNode` | API server, store |
| Pod informer handlers | tables `pod_transitions`, `pods` | `onPod`, `onPodDelete`, resync | API server, store |
| Event handler, event store | table `events` | `onEvent`, resync, `PutEvent`, `Events` | API server, pod lister, store |
| Evaluator (`internal/incident`) | table `incidents`, flag `baseline` of `snapshots` | every 30 seconds: open, extend or close an incident; check for quiet and mark baselines | store only |
| Maintenance (`internal/store`, `cmd/collector`) | deletes rows of all tables | `Prune`, `EnforceSizeCap` | store only |
| Hints (`internal/informers/hints.go`) | the informer's caches | `Hints` | agents |
| API read handlers (`internal/api`) | none | `diff` (two reads), `timeRange`, `timeline`, `incidents`, lists | store |
| `recorderctl` | none | `status`, `diff` and commands that print one answer | API read handlers |
| Configuration (`internal/config`) | none | `parse`, `validate` | environment |
| Migrations, manifests, netlink reads | none of their own | run once, or pure I/O | |

The store is the only thing the handlers, the evaluator and maintenance share.
Each statement is atomic (one SQLite connection), but no operation wraps its
statements in a transaction across reads and writes, so everything interleaves
between statements.

What is hard, and what makes each part correct:

* **Agent and endpoint.** A post can time out while its handler still runs; its
  answer can be lost after the sample was stored; a handler can stop between
  inserting a snapshot and inserting its changes; the agent retries and
  restarts. Correct: no sample disappears unless the agent discards it, no
  change is invented, none is recorded twice, samples are stored in order, each
  is compared with its predecessor, and a tick always ends.
* **Diff engine.** `unknown`, `not_applicable` and missing keys may lie between
  two readings. Correct: a field that vanishes leaves an alert or a degraded
  record, and what the log says is missing is missing.
* **Agent sampling.** Configuration, hints and links can each be unreadable when
  a driver is chosen; a mode is inferred once and kept; the node's clock may be set.
  Correct: an overlay that disappears reads as absent and never as not applicable;
  a wrong choice is corrected; a start time that changes is a restart.
* **Incidents.** The evaluator reads tables that handlers are half way through
  writing; the collector may miss deletions. Correct: one incident at a time,
  which closes only over pods that run, and ends.
* **Baselines.** Checks and marking are separate statements; pruning and the
  size cap run in between. Correct: the newest baselines survive, and nothing
  unhealthy that was there at the time of the checks is marked.
* **Events.** The API server forgets them after an hour, the collector may be
  down meanwhile, its informers start in any order, a statement may fail, and
  every redelivery replaces the row. Correct: what the API server still has is
  recorded, ends up under its pod's node and stays there.
* **Size cap.** A loop that measures and deletes while handlers insert. Correct:
  it ends, also when nothing is left to drop.
* **Readers.** `diff` takes two reads between which snapshots are stored and
  marked. Correct: a field that is named as differing has a change record.
* **Configuration.** Whatever is accepted meets what the other parts assume.

`PROJECT.json` lists every hazard with its line and the properties aimed at it.

## 2. Modules

| Module | Models | Built on |
|---|---|---|
| `Fields` | field states, validation, equality, the transition table, the diff of two field maps; pure operators | |
| `FieldStream` | any stream of field maps, each diffed against the one before | `Fields` |
| `Readers` | the baseline, and `diff` as `recorderctl` asks for it, next to the stream | `FieldStream` |
| `Timeline` | time ranges, the queries on tables, the merged timeline, incidents in a range; pure operators | |
| `MCFieldStream` | instance; `Timeline`'s operators against reference definitions | `Readers`, `Timeline` |
| `Agent` | the buffer and the position of the loop; the actions of `tick` and `post` | |
| `Collector` | the collector as its clients see it: it comes and goes | |
| `AgentLoop` | the loop against such a collector, through the fate of one sample, without a bound on ticks | `Agent`, `Collector` |
| `EventLog` | events of a pod from the API server through the informers to table `events`; pruning; the loop of the size cap | `Collector` |
| `Outage` | the agent's loop and the event log at one collector and one capped database | `AgentLoop`, `EventLog` |
| `Snapshots` | snapshots, change records, `LatestSnapshot`, the changes between two snapshots | `Fields` |
| `ChangeLog` | abstract: a snapshot and its changes are recorded in one step, in order of time | `Snapshots` |
| `Ingest`, `MCIngest` | agent, network and `agentSnapshot`, one action per database operation | `Agent`, `Snapshots`; implements `ChangeLog` |
| `NodeRecord`, `MCNodeRecord` | one node from its object at the API server through `RecordNode`, one action per statement, to table `snapshots` and the change log of source `api` | `Snapshots`, `Collector` |
| `Incident` | pod handlers, tables `pods` and `pod_transitions`, the evaluator's incidents | |
| `Config` | the collector's settings: defaults, parsing, ranges, minutes that wrap around; pure operators | |
| `MCIncident` | instance; `Config`'s operators against what the settings mean | `Incident`, `Config` |
| `Baseline` | snapshots of one node, the evaluator's checks and markings, pruning, the size cap | |
| `Cni` | driver detection, modes, the state of every generic key; pure operators | |
| `NodeSampling` | the agent's `Snapshot`: hints, detection, pinned mode, failing reads | `Cni` |
| `HostFacts` | the processes of one name on the node, the order `/proc` lists them in, a boot time that moves with the wall clock, failing reads | |
| `AgentSnapshot`, `MCNodeSampling` | one sample: the driver's fields and the host's | `NodeSampling`, `HostFacts` |
| `FieldsProofs`, `StreamProofs`, `OutageProofs`, `IngestProofs`, `NodeRecordProofs`, `IncidentProofs`, `BaselineProofs`, `SnapshotProofs` | theorems | the module of that name, `Readers` for `StreamProofs`, `Incident` and `Config` for `IncidentProofs`, `AgentSnapshot` for `SnapshotProofs` |

Definitions keep the names of the source (`tick`'s actions, `Classify`,
`PutSnapshot`, `MarkBaseline`'s two statements `Flag` and `Trim`, ...);
`PROJECT.json` "map" names the lines behind each. Operators with a comment
"Mutant:" are variants of the definition below them with a plausible bug; no
specification uses them. Each shows that a property really depends on that
piece of code: put in place of the definition, it makes TLC report that
property as violated.

### How state corresponds

* `Agent`: `buffer` is `Agent.buffer`; `phase` is where the goroutine is: at the
  ticker, at the top of the flush loop, or inside `post`.
* `Ingest`: `slot[s]` is one request: on its way, in its handler after the read
  or after the insert, answered, or lost. `client` says that the agent still
  waits for it. A request the agent has given up on is *abandoned*: its handler
  may run on. `snapshots` and `changes` are the two tables in id order; `gone`
  is history: what overflow and restarts discarded. A collector crash is
  `HandlerFails` of the handlers under way, since a handler keeps nothing else.
* `NodeRecord`: `cache` and `due` are the informer's cache and its queue, `handler`
  is `RecordNode` between its statements, `table` and `log` are the rows of source
  `api` in id order. `lost` is history: the fields of changes that were not inserted
  after their snapshot was.
* `Incident`: ages instead of times (anything older than the largest window
  looks the same to the evaluator); a pod is Running with nothing waiting, in
  CrashLoopBackOff, or anything else. `world` is the cluster, `listed` the
  informer's cache, `writing` the pod between its two statements, `eval` the
  evaluator between two of its own. `calm` and
  `missed` are history: how long the rows have said Running without a break, and
  the pods whose last write failed. `entries` keeps the last entry of each pod into
  CrashLoopBackOff, since the evaluator only asks whether there is one in the window.
* `Baseline`: one node; `table` holds its rows per source, told apart by their
  times; `good` is `node.ready = True` for an api snapshot and "nothing missing"
  for an agent snapshot; `last` keeps the newest record of each kind the quiet
  checks look for, `unsettled` the changes whose snapshots are stored and they are
  not, `check` the evaluator's next statement. `trouble` stands for what the checks
  read from the tables of pods: something in it speaks against quiet.
* `Readers`: `base` is the newest baseline, `cur` the latest snapshot, `request`
  one request of `recorderctl` between the handler's two reads. `touched` is
  history: the fields with a change record since the baseline.
* `EventLog`: `events[u]` is the column `node` of the row with that uid, `due` a
  notification the informer has queued, `lister` the pod in the informer's cache.
  `raised` keeps the uids that the API server has used: none is used for a second
  event, and an event keeps the host it was raised with.
  `cap` is the statement that `EnforceSizeCap` executes next; `snaps` counts the
  raw snapshots, which `Outage` adds to with every sample the collector accepts.
* `HostFacts`: `started` is the field `started_at` of the latest sample, in
  seconds; `running` the truth, by PID and in seconds since boot; `btime` is read anew
  for every sample and moves when the wall clock is set. `found` and `same` are
  history: what the latest sample came upon, and whether it is all still there.
* `NodeSampling`: `driver` and `mode` are the driver instance in `choice`,
  `config` the drivers `/etc/cni/net.d` names; `fields` keeps states only. A view
  says which links there are, which have an address, and which VXLAN links have a
  local one.

## 3. Runs

| Run | Shows | Bounds |
|---|---|---|
| `FieldStream` | the change log alone tells which fields are missing; nothing vanishes silently; what `recorderctl` names as differing from the baseline has a change record | 2 keys, 2 values, every sequence of maps, one reader |
| `Outage` | overflow discards only samples that could never be stored; every other is stored; events the API server has are recorded and settle under their pod's node; the size cap's loop ends | buffer 2, unlimited ticks, one watched sample, any one; one event, one node, at most 2 raw snapshots |
| `Outage_unfiled` | violation: see section 6 | as `Outage` |
| `NodeRecord` | an api snapshot is stored only if it says something else; the change log replays a node's history; its state comes to be stored | 3 states of the object, 2 changes of it, 2 moments, all faults, clock not set back |
| `Ingest_two` | an abandoned request beside its own retry or the next sample: no sample disappears, no change is invented; the agent waits for one request, which carries its head, and only what is stored is accepted | two requests at a time, all faults, 3 samples, buffer 2 |
| `Ingest_complete` | without handler failures buffer and table keep the order, every change is recorded, and once, the tables implement `ChangeLog`, and every tick ends | one request at a time, network faults, 4 samples, buffer 2 |
| `Ingest_lost_change` | violation: see section 6 | one request, all faults, 3 samples |
| `Incident` | one incident, which closes over pods recorded as calm and ends, when statements fail and the collector restarts; rows are true but for failed writes | 2 pods in 2 namespaces, Running or crash looping, thresholds and windows 1, all faults |
| `Incident_stale_row` | violation: see section 6 | 2 pods, collector restarts |
| `Baseline` | the newest baselines survive pruning, the size cap and interrupted markings; nothing unready that the checks saw is marked | 3 moments, one baseline kept, windows 1 |
| `Baseline_outage` | violation: see section 6 | 4 moments, two baselines kept |
| `Sampling` | an overlay in use never becomes not applicable; configuration decides; wrong choices are corrected | 8 views, one driver or none in the configuration, 2 with a DaemonSet; one PID |

Further instances of the same modules, which are not among the project's runs, each
refute one statement of the code's comments and documents (section 6);
`tlc -config <instance>.cfg <module>` prints the trace:

| Instance | Module | Refutes | Bounds |
|---|---|---|---|
| `Ingest_abandoned` | `MCIngest` | `DiffedAgainstPrevious` | two requests at a time, network faults, 3 samples |
| `NodeRecord_lost_flip` | `MCNodeRecord` | `RecordedWithChanges` | as `NodeRecord`, one change of the object |
| `Incident_crash_looping` | `MCIncident` | `ClosedWhenRunning` | 2 pods, failing statements |
| `Baseline_unready` | `Baseline` | `HealthyReference` | as `Baseline`, snapshots retained longer |
| `Sampling_live_change` | `MCNodeSampling` | `PinnedForLife` | 3 views, nothing in the configuration, no DaemonSet |
| `Host_restart` | `HostFacts` | `RestartsReal` | PIDs 9 and 10, 2 starts, 2 boot times |
| `Host_lowest` | `HostFacts` | `LowestPidWins` | as `Host_restart`, with failing reads |

Why the bounds are enough for the cases that matter:

* `Ingest`: a buffer of 2 overflows with the third sample, so 4 samples allow an
  overflow during a retry and a sample after it. One field with two values and
  `absent`, and two drivers, give changes of value, alerts, recoveries, driver
  changes and the absence of a change. One reading is too large for the handler,
  which is the permanent 400. An abandoned request beside its own retry, both of
  which may have read the same previous snapshot, needs two slots: `Ingest_two` and
  `Ingest_abandoned` have them. What holds with several is proved for any number
  (`TypeOK`, `Handshake`, `SamplesAccounted`, `ChangesJustified`, `BufferInOrder`).
  `RecordedOnce` and `StoredInOrder` are false with two, and `Ingest_complete`, which
  claims them, keeps to one request; `FlushEnds` excepts the moments when the bound
  on requests, taken by abandoned ones, keeps the agent from its next post.
* `Outage`: the agent's samples and the events do not depend on each other but
  through the collector's being up and the number of rows, so that one event and
  one watched sample show every case. One row is allowed: a snapshot or an event
  more makes the cap's loop drop something. `MaxSnaps` stands for any larger
  number of snapshots.
* `NodeRecord`: the three objects differ in a value, in a condition that goes missing
  and in both at once, so that there are alerts, recoveries, changes of value and two
  changes to insert after one snapshot. Two changes of the object let it return to
  what it was; with two moments snapshots share a time or do not.
* `FieldStream`: two keys allow a field that one of two maps lacks; two values a
  change of value. Keys and values are symmetric.
* `Incident`: with thresholds of 1 a single pod opens an incident and the other may
  join late; no property is about how many it takes, and the proofs hold for any
  thresholds, pods and namespaces. `States` bounds the pod states that occur: a pod
  in any other state holds an incident open like one that crash loops.
* `Baseline`: a baseline replaced by a newer one needs two markings, which three
  moments allow; all orders of statements, deletions and restarts between them
  are explored. The code keeps four baselines; `Keep` is 1 or 2 in the runs, and
  any number in the proofs, which the number of moments does not bound either.
* `Sampling`: each view is one branch of a `Topology` or `Detect`. Whether the
  configuration names the driver that samples, another one or none decides every
  case; the proofs are for any set of them. A driver's fields and the host's have
  nothing in common but the sample, so that in this run the host has one process
  that comes and goes and a clock that is set; the instances of `HostFacts` have two
  processes.
* The assumptions `MCTimeline`, `MCIncidents` and `MCConfig` compare the pure
  operators with what they are for: `NodeTimeline` over all tables of up to two
  rows, three times and two nodes with a limit of one event; `Incidents` and
  `IncidentRange` over all small ranges; every number of a small word for each
  setting, wrapping minutes included.

Deadlock checking is on in every run.

### Fairness

* `Outage`, `Ingest_complete`: the goroutine is scheduled, and a post ends
  because the HTTP client has a timeout; in `Outage` the agent's ticker fires.
  Nothing is assumed of the network or the collector: neither that it is up, nor
  that a handler gets on, nor that it answers.
* `Outage`, for events: the informers' resync fires (every 5 minutes while the
  collector is up) and the pod cache follows the cluster; an insertion that is
  tried again and again succeeds some time (strong fairness of `Put`, next to
  `PutFails`, which may take any notification); maintenance, once started, runs.
  `RETENTION_EVENTS` is taken to be longer than the API server's hour, so that
  pruning removes no event that is still there.
* `NodeRecord`: the collector is restarted when it is down; the informer's watch and its
  resync (every 5 minutes) come some time, and a statement that is tried again and
  again succeeds some time. Fairness is strong, since the collector may stop before
  any of them; `NodeRecorded` supposes that it does not stop for ever too early.
* `Incident`: time passes (strong fairness, since a unit of time does not
  pass in the middle of an evaluation), the evaluator's ticker fires, the informer
  delivers what it has listed and resyncs every 5 minutes, a collector that
  went down is restarted. Failures of handlers' statements stay possible for
  ever; `IncidentsEnd` supposes that evaluations fail and restarts happen only
  so often.
* `Sampling`: a sample with detection due is taken again and again (the ticker
  and `RedetectEvery`).

## 4. Proofs

All theorems hold for every value of the constants that satisfies the named
assumptions of the modules (`NilAssumption`, `BufferAssumption`,
`SnapshotAssumption`, `IngestAssumption`, `NodeAssumption`, `EventLogAssumption`,
`IncidentAssumption`, `RowAssumption`, `BaselineAssumption`, `SamplingAssumption`, `HostAssumption`,
`ConfigAssumption`), which TLC also evaluates.

* `FieldsProofs`: `ValidIsField` (exactly what the constructors build passes
  `Validate`) and `EqualMapsAreQuiet` (what `RecordNode` skips as unchanged
  would have brought no change), with the lemmas on types of diffs.
* `StreamProofs`, for any keys and values: `AlertsTell` (`OpenAlertIsAbsent`),
  `NoSilentLoss` (`NothingVanishesSilently`), `DifferencesExplained`
  (`DiffExplained`). The first is inductive with the types; the second needs that
  a field in `silent` is present or has no reading. `DiffExplained` rests on one
  relation: map c *follows* map b up to a set of fields if every other field with
  a reading in b is the same in c. It survives a sample (`FollowsOn`), and the
  invariant `ReadInv` says of which pairs it holds: baseline and latest snapshot,
  and, while a request is between its reads, the snapshot it has read and each of
  the two, whichever of them is the newer.
* `OutageProofs`, for any buffer, events and nodes: `OverflowSparesAcceptable`
  (`OnlyUnacceptableDropped`) and the types. Overflow removes the head, so the
  invariant has to say why the head cannot be accepted: a flush against a
  collector that is up ends with an empty buffer or at a sample it refuses
  (`HeldUp`), and `clean` keeps the collector up since the sample was taken.
  `OutageTypes` includes that no batch of the size cap takes more rows than there
  are. Of what `CapEnds` and `NodeSettles` say, the parts about steps:
  `CapGainsGround` ranks the loop of the size cap by three times the rows that may
  go and the statements of this round (`CapLeft`); `SettledStays` says that an event
  filed where its pod runs and the cache has it is not filed elsewhere. `EventsReach`
  is the step argument behind `EventsRecorded`: an event that has reached the
  collector (`Reached`) is taken away by a failing statement or the size cap only.
  `SamplesMoveUp` is the one behind `NothingStuck`: a sample never falls back in the
  buffer, and each accepted post and each tick that finds the buffer full
  (`MovesUp`) brings it one place nearer to the head, from where it leaves.
* `IngestProofs`: for any number of requests at once, any buffer and any faults,
  `TypeCorrect`, `HandshakeHolds`, `NoSampleDisappears` (`SamplesAccounted`) and
  `NoChangeInvented` (`ChangesJustified`). Neither of the last two is inductive:
  why a sample may leave the buffer on a 2xx answer depends on what the answer
  stands for. `Handshake` says it: the agent waits for at most one request,
  which carries the head of its buffer (`OnePost`); requests under way carry
  samples (`Carrying`); a handler that has inserted or answered 2xx has its
  sample in the table, and the changes it still has to write are differences of
  stored snapshots (`HandlerStored`). `TypeOK /\ Handshake` is inductive, and
  with it `SamplesAccounted` and `ChangesJustified` are. `BufferOrdered`
  (`BufferInOrder`) adds that nothing in the buffer is newer than the clock
  (`UpToNow`). `StoredOldestFirst` (`StoredInOrder`) supposes at most one request
  under way, as its property does, and adds that the table is never ahead of the
  request, nor the request of the buffer (`Ahead`). Of what `FlushEnds` says, the
  parts about steps: an agent inside `post` has a request that its client can end
  (`NeverWaitsForNothing`), and each of its steps leaves fewer to come or ends the
  flush (`FlushGainsGround`).

  With one request at a time (`OneAtATime`), for any buffer and readings:
  `ChangesOnce` (`RecordedOnce`) and `ChangesBetweenNeighbours`
  (`DiffedAgainstPrevious`) with all faults; `NoChangeMissed`
  (`EveryChangeRecorded`) and `LogImplemented` (`ImplementsChangeLog`) when no
  handler stops half-way, without which a change may be missing although its
  sample was accepted (`Ingest_lost_change`).
  The invariant `LogInv` says what a handler knows when it inserts changes: its
  sample is the last row (`LatestIsLast` from `StoredInOrder`); the one it compared
  with is either the same sample, stored by an earlier post, since samples are told
  apart by their times (`OneOfATime`), or the newest of the others; and only in the
  latter case are there changes, which are those still to insert together with those
  of that time in the log (`Inserting`). In the refinement a sample counts as
  recorded in the step in which its handler answers; every other step stutters.
* `NodeRecordProofs`, for any states of the object, failures and restarts: the types,
  and, as long as the collector's clock does not go back (`ClockForward`),
  `NothingWrittenTwice` (`UnchangedWritesNothing`) and `HistoryReplays`
  (`LogReplays`). The handler compares with the newest row by time and inserts
  after the last one by id; the invariant says that the two are the same
  (`ComparedWithLatest`, from `Behind`), and that every change still to insert leads
  from what the log says of its field to the last row (`Pending`). Without
  `ClockForward` neither holds (section 6). `OnlyFailuresLoseTrack` is the step
  argument behind `NodeRecorded`: from its delivery on, the version in the cache is
  last in the queue, about to be inserted, or what the latest snapshot says
  (`Tracked`), and only a statement that fails ends that; the next resync begins it
  again.
* `IncidentProofs`, for any pods, namespaces, thresholds, windows and faults:
  `OneIncident`, `ClosedOverCalmPods` (`ClosedWhenCalm`), `RowsAreTrue` (`RowsTrue`)
  and the types. The
  invariant says that the age of a row that says Running is never more than the
  time its pod has been on record as Running (`AgesTrue`), that each pod of the
  incident under evaluation is still to be looked up or was found calm
  (`Evaluating`), and that handlers write pods of the cache (`Cached`). Of what
  `IncidentsEnd` says, the parts about steps: an evaluation is ranked by the lookups
  it has left (`EvaluationsEnd`, for finitely many pods), and a pod that has run for
  the stable window, or is gone and has no row, stays in order for as long as it
  runs on or stays away (`InOrderStays`).
* `BaselineProofs`, for any retention, windows, number kept and length of a
  behaviour: the types, `NewestStay` (`NewestKept`) and `MarkedAreReady`
  (`ReadyWhenMarked`), and two results that no run states: once a source has a
  baseline it has one for good, the newest being replaced by newer ones only
  (`ReferenceStays`), and the first marking that completes, after any number that
  were cut off, leaves at most `Keep` (`MarkingsCatchUp`). The argument about `Trim`
  is one on ranks: the number of newer baselines falls from each baseline to the
  next (`RankFalls`), so that no more baselines than ranks lie in a range of them
  (`FewRanks`): at most `Keep` stay (`TopFew`), and `Keep` above one that goes
  (`TopKept`). `ReadyWhenMarked` rests on `Checked`: until the turn of source api is
  over, an api row from before the checks that is not ready, nor a baseline, has a
  newer one above it, so that it is not the latest; a deletion that takes the newer
  one takes it too.
* `SnapshotProofs`, for all views, configurations and hints: `OutageStaysVisible`
  (`OutageIsAbsent`), `ConfigIsAuthoritative` (`ConfigDecides`) and the types. The
  invariant is that a driver whose mode has a tunnel shows the overlay as present, absent or unknown
  (`TunnelShows`). The steps that matter: a driver that stays keeps its mode
  (`ModeStays`), and the driver a configuration names outscores every other
  (`NamedWins`). From the latter follows what `DetectionSettles` says of steps: the
  next detection takes that driver and no sample drops it (`DetectionTakesAndKeeps`).
* `IncidentProofs`, of the configuration: `AcceptedIsUsable` (thresholds, windows and retentions of an
  accepted configuration are positive, also when minutes wrap around: what
  `IncidentAssumption` and `BaselineAssumption` suppose) and `DefaultsAccepted`.

Only model-checked: everything under fairness (`FlushEnds`, `AcceptableStored`,
`NothingStuck`, `EventsRecorded`, `NodeSettles`, `NodeRecorded`, `CapEnds`, `IncidentsEnd`,
`DetectionSettles`), since liveness is out of the prover's reach: what
is said above to be about steps is what there is to prove of them without `ENABLED`,
and there is none for `AcceptableStored`; the
operators of `Timeline`, which sort. Every invariant and every action property of
the passing runs is a theorem.

## 5. What is left out, and why

* `Baseline` follows one node and at most one snapshot per source and moment;
  alerts come from agent snapshots only; the evaluator's quiet checks, which are
  several reads, are one step, and only the markings after them are not. Of the
  tables of pods it keeps whether they speak against quiet (`trouble`), which may
  change at any time. An agent's samples arrive in their order, as `Ingest` has it
  with one request at a time.
* `Incident` takes one waiting reason per pod; `PodStateOf` picks one of several
  in map order, CrashLoopBackOff before the others. Pods in Completed, Pending or
  Failed are all "Other". Restart counts matter to the quiet checks only and are
  `PodTrouble` of `Baseline`.
* A forced driver (`CNI_DRIVER`) bypasses detection and is not in `NodeSampling`.
  Parsing of `/etc/cni/net.d` and the values of the fields are not in `Cni`.
* A client that gives up cancels its request's context, so that a handler may fail at
  its next statement. `Ingest` has this as `GiveUp` and then `HandlerFails`, where
  handlers may fail; in `Ingest_complete` an abandoned handler runs on, as when the
  connection is cut and the server does not notice.
* Samples have increasing times in `Ingest`: an agent's clock that is stepped back
  is not modelled there (`NodeRecord` has the collector's, which the same query meets).
  Deletions by maintenance next to the handlers are in neither.
* `NodeRecord` takes a node's object as what its fields are made of: which attribute
  goes to which field is a table. Nodes have nothing in common but the statements,
  so that one node shows every case. The order of `PutChanges` is left open.
* `EventLog` follows events of one pod. Events of nodes and of other objects have
  a node that does not depend on the cache. Rows weigh the same in the size cap;
  the rest of the database is a nondeterministic measure. A statement of the size
  cap that fails ends its loop (`CapFails`) until the next maintenance.
* `Readers` has one source; `status` and `diff` ask for both in the same way.
* Migrations, manifests, hack tools and the netlink calls are run once, or pure
  I/O. What the other commands of `recorderctl` and the remaining read handlers
  do is format one answer.

## 6. Where the code and its documents disagree

Each is shown by the run, or the further instance, of that name:

* `Ingest_lost_change`: `agentSnapshot` "diffs it against the previous agent
  snapshot for that node, and stores both" (`internal/api/server.go:278-279`).
  When it stops after `PutSnapshot`, the retry finds its own copy as the
  previous snapshot and is accepted: the agent drops the sample, and the change is
  lost for good.
* `Ingest_abandoned`: agent fields "are diffed against the previous agent snapshot
  for that node" (`docs/ARCHITECTURE.md:94`). A request of an agent that has been
  restarted meanwhile may be handled after one for a newer sample. The older sample
  is then compared with the newer one, so that a field that has vanished is recorded
  as if it had appeared (`DiffedAgainstPrevious`; it, `StoredInOrder` and
  `RecordedOnce` hold with one request at a time only).
* `NodeRecord_lost_flip`: `RecordNode` "diffs it against the previous api snapshot,
  and persists both" (`internal/informers/collector.go:150-151`). When `PutChanges`
  fails, every later delivery finds the stored snapshot unchanged and the change,
  a node that is no longer ready, say, is never recorded.
* `Incident_stale_row`: "Delete the pod or the incident closes when it does"
  (`docs/TROUBLESHOOTING.md`). A pod deleted while the collector is down keeps
  its row, so the incident stays open.
* `Incident_crash_looping`: "Every affected pod must be `Running` with no waiting
  reason" (`docs/TROUBLESHOOTING.md:93`). When `UpsertPod` fails after the transition
  was inserted, an incident opens for the pod and closes again over a row that still
  says Running while the pod crash loops. `ClosedWhenCalm`, which does hold, is about
  the rows. The same can happen while a handler is between its two statements, which
  `ClosedWhenRunning` excuses.
* `Baseline_outage`: "A snapshot taken while something is missing is not a
  healthy reference" (`internal/incident/incident.go:147-148`). Only alerts
  within the stable window count; an outage that lasts longer is marked healthy.
  Comment and tests disagree: `internal/incident/incident_test.go:123-127` expects
  the marking once the alert has left the window.
* `Baseline_unready`: `baseline` marks when there is "every node Ready"
  (`internal/incident/incident.go:129-131`). `MarkBaseline` flags whatever is the
  latest row at the time of its statement; a node recorded as not ready after the
  checks becomes a baseline (`ReadyWhenMarked` speaks of the rows that were there).
* `Sampling_live_change`: modes are "pinned for the agent's lifetime"
  (`docs/LIMITS.md:24-25`). A detection that cannot read the links drops the driver,
  and the next one takes a new instance, which infers its mode anew: an overlay that
  is down by then is declared not applicable (`OutageIsAbsent` speaks of one
  instance).
* `Host_restart`: "start times (a change is a restart)" (`docs/LIMITS.md:22`). The
  start time is the boot time plus the process's ticks; setting the wall clock
  moves it, and a boot time that cannot be read counts as 0.
* `Host_lowest`: "The lowest PID wins when several match"
  (`internal/host/facts.go:90`). `os.ReadDir` sorts names, not numbers: 10 comes
  before 9.
* `Outage_unfiled`: of the timeline, "Everything recorded on that node, oldest
  first" (`docs/RECORDERCTL.md:41`). The resync and every restart deliver an event
  again, and `PutEvent` replaces its row. When the pod has gone by then, an event
  without a `Source.Host` is filed under no node and leaves the timeline.

Seen while modelling, without a run of their own: a flannel agent that starts before
`flannel.1` exists pins `host-gw`; with a stable window shorter than the grouping
window an incident that closes opens again over the same crash loops, and so does, on
every evaluation, one whose pods have been deleted while their crash loops are in the
grouping window.

* `LatestSnapshot` goes by time. After the collector's clock has been set back, a
  changed node is stored below the snapshot before, which stays the latest, so that
  every resync stores the same snapshot and changes again until the clock has caught
  up, though `RecordNode` says "Unchanged resyncs write nothing"
  (`informers/collector.go:152`). `NodeRecord` with `ClockSteps = {1, -1}` shows it.
* When the size cap has deleted a node's latest api snapshot, a baseline row is the
  latest, and the next resync of an unchanged node records the change to the
  present again, though `RecordNode` says "Unchanged resyncs write nothing".
* `Events` limits in ascending order, so that a timeline with more than 1000
  events lacks the newest ones (`MCTimeline`).
* `GET /incidents` with a `to` more than an hour ago and no `from` is refused,
  although its default range is 30 days (`MCIncidents`); the changes attached to an
  open incident end at its opening.
* `recorderctl diff` prints "matches baseline" below the note that there is no
  baseline, and `status` takes a failed request for a node's difference as none.
* `run` returns as soon as `ListenAndServe` does, which is when `Shutdown` begins,
  so that the 10 seconds of grace for handlers are not waited for.
* Minutes wrap around in `int64`, and the check for an empty `STORAGE_DSN` cannot
  fail, since the empty string stands for the default.
* A node that has left the cluster stays in the lists, and stands in the way of all
  baselines, for as long as one of its snapshots is retained.

## 7. Plan

Written so far, in this order: `Fields`, `Agent`, `Snapshots`, `Ingest` with
`ChangeLog`, `Incident`, `Baseline`, `Cni` and `NodeSampling`; then `Readers`,
`EventLog` and `Outage`, `NodeRecord`, `HostFacts` and `AgentSnapshot`, `Timeline`, `Config`, and
the theorems on all of them but `Timeline`. Next, in order of importance:

1. Maintenance next to the handlers: `Ingest` and `NodeRecord` with `Prune` and
   `DropOldest`.
2. `Baseline` for several nodes, one of which has left the cluster.
3. `PodStateOf` and `PodTransitions` with several containers.

Theorems: those of the first two items as they are written; the operators of
`Timeline`, restated without sorting.
