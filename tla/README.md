# Verification of Cider

Cider watches the storage of a fleet of hosts: a collector (`ciderd`, Rust) runs bounded
commands on each host and reports what they saw in heartbeats; a server (`cider-server`,
Rust, SQLite) keeps an inventory, detects incidents, opens attention episodes for the
operators and sends text messages about them; a web console shows the rest.  This
directory holds TLA+ models of that code, TLC runs that check them on small instances and
TLAPS proofs of what matters most for every instance.

`PROJECT.json` lists the components, the runs, the mutants (a plausible bug for every
property, which the property catches), the source lines of every definition, and the
hazards of the code with the properties that cover them.

## Inventory

| Component | State | Operations | Hard behaviours | What makes it correct |
|---|---|---|---|---|
| Attention episodes, `server/src/attention.rs` | `attention_episodes` (status, severity, revision, acknowledgement, evidence, pending intent) | `observe_condition`, `acknowledge`, `reconcile` | two observations of one disconnect in either order, recovery while a message is in flight, retention and bounds | a concern is announced once per transition, never dropped in silence |
| SMS outbox, `server/src/notifications.rs` | `notification_outbox`, `notification_settings`, the worker's job between its two locks | `configure`, `enqueue`/`admit`, `retry_pending`, `step`, `recover` | HTTP outside the lock, lost responses, crash between claim and outcome, full outbox | at most one message per transition, bounded, settled in the end |
| Command runner, `ciderd/src/command.rs` | permits, pending, recovered, quarantined, scopes, journal files, supervisor tasks | `new`, `launch`, `supervise`, `shutdown` | slow or failing metadata disk, deadline races, crash between journal and spawn, pid reuse, changed limits | one process per scope, within the budget, all on record, exact counters |
| Scheduler, `ciderd/src/scheduler.rs` | due times, outstanding jobs per key, run ids, the cache of collections | `start`, `jobs`, `collect`, `apply`, `apply_collection`, `prune`, `set_generation`, phases | results of an older generation, phase after result, coalesced misses | one outstanding operation per key, no stale result applied, every snapshot valid |
| Runtime and heartbeats, `runtime.rs`, `heartbeat.rs`, `state.rs` | sequence, retained heartbeat, acknowledged revisions, metadata on disk | `reconcile_group`, `snapshot`, `prepare`, send, `acknowledge`, `persist_metadata`, shutdown | lost answers, late heartbeats, final heartbeat, a crash before the metadata is written | nothing is forgotten before it is acknowledged; the server catches up |
| Identity, enrollment, `identity.rs`, `cider.rs` | generation and credential on disk | `load`, `Session::open`, `enroll` | crash before and after durable writes | a generation is never reused by another session |
| Heartbeat ingestion, `server/src/cider_api.rs` | receipts, receiver state, graph with versions, records | heartbeat handler, `update_graph`, `observe_drive_removals` | replays, reordering, restarts of the collector, missing inventory | each heartbeat counts once, newer state is never undone, a removal needs proof |
| USB watches, `device_watch.rs` | streaks, armed, epoch, baseline, open concerns | `ingest`, `conditions` | context changes, one absent sample, stale observations, a full table of episodes | a concern needs two absences of an armed watch; no concern outlives its watch |
| Detection, `detection.rs`, `detection_store.rs`, `security_rules.rs` | baseline, streaks, findings, the filesystem rules' sources | `observe`, `reconcile_sources`, `rebaseline`, `retain` | gaps, late and repeated observations, a full table of episodes | in the detector, missing data breaks streaks and never resolves; the documents ask the same of the filesystem rules, whose code counts what was not read as quiet (see findings) |
| Reliability, `reliability*.rs` | readings, counters, findings | `observe`, `reconcile_sources` | counters that go back, replaced devices | missing data breaks streaks and never resolves |
| Authentication and version-1 ingestion, `api.rs`, `store.rs` | replay ids, tokens, nodes, batches | `authorize`, `enroll`, batches, `counter_rate` | repeated requests, tokens used twice | a token and a request count once |
| Retention, `workers.rs` | rollups, samples, change log | `maintain`, the worker loop | partly pruned buckets | a rollup is not rewritten from less data |
| Read API and views, `read_api.rs`, `disk_view.rs`, ... | none of their own | cursors, pages | snapshots under concurrent writes | a page belongs to one snapshot |
| Web console, `web/js` | session, pages in flight | polling, paging | stale answers | a newer answer is not replaced by an older one |
| Simple NFS server | `/etc/exports`, mounts | `setup`, `mount` | failure between write and check | the old exports come back |

How they interact.  The scheduler launches commands through the command runner and applies
their results to the state; the runtime turns the state into heartbeats.  Ingestion writes
the graph and the records in one transaction under the server's writer lock, and calls
detection, reliability, the watches and attention inside it.  Every five seconds the worker
loop calls `attention::reconcile`, which re-evaluates all sources under the same lock (the
models of the analysers cover what is called inside the ingestion transaction).
Attention calls the outbox inside its own transaction.  The notification worker is another
loop of five seconds: it takes the lock twice per step and does its HTTP request in
between.  The console and the demos only read, acknowledge and configure.

## Modules

| Module | What it models |
|---|---|
| `Outbox` | `notifications.rs`: the database record, admission, deferral, eviction, `retry_pending`, `configure`, the sweep |
| `Attention` (extends `Outbox`) | `attention.rs`: `observe_condition`, correlation and hand-over, `acknowledge`, head and tail of `reconcile` |
| `Notifications` (extends `Attention`) | the handlers as transactions, the worker's step split at its locks, the provider, crashes, time |
| `Delivery` | the abstract promise of the outbox: one message per transition, settled once |
| `MCNotifications` | instances for TLC |
| `NotificationsProofs` | theorems about `Notifications`: its inductive invariant, messages and intents, the refinement of `Delivery` |
| `OutboxProofs` (extends `NotificationsProofs`) | theorems about the bound of the outbox, its flag, dropped concerns and disconnects |
| `CommandRunner` | `command.rs`: admission, supervisors, journal, child processes, restart and reboot |
| `WorkBudget` | the abstract promise of admission: one process per scope, within the budget |
| `MCCommandRunner` | instances for TLC, with the symmetry of jobs and of scopes |
| `CommandRunnerProofs` | theorems about `CommandRunner`: its inductive invariant, processes, records and scopes |
| `BudgetProofs` (extends `CommandRunnerProofs`) | theorems about its counters, and the refinement of `WorkBudget` |
| `Inventory` | `state.rs`: the inventory of the collector, its groups, ownership, retirement, tombstones, derived links, quota targets, the start over a saved inventory |
| `Ingestion` (extends `Inventory`) | `cider_api.rs`: what the server keeps of a collector and the heartbeat handler |
| `Heartbeats` (extends `Ingestion`) | `runtime.rs`, `identity.rs`, `acknowledge`, `snapshot` and `prepare`: one collector, a network and the server |
| `Telemetry` | the abstract promise of ingestion: state moves forward only, each event counts once |
| `MCHeartbeats` | instances for TLC |
| `HeartbeatsProofs` | theorems about the operators of `Inventory` and about `Heartbeats`, and the refinement of `Telemetry` |
| `Scheduler` | `scheduler.rs`: the loop of one kind of collector, its tasks, the state owner's cache |
| `MCScheduler` | the instance for TLC |
| `SchedulerProofs` | theorems about `Scheduler` |
| `DeviceWatch` | `device_watch.rs`: the USB watches of a node and their attention keys |
| `Baseline` | the ring of intervals, the readiness of a baseline and its thresholds, shared by the next two |
| `Detection` (extends `Baseline`) | `detection.rs`, `detection_store.rs`: the activity detector of a driver and direction |
| `Reliability` (extends `Baseline`) | `reliability.rs`, `reliability_store.rs`: the assessment of a drive |
| `SecurityRules` | `security_rules.rs`: the filesystem rules |
| `Analysers` | the four analysers on the heartbeats of a node |
| `MCAnalysers` | the instance for TLC |
| `AnalysersProofs` | theorems about each of the four analysers |
| `Induction` | induction over numbers, and counting the first of ordered elements, for the proof modules |

### Attention and notifications

The code changes the database in SQLite transactions that hold the process-wide writer
lock, so each function is an operator from a database to a database (`Admit`,
`RetryPending`, `Observe`, ...), composed as the code calls them; each handler is one
action.  Fresh UUIDs are the next numbers.  A row's `transition_key` is
`episode:revision`; a revision is never reused, so the revision names the row.  Ages count
fractions of the 24 hours after which the code gives up, saturating at `MaxAge`: an age
equal to `MaxAge` stands for "more than 24 hours".  In `Forgettable` it also stands for
"more than 30 days", so retention may come earlier than in the code, in more interleavings.

`retry_pending` is a loop that admits intents, oldest first, and stops at the first that
finds the outbox full.  Since no admission makes a row evictable (it only inserts queued
rows), the set it admits can be told before it starts: `Admissible` counts the free and the
evictable rows ahead of each intent, `Reached` is what the loop gets to.

The worker's `step` has three parts: `ClaimSend`, `ClaimPoll` or `SweepOnly` (first lock,
sweep included), `Respond` (the request; the provider may have created the message
although the answer was lost), and `Record` or `RecordFails` (second lock).  `made` counts
messages the provider created for a transition.  A `Crash` may come anywhere, and may leave
a request that still reaches the provider.  Credentials are read once per start
(`worker.client`).  Due times only decide when a row is claimed, so a step may choose any
row the selection allows.

`owner`, `made`, `relieved` and an episode's `from` (the code's
`notification_transfer_from`) are history or evidence that the properties read; no guard
depends on the first three.  `relieved` holds the episodes that an operator
acknowledged and those whose waiting notification another concern took over.

An episode that correlates with an earlier one is not announced itself.  `NoConcernDropped`
says what it then relies on: an earlier episode that is open, whose notification waits to be
handed over or did until the offer expired, that is relieved, whose notification was outdated by
new settings, or whose row the worker had claimed before the recovery.  The last is the case
in which `hand_over` shows the code to lose a concern.

### Command runner

One runner is one work class with its journal directory.  A job is one accepted launch;
its journal file has a fresh UUID, so the job names the file.  `job[j].pc` is the stage of
`supervise`:

    intent ── ready ── running ── pidwait ── remove ── drop ── permit ── done
       └─── late (answered early) ─────────────┘
    watch (recovered pid) ─────────────────────┘        stuck (recovered intent)

A turn of the `select!` loop is one action, with the shutdown override and the termination
that the code does at its end (`Turn`).  Journal writes run on blocking threads: their end
(`WriteEnds`) and the supervisor's observation of it are separate steps, and a failed write
may have replaced the file or not.  Releasing a reservation takes three steps, as in the
code: the record, the counters (`Reservation::drop`), then the permit field.  `Crash` loses
the daemon's memory and keeps files and children; `Reboot` ends every process and makes
every record one of another boot.  `Start` follows `recover_records` and the loop of `new`;
permits go to the first records read, in any order (`lucky`), and a reused pid keeps a
record whose process is gone (`kept`).

TimedOut, OutputLimit and Cancelled are one outcome, "stopped": the code treats them alike.
The journal is always present, as in the daemon; the runner without one is used by tests.

### Heartbeat protocol

The methods of `State` change the metadata in one piece or, on an error, not at all, so each
is an operator from an inventory `[m, rev]` to an inventory: a record `[rev, val]` per
entity, a tombstone revision per deletion that the server has not acknowledged, and the
members of each group.  A value holds what decides whether a record changed: the content a
source reports, `observed_agent_session`, `association_state`.  The state owner handles one
message at a time and publishes a snapshot after each, so one message is one action
(`Enumerated`, `Raise`, `RequestInventory`, `HandleAck`) and the heartbeat loop sees the
state between two actions.  `Persist` is the task that writes the metadata later; `Stop` and
`Crash` take what is in memory with them.

The handler of a heartbeat is one transaction and so one operator, `Receive`: receipts
first, then the checks (`Refused`), the graph, removals and returns of devices, and the
projection of events.  A session is a fresh UUID made with its generation, and a boot
changes only with it; the generation stands for all three.  Collections take the path of
events (`record`, `mark_projected`) and are not modelled twice.  The network may lose a
heartbeat, keep it to hand it over again, or deliver it after later ones; an answer may be
lost, or find the mailbox of the state owner full.

`Telemetry` is refined by the map: the last generation and sequence of the receiver, the
generation and revision of every entity, the rows of every event.

### Scheduler

One kind of collector with its loop and the state owner.  `Tick` takes the jobs of the
snapshot that are due, `Admit` launches one or finds the pool full, `Finish` and `Exit` are
the tasks, `Join` is the loop's `join_next`.  What they tell the state owner goes through a
mailbox (`Handle`), and in between the resources may go and come back (`Rescan`): a
mount that returns has another generation, a disk has not.  The cache is the
set of collections in `results`, with a slot per scope that names the last attempt and the
source of each metric; `prune` keeps what a slot refers to.  `MaxRetained` stands for the
limits on number and bytes.  `Offer` and `Answer` are the heartbeat as the cache sees it.
`history`, `stored` and `acked` are read by properties only.

### Analysers

The transaction that accepts a heartbeat hands its collections to the watches, the activity
detector, the drive assessment and the filesystem rules.  Each has tables of its own and
reads none of another's, so `Analysers` shows the steps of one of them per behaviour
(`focus`), which makes the state space the sum and not the product of the four.

Time is in ticks; an entry of a baseline ring holds how long ago its interval began and
ended.  A collection is reduced to a reading: what the analyser's code distinguishes, with
"failed", "untimely" and "decreased" for the ways a counter may be of no use.  Of the fifteen
reliability rules and the eleven filesystem rules one of each kind is modelled (a direct
condition, a counter, a service time; activity, mount health, lost snapshots): rules of one
kind differ in the field they read and in their thresholds.  Of the findings tables the open
rows are counted, which is what `OpenFindingsAreLive` compares with the state of the sources.

`observe_condition` makes no episode while `MAX_EPISODES` exist, and its callers do not look
at the answer.  The table is shared with all other sources, so whether a new episode finds
room is a choice in every step of the watches and the rules.  The histories `omitted` and
`unlisted` hold the concerns that found none; a watch is told again at its next observation,
a rule only when its finding is saved again, the loss of snapshots only at the next one.
`EpisodesFollowWatches` and `RuleRowsAreLive` say that nothing else is missing and nothing
is shown that was not concluded.

A filesystem rule judges an interval "open", "clear" or "silent": silent is a counter without
a rate, or a mount collection that reports nothing.  The code counts both of the latter
towards recovery, which `RuleOpensOnRun` states as it is and the run `unread` holds
against the documents.  Rules with an upper limit on a second counter could also open
because that one was not read; the rule modelled has one counter.  `nvme.spare_decline`, whose
counter falls where others rise, is taken with the counter rules of drives.
Properties of the form "a finding opens only after ..." are stated on history variables that
record what was observed (`recent`, `unbroken`, `verdicts`, `reading`, `worked`, `runs`), not
on the counters the code keeps.  A history begins anew only where the observations have a
gap.  A state that grew too large to be stored (`oversized`) is none: the code then empties
the ring and ends the finding but keeps what its episode counted, so `unbroken`, `verdicts`
and `worked` go on there.

## Runs

| Run | Instance | Shows |
|---|---|---|
| `outbox` | an outbox of 1, one configuration change, and one of two scenarios: a concern with 2 episodes, 4 revisions and one crash; or a USB presence and the removal of its disk with one epoch, 3 episodes and 5 revisions; 539 248 states | `TypeOK`, `AtMostOneMessage`, `PendingIntentIsCurrent`, `LimitedWhilePending`, `OutboxBounded`, `NoConcernDropped`, `OneMessagePerDisconnect`, `LiveRowsStay`, and `DeliveryPromise` (refinement of `Delivery`) |
| `settle` | the concern of `outbox`, smaller, with fairness | `RowsSettle`, `IntentsSettle` |
| `hand_over` | the disconnect of `outbox` | a violation: see findings |
| `runner_safety` | 3 launches, 2 scopes, limits 1 and 2, 2 starts | `TypeOK`, `OneChildPerScope`, `ChildrenAreRecorded`, `RecordsAreReserved`, `AccountingExact`, `BudgetPromise` (refinement of `WorkBudget`) |
| `runner_answers` | 2 launches, 1 scope, 1 start, with fairness | `AnswersByDeadline`, `ReservationsEnd` |
| `quarantine` | 1 launch | a violation: see findings |
| `protocol` | a host, a disk with a namespace (a group the disk owns), an I/O driver and its derived link; 1 event, 2 sessions of 3 heartbeats, 2 enumerations or inventory requests, 1 fault; 211 638 states | `TypeOK`, `NoConflict`, `DeletionIntentKept`, `AcknowledgedIsHeld`, `EventsAccountedFor`, `TelemetryPromise` (refinement), `CatchesUp` (liveness) |
| `lingering` | a host and a disk | a violation: see findings |
| `removal` | a host and a removable disk | a violation: see findings |
| `scheduler` | a mount and a disk, 1 metric, 2 runs, 2 enumerations, 1 heartbeat, room for 1 collection; 1 845 858 states | `TypeOK`, `SnapshotIsValid`, `CarriedIsCurrent`, `LatestReadingKept`, `DiscardsCounted` |
| `analysers` | a device with a serial number and one without, one driver, 2 link rates, room for 1 watch; 3 activity rates, 2 buckets, 3 service times; 2 sessions, 2 epochs; a horizon of 6 ticks; 123 084 states | `EpisodesFollowWatches`, `Unmixed`, `OpenFindingsAreLive`, `VerdictsEarned`, `FindingEarned`, `RecoveryEarned`, `NewErrorsOnly`, `RuleOpensOnRun` |
| `unread` | as `analysers` | a violation: see findings |

Why the bounds are enough.  An outbox of one row is full as soon as anything waits, so
deferral, eviction, the stop of the retry loop and the limit flag all happen; two episodes
of one key give a recovery followed by a new opening, and the batch of a reconciliation
(two conditions in one transaction) makes a second intent compete for the row.  Four
revisions are an opening, an escalation, a recovery and an opening.  The disconnect needs
an opening of each key, a recovery of each, and one reopening: five revisions.  The
constraint `OneConcern` keeps the two scenarios apart, each with its bounds, so that the run
explores their sum.  A retry
limit of 2 distinguishes a refusal that is retried from the last one.  Two ages tell young,
older and expired.  For the runner, three launches on two scopes put one job in the way of
another both by scope and by limit, while a third follows; limits 1 and 2 make a restart
shrink the budget below what is recovered, and two starts let a record outlive a daemon
that had itself recovered others.  `MaxAdmitting` is 1: an `Attempt` only reads a flag, so
launches waiting between the two checks do not affect one another.

For `protocol`, two sessions give a restart over a saved inventory, a refused one and late
heartbeats of an older session; three heartbeats of a session are the one that announces,
the one that acknowledges a deletion and one that is late, repeated or lost in between.  Two
enumerations are a disk that comes and goes, or comes back; ownership and the derived link
make one deletion take others with it.  One fault is enough for each property to have its
mutant; the interplay of two faults in one behaviour was left out for the five minutes of a
run.  `Calm` is the sequence after which nothing goes wrong and nothing new is observed, so
that the last heartbeats show whether the server catches up.  For `scheduler`, two runs give
a result of an older run or of an older generation next to a newer one, and a cache with room
for one collection makes every acceptance compete with what is retained.  For `analysers`, an
opening of three ticks is longer than one interval and shorter than the horizon, a ring of
two intervals overflows, two epochs and two sessions break every row in every way, and room
for one watch of two devices is the limit.  The horizon is six ticks, so that a finding can
be open, its state oversized and the recovery complete before the ring is empty; a horizon of
four forgets the intervals before that.

Bounds without counterpart in the code: `MaxEp`, `MaxRev` (UUIDs used up), `MaxConfig`,
`MaxCrashes`, `Jobs`, `MaxRestarts`, `MaxAdmitting`; `MaxGen`, `MaxSeq`, `Calm`, `MaxNet`,
`MaxFaults`, `MaxWork`; `MaxRuns`, `MaxScans`, `MaxBeats`; `MaxWatchSessions`,
`MaxWatchClocks`, `MaxSessions`, `MaxEpochs`, `MaxRevision`, `MaxCount`, `MaxRuleClocks`,
`MaxRuleEpochs`, `MaxGrowth`, `MaxSnapshots`.  The code's own, made small: `MAX_OUTBOX`,
`MAX_EPISODES`, `RetryLimit`, `Limits`, `EventLimit`, `MaxRetained`, `MaxWatches`,
`MaxIntervals`, and the durations and counts of the policies (`Horizon`, `Opening`,
`Recovery`, `ReadyTicks`, `OpenIntervals`, ...).

With every bound reached, the sweep and the clock of the notification model, and restarts
refused for want of a record, still step, so those runs check deadlock.  The runs of
`Heartbeats`, `Scheduler` and `Analysers` do not: a session that has used up its heartbeats,
a kind that has used up its runs, or a node whose last session ended, stops there by the
bound alone.

### Fairness

Notifications: the worker loop runs a step every five seconds, a request times out after
ten, the outcome is recorded or the write fails, the service manager restarts a dead
server, and time passes.  Nothing is assumed of the provider, of the handlers or of which
row is claimed.  The start-up recovery is taken to succeed: when it fails the code ends the
worker until the next start (listed as a hazard).

Runner: `AnswersByDeadline` assumes that a supervisor task runs when it can and that the
deadline passes (`GiveUp`, `Interrupt`).  It assumes nothing of the disk or the child: the
answer does not depend on them.  `ReservationsEnd` also assumes `HostRecovers`: a write
that was begun ends, a removal that is retried every second succeeds at last (strong
fairness, since failures come in between), and a killed child exits.  It assumes nothing
about pipes, which a descendant may hold open: the deadline closes them.  Both say nothing
of what the daemon's crash interrupts, nor of a record recovered without a pid, which the
code keeps until an operator acts.

Heartbeats: the service manager starts a collector that has ended, and the start ends; the
state owner handles its mailbox, the metadata is written, the loop makes its next attempt
after its interval or back-off, and an attempt ends by its timeout; the network delivers or
loses each heartbeat.  Nothing is assumed of enumerations, events or faults.  `CatchesUp`
is about a collector that stays up: `<>[](pc = "on")`.  The scheduler and the analysers have
no liveness property: a job may find the pool full for ever, and an analyser only answers.

## Findings

`hand_over`: an episode recovers while its row is being sent.  The recovery hands a
notification over only if its row is queued or an intent is pending; the row in flight is
neither.  When the provider refuses it with 429, the outcome is written back as queued, on
an episode that is resolved and will not be claimed; the row fails a day later and the
correlated concern, still open, is never announced.  The comment at
`server/src/attention.rs:130-131` says the notification is preserved when the first of the
two "recovers before delivery".

`quarantine`: when the pid cannot be written, the caller is answered `SpawnFailed` while
the child is alive.  The child is killed, but it is not counted by `quarantined_count`,
whose comment (`command.rs:259-260`) says it counts children with a published observation
whose exit has not been confirmed.

`lingering`: the metadata is written by a task of its own after a snapshot was published,
and neither the heartbeat loop nor the shutdown waits for it.  A session can announce an
entity and end before the write; the next session restores an inventory that does not know
of it, never makes a tombstone, and the server holds the entity for ever.  The contract says
deletion intent is retained "so a crash cannot leave a removed disk permanently present on
the server" (`ciderd/contract/guide.org:733`).

`removal`: which session observed a device is taken from the heartbeat that last announced
its record, and the first heartbeat of a restarted collector announces its whole saved
inventory.  A disk that left while the collector was down gets a tombstone at the first
scan, and the removal is raised although this session never saw the disk.  The comment at
`server/src/cider_api.rs:180-181` says that removal must follow an observation in this agent
session and that cleanup of a previous session is not a disconnection.

`unread`: the health of an NFS mount looks at no collection's status and keeps what is not
reported as it was.  After one collection that reports the mount well, one that failed or
reported nothing is the second clear observation and resolves the finding, with
`observation_state` "current".  `docs/disconnection-alerts.md:70-71` says that missing, failed
or stale observations keep an open concern unresolved, `docs/operator-attention.md:20-21` that
they cannot establish recovery, and so does the first line of `server/src/attention.rs`.  The
trace is of a mount, being the shortest; the part of the property about activity fails too: a
metric without a rate (not available, another epoch, a decrease) is left out of an interval, a
rule takes what is left out as 0, and enough such intervals resolve the finding.

## Proofs

`NotificationsProofs` assumes `BoundsAssumption`, `KeysAssumption` and `ReportsAssumption`
(positive bounds, disjoint key sets, conditions of their type) and proves for all values of
the constants:

- `Invariance`: `Spec => []IInv`.  `AtMostOneMessage` is not inductive: that a queued row
  has made no message depends on what a claim, an outcome and a crash each leave behind.
  `IInv` adds, for the database, that unallocated identities are unused, that two episodes
  have different revisions, that a row has an owner, that a muted episode has no row, and
  that a pending intent is current; for the rows, that queued means nothing was created and
  the retry limit is not reached, and accepted means one message with its sid; for the
  worker, that the row it holds is as the claim left it and, between the two locks, what the
  answer proved.
- The argument has two layers.  Each operator on databases (`Defer`, `Insert`, `Admit`,
  `RetryPending`, `Recover`, `Reopen`, ...) has a lemma that it keeps `DatabaseInv` and
  moves each row only in the ways a handler may (`Kept`, `RowMove` in the proof module); the
  lemmas compose as the operators do.  Then one lemma per action.
- `TypeCorrect`, `AnnouncedOnce`, `IntentsAreCurrent` follow from `IInv`.
- `KeepsThePromise`: `Spec => DeliveryPromise`, the refinement of `Delivery` under the map
  `Phase`, from `IInv` and the row moves.

`CommandRunnerProofs` assumes `RunnerAssumption` (finitely many jobs, positive limits) and
proves:

- `Invariance`: `Spec => []IInv`.  `OneChildPerScope` speaks of live processes only; what
  carries it through crashes are the records on disk, and within a daemon the reservations.
  `IInv` says what each stage knows of its record and its child (`Placed`), what holds with
  or without a daemon (`Traced`: every live process has a record), that no scope is engaged
  twice by record or reservation (`Disjoint`), and that `held` is 1 exactly for the scopes
  with a reservation (`HeldExact`), which is what `Admissible` reads.
- Steps of one supervisor that leave `held` alone share a lemma (`LocalStep`); `Admit`,
  `Drop`, `Start`, `Crash` and `Reboot` have their own.
- `ChildrenRecorded`, `RecordsReserved`, `OneChild` follow.

`OutboxProofs` adds to `IInv` and `ReportsAssumption`:

- `OutboxInvariance` (`OutboxInv`): the outbox within its bound (`Bounded`), pending intents
  only under the flag (`Flagged`), and each episode heard (`Heard`).  Each operator on
  databases has a lemma that it `Serves` these.  The bound is a count: `Oldest` evicts the
  first so many evictable rows in order of age and `Admissible` admits the first so many
  intents, which `FirstOnes` of `Induction` counts, so an admission never adds more than is
  free or was freed.  The flag is kept because a retry that stops raises it again for
  what it leaves.  `OutboxIsBounded`, `LimitIsShown` and, from the way each operator leaves a
  queued row (`Stays`), `LiveRowsAreKept` follow.
- `TendedInvariance` (`TendedInv`), for `NoConcernDropped`.  That an episode relies on another
  (`Heard`) is not enough: the other may recover with its notification withdrawn.  `TendedInv`
  says of every disconnect that is not relieved: when a notification of it was withdrawn under
  the settings in force (`Silenced`), it has recovered and no open concern relies on it any
  more, unless it holds the transfer (`Served`); and no row of a recovered episode waits that
  was never claimed.  Inside one transaction both may fail for the episode being handled, so
  `Tended(d, S)` leaves out a set.  `ConcernsAreHeard` follows.
- `PairedInvariance` (`PairedInv`), for `OneMessagePerDisconnect`: each row belongs to its
  owner (`Attributed`); an episode of a disconnect has one transition to announce, and has
  not announced it while it waits or relies on the other observer's episode (`Single`); only
  disconnects rely on each other (`Correlated`); and an episode whose notification was taken
  over has made no message and never will (`TakenUnsent`).  It needs `DisconnectAssumption`:
  every report of a disconnect is a warning, as `device_watch.rs` 391 and `cider_api.rs` 364
  and 387 make it.  Were a severity to rise, one episode would have two messages.

`BudgetProofs` (with `RunnerAssumption`) proves `CountersAgree`: the counters are the
cardinalities of the sets of jobs they stand for (`Tallied`), a recovered record is only
watched and released (`Standing`), and while a job of this session has a reservation, all
reservations are within the limit.  That last part is what a restart under a smaller limit
needs: recovery may exceed the limit, and then nothing is admitted until it does not.
`TypeCorrect` (no counter wraps) and `CountersAreExact` follow.  `KeepsTheBudget` shows that
each step ends processes, begins one within the limit or changes the configuration, which are
the steps of `WorkBudget`.

`HeartbeatsProofs` assumes `InventoryAssumption`, `IngestionAssumption` and
`HeartbeatsAssumption` (finite sets of entities and groups, ends of links that are
resources, bounds that are numbers) and proves:

- `EnumerationIsSound`, `RestartIsSound`: each reconciliation, and the start over a saved
  inventory, leads from a sound inventory to a sound one that evolves from it: an entry
  changes only with the new revision, and a record goes only into a tombstone.
- `Invariance`: `Spec => []IInv`.  Three parties hold copies of one session's inventory: the
  collector, the heartbeats in the network, and the server.  `IInv` says of every two how
  the later one differs from the earlier one: entries that differ are newer (`Follows`), what is
  announced stays or leaves a tombstone (`Covered`), what the server has not got is newer
  than what it acknowledged (`Ahead`), a heartbeat that is not stale does not fall behind the
  server (`NotBehind`), a heartbeat without inventory has its inventory at the server
  (`Grounded`), and what was answered was taken in (`TakenIn`).
- `TypeCorrect`, `NothingConflicts` (the server never meets two values of one version),
  `DeletionsAreKept`, `WhatIsAcknowledgedIsHeld`, `EventsAreAccountedFor`, and the refinement
  `KeepsThePromise`.

`SchedulerProofs` assumes `SchedulerAssumption` and proves `Invariance`: a run's number is
with its task, in the mail or recorded, and in one of them only (`LoopOK`, `MailOK`); the cache holds
exactly the collections that slots refer to (`Complete`, `Owned`); the latest reading of a
metric in the history is the one its field refers to (`HistoryOK`); and what is discarded is
counted in the step that discards it (`Tally`).  From it `TypeCorrect`, `SnapshotsAreValid`,
`CarriedAreCurrent`, `LatestReadingsAreKept` and `DiscardsAreCounted`.

`AnalysersProofs` assumes `DeviceWatchAssumption`, `BaselineAssumption`,
`DetectionAssumption`, `ReliabilityAssumption` and `SecurityAssumption` (rates, speeds and
counts are numbers, an interval is shorter than the horizon, `LowExcess` does not exceed
`HighExcess`).  The code
acts on counters; the properties speak of observations.  So every invariant says which
observations a counter stands for, as the end of a row (`Ends`):

- the rules (`RulesInv`, `RunsCounted`): hits and clears are the last intervals of their
  runs; a mount that ailed and counts a clear was reported well in it (`MountHeard`).
  `AlarmsRestOnRuns`.
- the activity detector (`ActivityInv`): elevated and recovery time are the end of
  `unbroken`, on the proper side of the thresholds frozen when the episode began
  (`EpisodeCounted`); the ring is in order and of one continuity (`InOrder`, `SourceOK`).
  `FindingsAreEarned`, `BaselinesAreUnmixed`.
- the drive (`DriveInv`): each rule moves only its own signal (`Moved`), one clear verdict
  counted is the last verdict told, and the times counted are the end of `worked`, in one
  bucket (`Worked`).  `RecoveriesAreEarned`, `OldErrorsAreHistory`.
- the open rows of the three tables are those of live sources, and so are the episodes of the rules but for those without room:
  `FindingsAreFollowed`.
- the watches (`WatchInv`): what a watch counts of its device is in the last scan of the
  unbroken row (`CountedIn`), an armed watch was seen twice in a row in this context, and
  what is shown is what watches conclude, but for what found no room (`omitted`).  A scan concludes only what the count before it and
  the scan itself agree on (`ScanVerdict`), and reports it when it does (`Announced`).
  `EpisodesFollow`, `VerdictsAreEarned`.

`Induction` proves from the well-foundedness of the inclusion of finite sets what those
counts need, in a form with sets in place of predicates, since an operator parameter cannot
be instantiated here.

Every invariant and every action property that a passing run checks is a theorem.  Only
model-checked: the five liveness properties `RowsSettle`, `IntentsSettle`,
`AnswersByDeadline`, `ReservationsEnd` and `CatchesUp`, because the prover handles neither
fairness nor `ENABLED` here; and the violations.

## Not modelled

In the modelled parts: what operators are shown (`observation_state`, summaries, evidence,
actor and note of an acknowledgement), thresholds of `observe_capacity`, validation of phone
numbers and credentials, the due times of sends and polls, clocks that go backwards, the
order of UUIDs between rows of one age (numbers stand in), more than one watch per
correlation, and for commands their output, arguments and exit codes, and the stuck reaper
(`try_wait` that fails is a reap that comes later).

Of the collector: credential rotation, the preview command, the halving of the byte budget
(a limited heartbeat is a choice), the dating of source evidence, the limits that
reject an inventory update as a whole, tasks that panic or are aborted, and the parsers of
`collectors/`, which turn text into fields without state.  Of the server's handler: the
tables projected for the read API (`project_inventory`, `project_metric`,
`update_collector_states`), which nothing modelled reads, and the retention of receipts.  Of
the analysers: evidence, stamps and summaries, and `retain`, which deletes findings that ended.

Whole components left out:

- Enrollment: one exchange with one window between the server's commit and the local write,
  in the list of hazards, repaired by a new token.
- Authentication, replay ids and tokens, and version-1 ingestion: single statements guarded
  by the constraints of the database.
- Retention and rollups: one statement per pass over old rows.
- Read API, views and console: projections of the database.
- The NFS server, scripts and demos: separate tools that run once.
- Host collectors of macOS, wire types and configuration: input, output and data.

## Plan

1. Proofs: the receiver alone.  `TelemetryPromise` is proved of a collector and a network
   that behave as modelled; that the handler keeps it whatever heartbeats arrive is a weaker
   protocol and a stronger theorem.
2. Proofs: invariants behind the liveness properties that need no fairness, such as that a
   supervisor is never without an enabled step before its deadline.
3. Models: enrollment with its token and credential file, and retention of receipts against
   late heartbeats.
4. The hazards without a property, listed in `PROJECT.json` with the reason.
