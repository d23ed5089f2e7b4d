----------------------------- MODULE Scheduler -----------------------------
(***************************************************************************)
(* One kind of scheduled collector (ciderd/src/scheduler.rs) and the cache *)
(* of results the state owner keeps for it (ciderd/src/state.rs).          *)
(*                                                                         *)
(* The loop of the kind (start) wakes every second, takes the jobs out of  *)
(* the published snapshot and launches those that are due, one after the   *)
(* other; a task per launch (collect) waits for the command and sends its  *)
(* result and the end of the run to the state owner, which handles one     *)
(* message at a time.  Meanwhile enumerations add and remove resources and *)
(* give a mount that comes back another generation, so a snapshot, a job   *)
(* and a result can each be out of date when they are used.                *)
(*                                                                         *)
(* A collection is one job's attempt: the reading its parser emits for the *)
(* job's own scope takes the place of the attempt.  The byte limits of a   *)
(* collection and of the cache stand in one number, MaxRetained.  A        *)
(* generation is a number, 0 for a resource that is absent.                *)
(***************************************************************************)
EXTENDS Integers, FiniteSets, Sequences

CONSTANTS
  Resources,    \* the resources the kind has jobs for
  Mounts,       \* those with a generation of their own
  Metrics,      \* what a collection can say
  Period,       \* ticks between two runs of a scope
  Jitter,       \* ticks at most added to it
  MaxRetained,  \* collections the cache may refer to
  MaxRuns,      \* bound: launches
  MaxScans,     \* bound: enumerations
  MaxBeats,     \* bound: heartbeats
  None          \* absence

ASSUME SchedulerAssumption ==
  /\ Mounts \subseteq Resources
  /\ Period \in Nat \ {0} /\ Jitter \in Nat /\ MaxRetained \in Nat
  /\ MaxRuns \in Nat /\ MaxScans \in Nat /\ MaxBeats \in Nat

VARIABLES
  gen,        \* generation of each resource, 0 when it is absent
  observed,   \* resources observed in this session
  slot,       \* slots: the last collection of a scope, and of each metric
  shown,      \* collector_states: phase and last_attempt_id, "none" without
  results,    \* the collections the snapshots carry
  accepted,   \* those of them an acknowledgement named
  discarded,  \* discarded_samples_total
  queue,      \* jobs of this tick still to launch
  due,        \* ticks to next_due; NoDue without one
  inflight,   \* scopes with a task
  tasks,      \* the tasks, [id, r, g, stage]
  mail,       \* messages to the state owner
  offered,    \* the collections of the heartbeat under way, None without one
  runs,       \* launches so far
  scans,      \* bound: enumerations so far
  beats,      \* bound: heartbeats so far
  history,    \* history: collections recorded of this incarnation of a scope
  stored,     \* history: ids ever recorded
  acked       \* history: ids an acknowledgement named in time

cache == <<slot, shown, results, discarded>>
loop == <<queue, due, inflight, tasks, runs>>
log == <<history, stored>>
bounds == <<scans, beats>>
vars == <<gen, observed, cache, accepted, loop, mail, offered, bounds, log, acked>>

NoDue == -1
Ids == 1..MaxRuns
Jobs == [r : Resources, g : 1..MaxScans + 1]
Collections == [id : Ids, r : Resources, g : 1..MaxScans + 1,
                status : {"done", "timeout"}, has : SUBSET Metrics]
NoSlot == [last |-> 0, fields |-> [m \in Metrics |-> 0]]
NotShown == [phase |-> "none", last |-> 0]

IdsOf(cs) == {c.id : c \in cs}
Refers(s) == ({s.last} \cup {s.fields[m] : m \in Metrics}) \ {0}
Referenced(slots) == UNION {Refers(slots[r]) : r \in Resources}

-----------------------------------------------------------------------------
(* The cache                                                               *)

\* prune: what no scope refers to is dropped.
Pruned(slots, cs) == {c \in cs : c.id \in Referenced(slots)}

\* Mutant of Keep: what an acknowledgement named is counted as discarded too.
KeepCountingAll(slots, cs) ==
  /\ slot' = slots /\ results' = Pruned(slots, cs)
  /\ discarded' = discarded + Cardinality(cs \ results')
  /\ accepted' = accepted \cap IdsOf(results')

\* prune: what is dropped and no acknowledgement named is counted.
Keep(slots, cs) ==
  /\ slot' = slots /\ results' = Pruned(slots, cs)
  /\ discarded' = discarded + Cardinality({c \in cs \ results' : c.id \notin accepted})
  /\ accepted' = accepted \cap IdsOf(results')

\* Mutant of Attempted: an attempt without a reading hides the last one.
AttemptedOnly(s, c) ==
  [last |-> c.id, fields |-> [m \in Metrics |-> IF m \in c.has THEN c.id ELSE 0]]

\* The scope of c after its attempt c: a reading stays the latest one until
\* another is available.
Attempted(s, c) ==
  [last |-> c.id, fields |-> [m \in Metrics |-> IF m \in c.has THEN c.id ELSE s.fields[m]]]

\* apply_collection records c unless its scope has one that started later or
\* the cache would refer to too many.
Records(c) ==
  /\ slot[c.r].last <= c.id
  /\ Cardinality(Referenced([slot EXCEPT ![c.r] = Attempted(@, c)])) <= MaxRetained

\* Mutant of PhaseAfter: a run that is pending is shown as quarantined
\* whatever became of its attempt.
PhaseAfterPending(cs, last, pending) == IF pending THEN "pending" ELSE "Idle"

\* The phase shown after a result (end of apply): pending exit goes only with
\* a last attempt that timed out.
PhaseAfter(cs, last, pending) ==
  IF ~pending THEN "Idle"
  ELSE IF \E c \in cs : c.id = last /\ c.status = "timeout" THEN "pending" ELSE "Running"

\* Message::Phase, for a scope that is still there.
HandlePhase(m) ==
  /\ shown' = [shown EXCEPT ![m.r].phase = IF gen[m.r] = m.g THEN m.phase ELSE @]
  /\ UNCHANGED <<slot, results, discarded, accepted, log>>

\* Mutant of Applies: the result of a scope that came back is taken.
AppliesToAny(c) == gen[c.r] # 0

\* apply drops a result when its resource is gone or has another generation.
Applies(c) == gen[c.r] = c.g

\* Message::Result (apply, for a kind that does not enumerate).
HandleResult(c, pending) ==
  IF ~Applies(c) THEN UNCHANGED <<cache, accepted, log>>
  ELSE IF Records(c)
  THEN /\ Keep([slot EXCEPT ![c.r] = Attempted(@, c)], results \cup {c})
       /\ shown' = [shown EXCEPT ![c.r] =
            [phase |-> PhaseAfter(results \cup {c}, c.id, pending), last |-> c.id]]
       /\ history' = [history EXCEPT ![c.r] = Append(@, c)]
       /\ stored' = stored \cup {c.id}
  ELSE /\ shown' = [shown EXCEPT ![c.r].phase = PhaseAfter(results, shown[c.r].last, pending)]
       /\ UNCHANGED <<slot, results, discarded, accepted, log>>

Handle ==
  /\ mail # <<>>
  /\ LET m == Head(mail) IN
       IF m.type = "phase" THEN HandlePhase(m) ELSE HandleResult(m.c, m.pending)
  /\ mail' = Tail(mail)
  /\ UNCHANGED <<gen, observed, loop, offered, bounds, acked>>

\* The generation of r after an enumeration that found the resources in
\* found: a mount that comes back has a new one.
GenerationAfter(r, found) ==
  IF r \notin found THEN 0
  ELSE IF gen[r] # 0 THEN gen[r] ELSE IF r \in Mounts THEN scans + 2 ELSE 1

\* The scopes an enumeration clears: reconcile_group those of resources that
\* are gone, set_generation those whose generation changed.
Cleared(found) == {r \in Resources : GenerationAfter(r, found) # gen[r] \/ r \notin found}

\* A complete enumeration of the resources is recorded.
Rescan(found) ==
  /\ scans < MaxScans /\ scans' = scans + 1
  /\ gen' = [r \in Resources |-> GenerationAfter(r, found)]
  /\ observed' = found
  /\ Keep([r \in Resources |-> IF r \in Cleared(found) THEN NoSlot ELSE slot[r]], results)
  /\ shown' = [r \in Resources |-> IF r \in Cleared(found) THEN NotShown ELSE shown[r]]
  /\ history' = [r \in Resources |-> IF gen'[r] # gen[r] THEN <<>> ELSE history[r]]
  /\ UNCHANGED <<loop, mail, offered, beats, stored, acked>>

-----------------------------------------------------------------------------
(* Heartbeats                                                              *)

\* A heartbeat carries the collections of the snapshot.
Offer ==
  /\ offered = None /\ beats < MaxBeats /\ beats' = beats + 1
  /\ offered' = IdsOf(results)
  /\ UNCHANGED <<gen, observed, cache, accepted, loop, mail, scans, log, acked>>

\* Its acknowledgement is handled (acknowledge), or it is given up.
Answer(arrives) ==
  /\ offered # None
  /\ LET named == IF arrives THEN offered \cap IdsOf(results) ELSE {} IN
       accepted' = accepted \cup named /\ acked' = acked \cup named
  /\ offered' = None
  /\ UNCHANGED <<gen, observed, cache, loop, mail, bounds, log>>

-----------------------------------------------------------------------------
(* The loop of the kind and its tasks                                      *)

\* jobs: only what this session has observed is worth a run.
JobsOf == {[r |-> r, g |-> gen[r]] : r \in {r \in observed : gen[r] # 0}}

\* Mutant of Ready: a scope with a task is run again when it is due.
ReadyAgain(j, dues) == dues[j.r] <= 0

Ready(j, dues) == j \notin inflight /\ dues[j.r] <= 0

\* A tick: the jobs of the snapshot that are due and have no task.
Tick ==
  /\ queue = {}
  /\ due' = [r \in Resources |-> IF r \notin {j.r : j \in JobsOf} \/ due[r] = NoDue THEN NoDue
                                 ELSE IF due[r] = 0 THEN 0 ELSE due[r] - 1]
  /\ queue' = {j \in JobsOf : Ready(j, due')}
  /\ UNCHANGED <<gen, observed, cache, accepted, inflight, tasks, runs, mail, offered,
                 bounds, log, acked>>

\* The next job, one never run or due longest first, is launched, or finds no
\* room in the pool and waits for the next tick.
Admit(j, admitted, extra) ==
  /\ j \in queue /\ \A k \in queue : due[j.r] <= due[k.r]
  /\ queue' = queue \ {j}
  /\ IF admitted
     THEN /\ runs < MaxRuns
          /\ runs' = runs + 1
          /\ due' = [due EXCEPT ![j.r] = Period + extra]
          /\ inflight' = inflight \cup {j}
          /\ tasks' = tasks \cup {[id |-> runs', r |-> j.r, g |-> j.g, stage |-> "command"]}
          /\ mail' = Append(mail, [type |-> "phase", r |-> j.r, g |-> j.g, phase |-> "Running"])
     ELSE UNCHANGED <<runs, due, inflight, tasks, mail>>
  /\ UNCHANGED <<gen, observed, cache, accepted, offered, bounds, log, acked>>

Idle(t) == [type |-> "phase", r |-> t.r, g |-> t.g, phase |-> "Idle"]

\* The command of a task ended (collect): the result, then the end of the run
\* unless the process could not be killed yet.
Finish(t, status, has, pending) ==
  /\ t \in tasks /\ t.stage = "command"
  /\ has # {} => status = "done"
  /\ pending => status = "timeout"
  /\ LET c == [id |-> t.id, r |-> t.r, g |-> t.g, status |-> status, has |-> has]
         result == [type |-> "result", c |-> c, pending |-> pending]
     IN  mail' = mail \o (IF pending THEN <<result>> ELSE <<result, Idle(t)>>)
  /\ tasks' = (tasks \ {t}) \cup {[t EXCEPT !.stage = IF pending THEN "exiting" ELSE "done"]}
  /\ UNCHANGED <<gen, observed, cache, accepted, queue, due, inflight, runs, offered, bounds,
                 log, acked>>

\* The process of a timed-out command is gone at last.
Exit(t) ==
  /\ t \in tasks /\ t.stage = "exiting"
  /\ mail' = Append(mail, Idle(t))
  /\ tasks' = (tasks \ {t}) \cup {[t EXCEPT !.stage = "done"]}
  /\ UNCHANGED <<gen, observed, cache, accepted, queue, due, inflight, runs, offered, bounds,
                 log, acked>>

\* The loop, between two ticks, sees that a task ended.
Join(t) ==
  /\ queue = {} /\ t \in tasks /\ t.stage = "done"
  /\ tasks' = tasks \ {t} /\ inflight' = inflight \ {[r |-> t.r, g |-> t.g]}
  /\ UNCHANGED <<gen, observed, cache, accepted, queue, due, runs, mail, offered, bounds,
                 log, acked>>

-----------------------------------------------------------------------------
\* A session starts with the resources of the saved inventory, some of which
\* the first enumerations have found again.
Init ==
  /\ gen \in [Resources -> {0, 1}] /\ observed \in SUBSET {r \in Resources : gen[r] = 1}
  /\ slot = [r \in Resources |-> NoSlot] /\ shown = [r \in Resources |-> NotShown]
  /\ results = {} /\ accepted = {} /\ discarded = 0
  /\ queue = {} /\ due = [r \in Resources |-> NoDue]
  /\ inflight = {} /\ tasks = {} /\ mail = <<>> /\ runs = 0 /\ scans = 0 /\ beats = 0
  /\ offered = None
  /\ history = [r \in Resources |-> <<>>] /\ stored = {} /\ acked = {}

Next ==
  \/ Tick \/ Handle \/ Offer
  \/ \E found \in SUBSET Resources : Rescan(found)
  \/ \E arrives \in BOOLEAN : Answer(arrives)
  \/ \E j \in queue, admitted \in BOOLEAN, extra \in 0..Jitter : Admit(j, admitted, extra)
  \/ \E t \in tasks :
       \/ \E status \in {"done", "timeout"}, has \in SUBSET Metrics, pending \in BOOLEAN :
            Finish(t, status, has, pending)
       \/ Exit(t) \/ Join(t)

Spec == Init /\ [][Next]_vars

-----------------------------------------------------------------------------
(* Properties                                                              *)

\* Type invariant of the cache, the loop and the messages; a scope has one
\* task at most.
TypeOK ==
  /\ gen \in [Resources -> 0..MaxScans + 1] /\ observed \subseteq Resources
  /\ slot \in [Resources -> [last : 0..MaxRuns, fields : [Metrics -> 0..MaxRuns]]]
  /\ shown \in [Resources -> [phase : {"none", "Idle", "Running", "pending"}, last : 0..MaxRuns]]
  /\ results \subseteq Collections /\ accepted \subseteq IdsOf(results)
  /\ discarded \in 0..MaxRuns
  /\ queue \subseteq Jobs /\ inflight \subseteq Jobs
  /\ due \in [Resources -> NoDue..Period + Jitter]
  /\ tasks \subseteq [id : Ids, r : Resources, g : 1..MaxScans + 1,
                      stage : {"command", "exiting", "done"}]
  /\ \A t, u \in tasks : t.r = u.r /\ t.g = u.g => t = u
  /\ runs \in 0..MaxRuns /\ (offered # None => offered \subseteq Ids)

\* Every snapshot the state owner publishes passes the contract a heartbeat
\* is validated against: a scope is shown only for a resource that is there,
\* its last attempt is carried and its own, and a worker that is shown as
\* quarantined has timed out.  Otherwise no heartbeat could be sent at all.
SnapshotIsValid ==
  \A r \in Resources : shown[r].phase # "none" =>
    /\ gen[r] # 0
    /\ shown[r].last # 0 => \E c \in results : c.id = shown[r].last /\ c.r = r
    /\ shown[r].phase = "pending" =>
         \E c \in results : c.id = shown[r].last /\ c.status = "timeout"

\* What a snapshot carries was measured on the generation that is mounted
\* now, however late the result arrived.
CarriedIsCurrent == \A c \in results : c.g = gen[c.r]

\* Of every metric the latest available reading of this incarnation is still
\* carried, whatever failed or was rejected since.
LatestReadingKept ==
  \A r \in Resources, m \in Metrics :
    LET with == {i \in DOMAIN history[r] : m \in history[r][i].has} IN
    with # {} =>
      LET latest == CHOOSE i \in with : \A k \in with : k <= i IN
      history[r][latest] \in results /\ slot[r].fields[m] = history[r][latest].id

\* discarded_samples_total is the number of results that went away before an
\* acknowledged heartbeat carried them: none is missed when its resource goes
\* or comes back, none counted twice.
DiscardsCounted == discarded = Cardinality((stored \ IdsOf(results)) \ acked)
=============================================================================
