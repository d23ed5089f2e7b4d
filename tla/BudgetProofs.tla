---------------------------- MODULE BudgetProofs ----------------------------
(***************************************************************************)
(* Proofs that the counters of CommandRunner are the reservations there    *)
(* are, and that its processes keep the budget that WorkBudget promises,   *)
(* for any number of jobs, scopes and restarts and any limits.             *)
(*                                                                         *)
(* Recovery may reserve more than the limit of this session allows.  What  *)
(* keeps the promise then is that a job of this session is admitted only   *)
(* when everything that is counted, recovered or not, is within the limit. *)
(***************************************************************************)
EXTENDS CommandRunnerProofs

\* The reservations that count, of them those of recovered records and those
\* of this session; those that hold a permit, and the quarantined children.
CountedJobs == {j \in Jobs : job[j].pc \in Counted}
RecoveredJobs == {j \in Jobs : job[j].pc \in Counted /\ job[j].recovered}
FreshJobs == {j \in Jobs : job[j].pc \in Counted /\ ~job[j].recovered}
PermitJobs == {j \in Jobs : job[j].pc \in Reserved /\ job[j].permit}
QuarantinedJobs == {j \in Jobs : job[j].quarantined}

\* A recovered record is only watched, removed and released, and only a child
\* in the loop whose exit is not confirmed is quarantined.
Standing(r) ==
  /\ r.recovered => r.pc \in {"watch", "stuck", "remove", "drop", "permit"}
  /\ r.quarantined => r.pc = "running" /\ ~r.exited

Tallied ==
  /\ runner.pending = Cardinality(CountedJobs)
  /\ runner.recovered = Cardinality(RecoveredJobs)
  /\ runner.permits \in Nat /\ runner.permits = runner.workers - Cardinality(PermitJobs)
  /\ runner.quarantined = Cardinality(QuarantinedJobs)
  /\ FreshJobs # {} => runner.pending <= runner.workers

Accounts ==
  /\ starts \in 0..MaxRestarts
  /\ \A j \in Jobs : Standing(job[j])
  /\ IF runner.up THEN Tallied ELSE runner = Stopped(runner.workers)

Inv == IInv /\ Accounts

-----------------------------------------------------------------------------
(* Steps that keep the counts.                                             *)

\* q has the reservation, the permit and the quarantine that r has.
SameEntry(r, q) ==
  /\ q.pc \in Counted <=> r.pc \in Counted
  /\ q.pc \in Reserved <=> r.pc \in Reserved
  /\ q.recovered = r.recovered /\ q.permit = r.permit /\ q.quarantined = r.quarantined

SameCounts ==
  /\ runner'.up = runner.up /\ runner'.workers = runner.workers
  /\ runner'.permits = runner.permits /\ runner'.pending = runner.pending
  /\ runner'.recovered = runner.recovered /\ runner'.quarantined = runner.quarantined

\* When every job keeps its entry, the counts stay right.
LEMMA SameTally ==
  ASSUME Accounts, runner.up, SameCounts, starts' = starts,
         \A k \in Jobs : SameEntry(job[k], job'[k]) /\ Standing(job'[k])
  PROVE  Accounts'
<1>1. /\ CountedJobs' = CountedJobs /\ RecoveredJobs' = RecoveredJobs
      /\ FreshJobs' = FreshJobs /\ PermitJobs' = PermitJobs
      /\ QuarantinedJobs' = QuarantinedJobs
  BY DEF CountedJobs, RecoveredJobs, FreshJobs, PermitJobs, QuarantinedJobs, SameEntry
<1> QED
  BY <1>1 DEF Accounts, Tallied, SameCounts

\* The same for a step of one job.
LEMMA LocalTally ==
  ASSUME IInv, Accounts, runner.up, SameCounts, starts' = starts, NEW j \in Jobs, NEW q,
         job' = [job EXCEPT ![j] = q], SameEntry(job[j], q), Standing(q)
  PROVE  Accounts'
<1>1. job'[j] = q /\ \A k \in Jobs \ {j} : job'[k] = job[k]
  BY DEF IInv, Shape
<1>2. \A k \in Jobs : Standing(job[k])
  BY DEF Accounts
<1>3. \A k \in Jobs : SameEntry(job[k], job'[k]) /\ Standing(job'[k])
  BY <1>1, <1>2 DEF SameEntry
<1> QED
  BY <1>3, SameTally

\* A place, a write and the flags of a supervisor, changed one at a time.
LEMMA MovedJob ==
  ASSUME NEW r \in Job
  PROVE  /\ \A p, w : LET q == [r EXCEPT !.pc = p, !.write = w] IN
              /\ q.pc = p /\ q.recovered = r.recovered /\ q.permit = r.permit
              /\ q.quarantined = r.quarantined /\ q.exited = r.exited
         /\ \A p : LET q == [r EXCEPT !.pc = p] IN
              /\ q.pc = p /\ q.recovered = r.recovered /\ q.permit = r.permit
              /\ q.quarantined = r.quarantined /\ q.exited = r.exited
         /\ \A w : LET q == [r EXCEPT !.write = w] IN
              /\ q.pc = r.pc /\ q.recovered = r.recovered /\ q.permit = r.permit
              /\ q.quarantined = r.quarantined /\ q.exited = r.exited
         /\ \A o : /\ Published(r, o).recovered = r.recovered
                   /\ Published(r, o).permit = r.permit
                   /\ Published(r, o).quarantined = r.quarantined
                   /\ Published(r, o).exited = r.exited
BY DEF Job, Published

\* A failed write is remembered, and nothing else of the runner changes.
LEMMA FailedCounts ==
  ASSUME runner \in Counters, NEW b,
         runner' = runner \/ runner' = [runner EXCEPT !.failed = b]
  PROVE  SameCounts
BY DEF Counters, SameCounts

\* The supervisor before the spawn, after the loop, and the disk.
LEMMA MoveTally ==
  ASSUME IInv, Accounts, NEW j \in Jobs,
         \/ IntentWritten(j) \/ IntentFailed(j) \/ IntentTooLate(j) \/ GiveUp(j)
         \/ LateWritten(j) \/ SpawnFails(j) \/ Spawn(j) \/ Leave(j) \/ PidSettled(j)
         \/ RecoveredGone(j) \/ \E ok \in BOOLEAN : WriteEnds(j, ok) \/ RemoveEnds(j, ok)
  PROVE  Accounts'
<1> DEFINE r == job[j]
<1>1. r \in Job /\ runner \in Counters /\ Standing(r)
  BY DEF IInv, Shape, Accounts
<1>2. CASE IntentWritten(j) \/ LateWritten(j) \/ PidSettled(j)
  <2> DEFINE p == IF IntentWritten(j) THEN "ready" ELSE "remove"
             q == [r EXCEPT !.pc = p, !.write = "none"]
  <2>1. /\ runner.up /\ r.pc \in {"intent", "late", "pidwait"} /\ starts' = starts
        /\ job' = [job EXCEPT ![j] = q] /\ p \in {"ready", "remove"}
    BY <1>2 DEF IntentWritten, LateWritten, PidSettled
  <2>2. SameCounts
    <3> DEFINE b == runner.failed \/ r.write = "failed"
    <3>1. runner' = runner \/ runner' = [runner EXCEPT !.failed = b]
      BY <1>2 DEF IntentWritten, LateWritten, PidSettled
    <3> HIDE DEF b
    <3> QED
      BY <1>1, <3>1, FailedCounts
  <2>3. /\ q.pc = p /\ q.recovered = r.recovered /\ q.permit = r.permit
        /\ q.quarantined = r.quarantined /\ q.exited = r.exited
    BY <1>1, MovedJob
  <2> HIDE DEF q, p
  <2>4. SameEntry(r, q) /\ Standing(q)
    BY <1>1, <2>1, <2>3 DEF SameEntry, Standing, Counted, Reserved, Waiting
  <2> QED
    BY <2>1, <2>2, <2>4, LocalTally
<1>3. CASE IntentFailed(j) \/ IntentTooLate(j) \/ SpawnFails(j)
  <2> DEFINE o == IF IntentTooLate(j) THEN "stopped" ELSE "spawn_failed"
             a == Published(r, o)
             q == [a EXCEPT !.pc = "remove", !.write = "none"]
  <2>1. /\ runner.up /\ r.pc \in {"intent", "ready"} /\ starts' = starts
        /\ job' = [job EXCEPT ![j] = q] /\ o \in Outcomes
    BY <1>3 DEF IntentFailed, IntentTooLate, SpawnFails, Refused, Outcomes
  <2>2. SameCounts
    <3>1. runner' = runner \/ runner' = [runner EXCEPT !.failed = TRUE]
      BY <1>3 DEF IntentFailed, IntentTooLate, SpawnFails
    <3> QED
      BY <1>1, <3>1, FailedCounts
  <2>3. a \in Job /\ a.recovered = r.recovered /\ a.permit = r.permit
        /\ a.quarantined = r.quarantined
    BY <1>1, <2>1, PublishedJob, MovedJob
  <2> HIDE DEF a
  <2>4. /\ q.pc = "remove" /\ q.recovered = r.recovered /\ q.permit = r.permit
        /\ q.quarantined = r.quarantined
    BY <2>3, MovedJob
  <2> HIDE DEF q
  <2>5. SameEntry(r, q) /\ Standing(q)
    BY <1>1, <2>1, <2>4 DEF SameEntry, Standing, Counted, Reserved, Waiting
  <2> QED
    BY <2>1, <2>2, <2>5, LocalTally
<1>4. CASE GiveUp(j) \/ Leave(j)
  <2> DEFINE o == IF GiveUp(j) THEN "stopped" ELSE "completed"
             p == IF GiveUp(j) THEN "late" ELSE "pidwait"
             a == Published(r, o)
             q == [a EXCEPT !.pc = p]
  <2>1. /\ runner.up /\ starts' = starts /\ runner' = runner
        /\ job' = [job EXCEPT ![j] = q] /\ o \in Outcomes
        /\ r.pc = "intent" \/ (r.pc = "running" /\ r.exited)
        /\ p \in {"late", "pidwait"}
    BY <1>4 DEF GiveUp, Leave, Finished, Outcomes
  <2>2. SameCounts
    BY <2>1 DEF SameCounts
  <2>3. a \in Job /\ a.recovered = r.recovered /\ a.permit = r.permit
        /\ a.quarantined = r.quarantined
    BY <1>1, <2>1, PublishedJob, MovedJob
  <2> HIDE DEF a
  <2>4. /\ q.pc = p /\ q.recovered = r.recovered /\ q.permit = r.permit
        /\ q.quarantined = r.quarantined
    BY <2>3, MovedJob
  <2> HIDE DEF q, p
  <2>5. SameEntry(r, q) /\ Standing(q)
    BY <1>1, <2>1, <2>4 DEF SameEntry, Standing, Counted, Reserved, Waiting
  <2> QED
    BY <2>1, <2>2, <2>5, LocalTally
<1>5. CASE Spawn(j)
  <2> DEFINE q == [r EXCEPT !.pc = "running", !.write = "busy", !.piped = TRUE]
  <2>1. /\ runner.up /\ r.pc = "ready" /\ starts' = starts /\ runner' = runner
        /\ job' = [job EXCEPT ![j] = q]
    BY <1>5 DEF Spawn
  <2>2. /\ q.pc = "running" /\ q.recovered = r.recovered /\ q.permit = r.permit
        /\ q.quarantined = r.quarantined /\ q.exited = r.exited
    BY <1>1 DEF Job
  <2> HIDE DEF q
  <2>3. SameEntry(r, q) /\ Standing(q)
    BY <1>1, <2>1, <2>2 DEF SameEntry, Standing, Counted, Reserved, Waiting
  <2> QED
    BY <2>1, <2>3, LocalTally DEF SameCounts
<1>6. CASE RecoveredGone(j) \/ \E ok \in BOOLEAN : RemoveEnds(j, ok) /\ job' # job
  <2> DEFINE p == IF r.pc = "watch" THEN "remove" ELSE "drop"
             q == [r EXCEPT !.pc = p]
  <2>1. /\ runner.up /\ r.pc \in {"watch", "remove"} /\ starts' = starts
        /\ job' = [job EXCEPT ![j] = q] /\ p \in {"remove", "drop"}
        /\ runner' = runner \/ runner' = [runner EXCEPT !.failed = TRUE]
    BY <1>6 DEF RecoveredGone, RemoveEnds
  <2>2. SameCounts
    BY <1>1, <2>1, FailedCounts
  <2>3. /\ q.pc = p /\ q.recovered = r.recovered /\ q.permit = r.permit
        /\ q.quarantined = r.quarantined
    BY <1>1, MovedJob
  <2> HIDE DEF q, p
  <2>4. SameEntry(r, q) /\ Standing(q)
    BY <1>1, <2>1, <2>3 DEF SameEntry, Standing, Counted, Reserved, Waiting
  <2> QED
    BY <2>1, <2>2, <2>4, LocalTally
<1>7. CASE \E ok \in BOOLEAN : RemoveEnds(j, ok) /\ job' = job
  <2>1. /\ runner.up /\ starts' = starts /\ job' = job
        /\ runner' = runner \/ runner' = [runner EXCEPT !.failed = TRUE]
    BY <1>7 DEF RemoveEnds
  <2>2. SameCounts
    BY <1>1, <2>1, FailedCounts
  <2>3. \A k \in Jobs : SameEntry(job[k], job'[k]) /\ Standing(job'[k])
    BY <2>1 DEF SameEntry, Accounts
  <2> QED
    BY <2>1, <2>2, <2>3, SameTally
<1>8. CASE \E ok \in BOOLEAN : WriteEnds(j, ok)
  <2>1. PICK w : /\ runner.up /\ starts' = starts /\ runner' = runner
                 /\ job' = [job EXCEPT ![j] = [r EXCEPT !.write = w]]
    BY <1>1, <1>8 DEF WriteEnds, IInv, Shape
  <2> DEFINE q == [r EXCEPT !.write = w]
  <2>2. /\ q.pc = r.pc /\ q.recovered = r.recovered /\ q.permit = r.permit
        /\ q.quarantined = r.quarantined /\ q.exited = r.exited
    BY <1>1, MovedJob
  <2>3. job' = [job EXCEPT ![j] = q]
    BY <2>1
  <2> HIDE DEF q
  <2>4. SameEntry(r, q) /\ Standing(q)
    BY <1>1, <2>2 DEF SameEntry, Standing
  <2> QED
    BY <2>1, <2>3, <2>4, LocalTally DEF SameCounts
<1> QED
  BY <1>2, <1>3, <1>4, <1>5, <1>6, <1>7, <1>8

-----------------------------------------------------------------------------
(* The loop around the child: the quarantine.                              *)

\* A set of jobs is finite, and one more or one less counts as that.
LEMMA JobSets ==
  ASSUME NEW S \in SUBSET Jobs
  PROVE  /\ IsFiniteSet(S) /\ Cardinality(S) \in Nat
         /\ \A j : j \notin S => Cardinality(S \cup {j}) = Cardinality(S) + 1
         /\ \A j \in S : /\ Cardinality(S \ {j}) = Cardinality(S) - 1
                         /\ Cardinality(S) >= 1
<1>1. IsFiniteSet(S) /\ Cardinality(S) \in Nat
  BY RunnerAssumption, FS_Subset, FS_CardinalityType
<1>2. \A j : j \notin S => Cardinality(S \cup {j}) = Cardinality(S) + 1
  BY <1>1, FS_AddElement
<1>3. ASSUME NEW j \in S
      PROVE  Cardinality(S \ {j}) = Cardinality(S) - 1 /\ Cardinality(S) >= 1
  <2>1. IsFiniteSet(S \ {j}) /\ Cardinality(S \ {j}) = Cardinality(S) - 1
    BY <1>1, FS_RemoveElement
  <2>2. Cardinality(S \ {j}) \in Nat
    BY <2>1, FS_CardinalityType
  <2> QED
    BY <1>1, <2>1, <2>2
<1> QED
  BY <1>1, <1>2, <1>3

\* A turn of the loop may open the quarantine of its job; r may have ended it.
LEMMA TurnTally ==
  ASSUME IInv, Accounts, NEW j \in Jobs, NEW r \in Job, NEW o \in {"none"} \cup Outcomes,
         NEW counted \in Counters, Turn(j, r, o, counted),
         r.pc = job[j].pc, r.recovered = job[j].recovered, r.permit = job[j].permit,
         r.quarantined => job[j].quarantined /\ ~r.exited,
         job[j].quarantined /\ ~r.quarantined => r.exited,
         counted.up = runner.up, counted.workers = runner.workers,
         counted.permits = runner.permits, counted.pending = runner.pending,
         counted.recovered = runner.recovered,
         counted.quarantined = IF job[j].quarantined /\ ~r.quarantined
                               THEN runner.quarantined - 1 ELSE runner.quarantined
  PROVE  Accounts'
<1> DEFINE cause == IF runner.shutdown /\ r.result = "none" THEN "stopped" ELSE o
           opens == cause = "stopped" /\ r.result = "none" /\ ~r.exited /\ ~r.quarantined
           q == IF cause = "none" THEN r ELSE Terminated(r, cause, opens)
           n == IF opens THEN counted.quarantined + 1 ELSE counted.quarantined
<1>1. /\ runner.up /\ job[j].pc = "running"
      /\ job' = [job EXCEPT ![j] = q]
      /\ runner' = [counted EXCEPT !.quarantined = n]
      /\ starts' = starts
  BY DEF Turn
<1>2. opens \in BOOLEAN /\ cause \in {"none"} \cup Outcomes
  BY DEF Outcomes
<1>3. /\ q.pc = "running" /\ q.recovered = r.recovered /\ q.permit = r.permit
      /\ q.exited = r.exited /\ (q.quarantined <=> (r.quarantined \/ opens))
      /\ q.quarantined \in BOOLEAN
  <2>1. CASE cause = "none"
    BY <1>1, <2>1 DEF Job
  <2>2. CASE cause # "none"
    <3> DEFINE a == Published(r, cause)
    <3>1. /\ a \in Job /\ a.pc = r.pc /\ a.recovered = r.recovered /\ a.permit = r.permit
          /\ a.exited = r.exited /\ a.quarantined = r.quarantined
      BY <1>2, <2>2, PublishedJob, MovedJob
    <3>2. q = [a EXCEPT !.piped = FALSE, !.quarantined = a.quarantined \/ opens]
      BY <2>2, <3>1 DEF Terminated, Job
    <3> HIDE DEF a, q
    <3>3. /\ q.pc = a.pc /\ q.recovered = a.recovered /\ q.permit = a.permit
          /\ q.exited = a.exited /\ q.quarantined = (a.quarantined \/ opens)
      BY <3>1, <3>2 DEF Job
    <3> HIDE DEF opens
    <3> QED
      BY <1>1, <3>1, <3>3
  <2> QED
    BY <2>1, <2>2
<1>4. /\ runner'.up /\ runner'.workers = runner.workers /\ runner'.permits = runner.permits
      /\ runner'.pending = runner.pending /\ runner'.recovered = runner.recovered
      /\ runner'.quarantined = n
  <2> HIDE DEF n
  <2> QED
    BY <1>1 DEF Counters
<1>5. job'[j] = q /\ \A k \in Jobs \ {j} : job'[k] = job[k]
  BY <1>1 DEF IInv, Shape
<1> HIDE DEF q, cause
<1>6. \A k \in Jobs : Standing(job'[k])
  <2>1. Standing(job[j]) /\ \A k \in Jobs : Standing(job[k])
    BY DEF Accounts
  <2>2. Standing(q)
    BY <1>1, <1>3, <2>1 DEF Standing
  <2> QED
    BY <1>5, <2>1, <2>2
<1>7. /\ CountedJobs' = CountedJobs /\ RecoveredJobs' = RecoveredJobs
      /\ FreshJobs' = FreshJobs /\ PermitJobs' = PermitJobs
  <2>1. /\ q.pc = job[j].pc /\ q.recovered = job[j].recovered /\ q.permit = job[j].permit
    BY <1>1, <1>3
  <2>2. \A k \in Jobs : /\ job'[k].pc = job[k].pc /\ job'[k].recovered = job[k].recovered
                        /\ job'[k].permit = job[k].permit
    BY <1>5, <2>1
  <2> QED
    BY <2>2 DEF CountedJobs, RecoveredJobs, FreshJobs, PermitJobs
<1>8. runner'.quarantined = Cardinality(QuarantinedJobs')
  <2>1. runner.quarantined = Cardinality(QuarantinedJobs) /\ QuarantinedJobs \in SUBSET Jobs
    BY <1>1 DEF Accounts, Tallied, QuarantinedJobs
  <2>2. Cardinality(QuarantinedJobs) \in Nat
    BY <2>1, JobSets
  <2>3. \A k \in Jobs : k \in QuarantinedJobs <=> job[k].quarantined
    BY DEF QuarantinedJobs
  <2>4. \A k \in Jobs : k \in QuarantinedJobs' <=>
          IF k = j THEN r.quarantined \/ opens ELSE job[k].quarantined
    BY <1>3, <1>5 DEF QuarantinedJobs
  <2>5. QuarantinedJobs' \in SUBSET Jobs
    BY DEF QuarantinedJobs
  <2>6. CASE job[j].quarantined /\ r.quarantined
    <3>1. QuarantinedJobs' = QuarantinedJobs
      BY <2>1, <2>3, <2>4, <2>5, <2>6
    <3>2. n = runner.quarantined
      BY <2>6
    <3> QED
      BY <1>4, <2>1, <3>1, <3>2
  <2>7. CASE job[j].quarantined /\ ~r.quarantined
    <3>1. ~opens /\ n = runner.quarantined - 1
      BY <2>7
    <3>2. j \in QuarantinedJobs /\ QuarantinedJobs' = QuarantinedJobs \ {j}
      BY <2>1, <2>3, <2>4, <2>5, <2>7, <3>1
    <3> HIDE DEF n
    <3> QED
      BY <1>4, <2>1, <3>1, <3>2, JobSets
  <2>8. CASE ~job[j].quarantined /\ opens
    <3>1. n = runner.quarantined + 1
      BY <2>8
    <3>2. j \notin QuarantinedJobs /\ QuarantinedJobs' = QuarantinedJobs \cup {j}
      BY <2>1, <2>3, <2>4, <2>5, <2>8
    <3> HIDE DEF n
    <3> QED
      BY <1>4, <2>1, <3>1, <3>2, JobSets
  <2>9. CASE ~job[j].quarantined /\ ~opens
    <3>1. QuarantinedJobs' = QuarantinedJobs
      BY <2>1, <2>3, <2>4, <2>5, <2>9
    <3>2. n = runner.quarantined
      BY <2>9
    <3> QED
      BY <1>4, <2>1, <3>1, <3>2
  <2> QED
    BY <2>6, <2>7, <2>8, <2>9
<1> QED
  BY <1>1, <1>4, <1>6, <1>7, <1>8 DEF Accounts, Tallied

\* The four events of the loop.
LEMMA LoopTally ==
  ASSUME IInv, Accounts, NEW j \in Jobs, Reap(j) \/ Eof(j) \/ Interrupt(j) \/ PidWritten(j)
  PROVE  Accounts'
<1>1. runner \in Counters /\ job[j] \in Job /\ Standing(job[j])
  BY DEF IInv, Shape, Accounts
<1>2. CASE Reap(j)
  <2> DEFINE r == [job[j] EXCEPT !.exited = TRUE, !.quarantined = FALSE]
             counted == Unquarantined(j)
  <2>1. Turn(j, r, "none", counted)
    BY <1>2 DEF Reap
  <2>2. /\ r \in Job /\ r.exited = TRUE /\ r.quarantined = FALSE /\ r.pc = job[j].pc
        /\ r.recovered = job[j].recovered /\ r.permit = job[j].permit
    BY <1>1 DEF Job
  <2>3. /\ counted \in Counters /\ counted.up = runner.up /\ counted.workers = runner.workers
        /\ counted.permits = runner.permits /\ counted.pending = runner.pending
        /\ counted.recovered = runner.recovered
        /\ counted.quarantined = IF job[j].quarantined
                                 THEN runner.quarantined - 1 ELSE runner.quarantined
    BY <1>1 DEF Unquarantined, Counters
  <2> HIDE DEF r, counted
  <2> QED
    BY <2>1, <2>2, <2>3, TurnTally
<1>3. CASE Eof(j)
  <2> DEFINE r == [job[j] EXCEPT !.piped = FALSE]
  <2>1. Turn(j, r, "none", runner)
    BY <1>3 DEF Eof
  <2>2. /\ r \in Job /\ r.exited = job[j].exited /\ r.quarantined = job[j].quarantined
        /\ r.pc = job[j].pc /\ r.recovered = job[j].recovered /\ r.permit = job[j].permit
    BY <1>1 DEF Job
  <2>3. r.quarantined => ~r.exited
    BY <1>1, <2>2 DEF Standing
  <2> HIDE DEF r
  <2> QED
    BY <1>1, <2>1, <2>2, <2>3, TurnTally
<1>4. CASE Interrupt(j)
  <2>1. Turn(j, job[j], "stopped", runner)
    BY <1>4 DEF Interrupt
  <2>2. job[j].quarantined => ~job[j].exited
    BY <1>1 DEF Standing
  <2> QED
    BY <1>1, <2>1, <2>2, TurnTally DEF Outcomes
<1>5. CASE PidWritten(j)
  <2> DEFINE r == [job[j] EXCEPT !.write = "none"]
             o == IF job[j].write = "failed" THEN "spawn_failed" ELSE "none"
             b == runner.failed \/ job[j].write = "failed"
             counted == [runner EXCEPT !.failed = b]
  <2>1. Turn(j, r, o, counted) /\ o \in {"none"} \cup Outcomes
    BY <1>5 DEF PidWritten, Outcomes
  <2>2. /\ r \in Job /\ r.exited = job[j].exited /\ r.quarantined = job[j].quarantined
        /\ r.pc = job[j].pc /\ r.recovered = job[j].recovered /\ r.permit = job[j].permit
    BY <1>1 DEF Job
  <2>3. r.quarantined => ~r.exited
    BY <1>1, <2>2 DEF Standing
  <2>4. b \in BOOLEAN
    OBVIOUS
  <2> HIDE DEF b
  <2>5. /\ counted \in Counters /\ counted.up = runner.up /\ counted.workers = runner.workers
        /\ counted.permits = runner.permits /\ counted.pending = runner.pending
        /\ counted.recovered = runner.recovered /\ counted.quarantined = runner.quarantined
    BY <1>1, <2>4 DEF Counters
  <2> HIDE DEF r, o, counted
  <2> QED
    BY <2>1, <2>2, <2>3, <2>5, TurnTally
<1> QED
  BY <1>2, <1>3, <1>4, <1>5

-----------------------------------------------------------------------------
(* The two ends of a reservation.                                          *)

\* Admission is what keeps the counted reservations within the limit as soon
\* as one of this session is among them.
LEMMA AdmitTally ==
  ASSUME IInv, Accounts, NEW s \in Scopes, NEW j \in Jobs, Admit(s, j)
  PROVE  Accounts'
<1> DEFINE new == [NewJob EXCEPT !.pc = "intent", !.scope = s, !.write = "busy",
                                 !.permit = TRUE]
<1>1. /\ runner.up /\ runner.pending < runner.workers /\ runner.permits > 0
      /\ runner' = [runner EXCEPT !.admitting = runner.admitting \ {s}, !.held[s] = 1,
                                  !.pending = runner.pending + 1,
                                  !.permits = runner.permits - 1]
      /\ job' = [job EXCEPT ![j] = new] /\ job[j].pc = "unused" /\ starts' = starts
  BY DEF Admit, Admissible
<1>2. runner \in Counters /\ Tallied /\ \A k \in Jobs : Standing(job[k])
  BY <1>1 DEF IInv, Shape, Accounts
<1>3. /\ new.pc = "intent" /\ new.recovered = FALSE /\ new.permit = TRUE
      /\ new.quarantined = FALSE
  BY DEF NewJob
<1>4. job'[j] = new /\ \A k \in Jobs \ {j} : job'[k] = job[k]
  BY <1>1 DEF IInv, Shape
<1> HIDE DEF new
<1>5. /\ runner'.up /\ runner'.workers = runner.workers
      /\ runner'.permits = runner.permits - 1 /\ runner'.pending = runner.pending + 1
      /\ runner'.recovered = runner.recovered /\ runner'.quarantined = runner.quarantined
  BY <1>1, <1>2 DEF Counters
<1>6. ~job[j].quarantined
  BY <1>1, <1>2 DEF Standing
<1>7. "intent" \in Counted /\ "intent" \in Reserved /\ "unused" \notin Reserved
      /\ "unused" \notin Counted
  BY DEF Counted, Reserved, Waiting
<1>8. /\ CountedJobs' = CountedJobs \cup {j} /\ j \notin CountedJobs
      /\ PermitJobs' = PermitJobs \cup {j} /\ j \notin PermitJobs
      /\ RecoveredJobs' = RecoveredJobs /\ QuarantinedJobs' = QuarantinedJobs
  <2>1. CountedJobs' = CountedJobs \cup {j} /\ j \notin CountedJobs
    BY <1>1, <1>3, <1>4, <1>7 DEF CountedJobs
  <2>2. PermitJobs' = PermitJobs \cup {j} /\ j \notin PermitJobs
    BY <1>1, <1>3, <1>4, <1>7 DEF PermitJobs
  <2>3. RecoveredJobs' = RecoveredJobs
    BY <1>1, <1>3, <1>4, <1>7 DEF RecoveredJobs
  <2>4. QuarantinedJobs' = QuarantinedJobs
    BY <1>3, <1>4, <1>6 DEF QuarantinedJobs
  <2> QED
    BY <2>1, <2>2, <2>3, <2>4
<1>9. /\ CountedJobs \in SUBSET Jobs /\ PermitJobs \in SUBSET Jobs
      /\ Cardinality(CountedJobs) \in Nat /\ Cardinality(PermitJobs) \in Nat
      /\ Cardinality(CountedJobs \cup {j}) = Cardinality(CountedJobs) + 1
      /\ Cardinality(PermitJobs \cup {j}) = Cardinality(PermitJobs) + 1
  <2>1. CountedJobs \in SUBSET Jobs /\ PermitJobs \in SUBSET Jobs
    BY DEF CountedJobs, PermitJobs
  <2> QED
    BY <1>8, <2>1, JobSets
<1>10. runner.workers \in Nat
  BY <1>2, RunnerAssumption DEF Counters
<1>11. Tallied'
  BY <1>1, <1>2, <1>5, <1>8, <1>9, <1>10 DEF Tallied
<1>12. \A k \in Jobs : Standing(job'[k])
  BY <1>2, <1>3, <1>4 DEF Standing
<1> QED
  BY <1>1, <1>5, <1>11, <1>12 DEF Accounts

\* A reservation leaves the counters first, and gives its permit back after.
LEMMA DropTally ==
  ASSUME IInv, Accounts, NEW j \in Jobs, Drop(j)
  PROVE  Accounts'
<1> DEFINE r == job[j]
           q == [r EXCEPT !.pc = "permit"]
           n == IF r.recovered THEN runner.recovered - 1 ELSE runner.recovered
           h == runner.held[r.scope] - 1
<1>1. /\ runner.up /\ r.pc = "drop" /\ starts' = starts
      /\ runner' = [runner EXCEPT !.held[r.scope] = h, !.pending = runner.pending - 1,
                                  !.recovered = n]
      /\ job' = [job EXCEPT ![j] = q]
  BY DEF Drop
<1>2. /\ runner \in Counters /\ Tallied /\ r \in Job
      /\ \A k \in Jobs : Standing(job[k])
  BY <1>1 DEF IInv, Shape, Accounts
<1>3. /\ q.pc = "permit" /\ q.recovered = r.recovered /\ q.permit = r.permit
      /\ q.quarantined = r.quarantined
  BY <1>2, MovedJob
<1>4. job'[j] = q /\ \A k \in Jobs \ {j} : job'[k] = job[k]
  BY <1>1 DEF IInv, Shape
<1> HIDE DEF q
<1>5. /\ runner'.up /\ runner'.workers = runner.workers
      /\ runner'.permits = runner.permits /\ runner'.pending = runner.pending - 1
      /\ runner'.recovered = n /\ runner'.quarantined = runner.quarantined
  <2> HIDE DEF n, h
  <2> QED
    BY <1>1, <1>2 DEF Counters
<1>6. /\ "drop" \in Counted /\ "drop" \in Reserved
      /\ "permit" \in Reserved /\ "permit" \notin Counted
  BY DEF Counted, Reserved, Waiting
<1>7. CountedJobs' = CountedJobs \ {j} /\ j \in CountedJobs
  BY <1>1, <1>3, <1>4, <1>6 DEF CountedJobs
<1>8. PermitJobs' = PermitJobs
  BY <1>1, <1>3, <1>4, <1>6 DEF PermitJobs
<1>9. QuarantinedJobs' = QuarantinedJobs
  BY <1>3, <1>4 DEF QuarantinedJobs
<1>10. FreshJobs' \subseteq FreshJobs
  BY <1>3, <1>4, <1>6 DEF FreshJobs
<1>11. n = Cardinality(RecoveredJobs')
  <2>1. RecoveredJobs \in SUBSET Jobs
    BY DEF RecoveredJobs
  <2>2. CASE r.recovered
    <3>1. j \in RecoveredJobs /\ RecoveredJobs' = RecoveredJobs \ {j}
      BY <1>1, <1>3, <1>4, <1>6, <2>2 DEF RecoveredJobs
    <3>2. n = runner.recovered - 1 /\ runner.recovered = Cardinality(RecoveredJobs)
      BY <1>2, <2>2 DEF Tallied
    <3> QED
      BY <2>1, <3>1, <3>2, JobSets
  <2>3. CASE ~r.recovered
    <3>1. RecoveredJobs' = RecoveredJobs
      BY <1>1, <1>3, <1>4, <1>6, <2>3 DEF RecoveredJobs
    <3> QED
      BY <1>2, <2>3, <3>1 DEF Tallied
  <2> QED
    BY <2>2, <2>3
<1>12. /\ Cardinality(CountedJobs) \in Nat
       /\ Cardinality(CountedJobs \ {j}) = Cardinality(CountedJobs) - 1
  <2>1. CountedJobs \in SUBSET Jobs
    BY DEF CountedJobs
  <2> QED
    BY <1>7, <2>1, JobSets
<1>13. runner.workers \in Nat
  BY <1>2, RunnerAssumption DEF Counters
<1> HIDE DEF n, r
<1>14. Tallied'
  BY <1>2, <1>5, <1>7, <1>8, <1>9, <1>10, <1>11, <1>12, <1>13 DEF Tallied
<1>15. \A k \in Jobs : Standing(job'[k])
  BY <1>1, <1>2, <1>3, <1>4 DEF Standing, r
<1> QED
  BY <1>1, <1>5, <1>14, <1>15 DEF Accounts

\* The last step of a supervisor gives its permit back.
LEMMA FreePermitTally ==
  ASSUME IInv, Accounts, NEW j \in Jobs, FreePermit(j)
  PROVE  Accounts'
<1> DEFINE r == job[j]
           q == [NewJob EXCEPT !.pc = "done", !.scope = r.scope]
           n == IF r.permit THEN runner.permits + 1 ELSE runner.permits
<1>1. /\ runner.up /\ r.pc = "permit" /\ starts' = starts
      /\ runner' = [runner EXCEPT !.permits = n]
      /\ job' = [job EXCEPT ![j] = q]
  BY DEF FreePermit, Freed
<1>2. /\ runner \in Counters /\ Tallied /\ r \in Job
      /\ \A k \in Jobs : Standing(job[k])
  BY <1>1 DEF IInv, Shape, Accounts
<1>3. /\ q.pc = "done" /\ q.recovered = FALSE /\ q.quarantined = FALSE
  BY DEF NewJob
<1>4. job'[j] = q /\ \A k \in Jobs \ {j} : job'[k] = job[k]
  BY <1>1 DEF IInv, Shape
<1> HIDE DEF q
<1>5. /\ runner'.up /\ runner'.workers = runner.workers
      /\ runner'.permits = n /\ runner'.pending = runner.pending
      /\ runner'.recovered = runner.recovered /\ runner'.quarantined = runner.quarantined
  <2> HIDE DEF n
  <2> QED
    BY <1>1, <1>2 DEF Counters
<1>6. /\ "permit" \in Reserved /\ "permit" \notin Counted
      /\ "done" \notin Reserved /\ "done" \notin Counted
  BY DEF Counted, Reserved, Waiting
<1>7. ~r.quarantined
  BY <1>1, <1>2 DEF Standing
<1>8. /\ CountedJobs' = CountedJobs /\ RecoveredJobs' = RecoveredJobs
      /\ FreshJobs' = FreshJobs
  BY <1>1, <1>3, <1>4, <1>6 DEF CountedJobs, RecoveredJobs, FreshJobs
<1>9. QuarantinedJobs' = QuarantinedJobs
  BY <1>3, <1>4, <1>7 DEF QuarantinedJobs
<1>10. runner.workers \in Nat
  BY <1>2, RunnerAssumption DEF Counters
<1>11. n \in Nat /\ n = runner.workers - Cardinality(PermitJobs')
  <2>1. PermitJobs \in SUBSET Jobs
    BY DEF PermitJobs
  <2>2. Cardinality(PermitJobs) \in Nat
    BY <2>1, JobSets
  <2>3. runner.permits \in Nat /\ runner.permits = runner.workers - Cardinality(PermitJobs)
    BY <1>2 DEF Tallied
  <2>4. CASE r.permit
    <3>1. j \in PermitJobs /\ PermitJobs' = PermitJobs \ {j}
      BY <1>1, <1>3, <1>4, <1>6, <2>4 DEF PermitJobs
    <3>2. Cardinality(PermitJobs') = Cardinality(PermitJobs) - 1
      BY <2>1, <3>1, JobSets
    <3>3. n = runner.permits + 1
      BY <2>4
    <3> HIDE DEF n
    <3> QED
      BY <1>10, <2>2, <2>3, <3>2, <3>3
  <2>5. CASE ~r.permit
    <3>1. PermitJobs' = PermitJobs
      BY <1>1, <1>3, <1>4, <1>6, <2>5 DEF PermitJobs
    <3> QED
      BY <2>3, <2>5, <3>1
  <2> QED
    BY <2>4, <2>5
<1> HIDE DEF n, r
<1>12. Tallied'
  BY <1>2, <1>5, <1>8, <1>9, <1>11 DEF Tallied
<1>13. \A k \in Jobs : Standing(job'[k])
  BY <1>2, <1>3, <1>4 DEF Standing
<1> QED
  BY <1>1, <1>5, <1>12, <1>13 DEF Accounts

-----------------------------------------------------------------------------
(* Launches that are skipped, the host and the daemon.                     *)

\* Steps that touch neither a job nor a counter.
LEMMA QuietTally ==
  ASSUME IInv, Accounts,
         \/ \E s \in Scopes : Attempt(s) \/ Skip(s)
         \/ Shutdown \/ (\E j \in Jobs : ChildExits(j)) \/ UNCHANGED vars
  PROVE  Accounts'
<1>1. runner \in Counters
  BY DEF IInv, Shape
<1>2. /\ job' = job /\ starts' = starts
      /\ \/ runner' = runner
         \/ runner.up /\ \E a : runner' = [runner EXCEPT !.admitting = a]
         \/ runner.up /\ runner' = [runner EXCEPT !.shutdown = TRUE]
  BY DEF Attempt, Skip, Shutdown, ChildExits, vars
<1>3. CASE runner' = runner
  <2>1. /\ CountedJobs' = CountedJobs /\ RecoveredJobs' = RecoveredJobs
        /\ FreshJobs' = FreshJobs /\ PermitJobs' = PermitJobs
        /\ QuarantinedJobs' = QuarantinedJobs
    BY <1>2 DEF CountedJobs, RecoveredJobs, FreshJobs, PermitJobs, QuarantinedJobs
  <2> QED
    BY <1>2, <1>3, <2>1 DEF Accounts, Tallied
<1>4. CASE runner.up /\ runner' # runner
  <2>1. SameCounts
    BY <1>1, <1>2, <1>4 DEF Counters, SameCounts
  <2>2. \A k \in Jobs : SameEntry(job[k], job'[k]) /\ Standing(job'[k])
    BY <1>2 DEF SameEntry, Accounts
  <2> QED
    BY <1>2, <1>4, <2>1, <2>2, SameTally
<1> QED
  BY <1>2, <1>3, <1>4

\* A crash forgets the counters with the jobs they count.
LEMMA CrashTally ==
  ASSUME IInv, Accounts, Crash \/ Reboot
  PROVE  Accounts'
<1>1. runner' = Stopped(runner.workers) /\ job' = Lost /\ starts' = starts
  BY DEF Crash, Reboot
<1>2. ~runner'.up /\ runner'.workers = runner.workers
  BY <1>1 DEF Stopped
<1>3. ASSUME NEW j \in Jobs PROVE Standing(job'[j])
  <2>1. CASE job[j].pc = "unused"
    <3>1. job'[j] = job[j]
      BY <1>1, <2>1 DEF Lost
    <3> QED
      BY <3>1 DEF Accounts
  <2>2. CASE job[j].pc # "unused"
    <3>1. job'[j] = [NewJob EXCEPT !.pc = "lost", !.scope = job[j].scope]
      BY <1>1, <2>2 DEF Lost
    <3>2. job'[j].recovered = FALSE /\ job'[j].quarantined = FALSE
      BY <3>1 DEF NewJob
    <3> QED
      BY <3>2 DEF Standing
  <2> QED
    BY <2>1, <2>2
<1> QED
  BY <1>1, <1>2, <1>3 DEF Accounts

\* A failed start counts nothing.
LEMMA StartFailsTally ==
  ASSUME IInv, Accounts, NEW cleared \in SUBSET Jobs, StartFails(cleared)
  PROVE  Accounts'
BY DEF StartFails, Accounts

\* A start counts the records it recovers, and nothing of this session yet.
LEMMA StartTally ==
  ASSUME IInv, Accounts, NEW w \in Limits, NEW kept \in SUBSET Removable,
         NEW lucky \in SUBSET Jobs, Start(w, kept, lucky)
  PROVE  Accounts'
<1> DEFINE found == Recovered(Removable \ kept)
           q(k) == [NewJob EXCEPT !.pc = IF file[k] = "pid" THEN "watch" ELSE "stuck",
                                  !.scope = job[k].scope, !.recovered = TRUE,
                                  !.permit = k \in lucky]
           held == [s \in Scopes |-> Cardinality({k \in found : job[k].scope = s})]
<1>1. /\ ~runner.up /\ starts < MaxRestarts /\ starts' = starts + 1
      /\ lucky \subseteq found /\ Cardinality(lucky) <= w
      /\ job' = [k \in Jobs |-> IF k \notin found THEN job[k] ELSE q(k)]
      /\ runner' = [Stopped(w) EXCEPT
           !.up = TRUE, !.permits = w - Cardinality(lucky),
           !.pending = Cardinality(found), !.recovered = Cardinality(found), !.held = held]
  BY DEF Start
<1>2. found \in SUBSET Jobs
  BY DEF Recovered
<1> HIDE DEF found, held
<1>3. /\ runner'.up /\ runner'.workers = w /\ runner'.permits = w - Cardinality(lucky)
      /\ runner'.pending = Cardinality(found) /\ runner'.recovered = Cardinality(found)
      /\ runner'.quarantined = 0
  BY <1>1 DEF Stopped
<1>4. \A k \in Jobs : /\ q(k).pc \in {"watch", "stuck"} /\ q(k).recovered = TRUE
                      /\ q(k).permit = (k \in lucky) /\ q(k).quarantined = FALSE
  BY DEF NewJob
<1> HIDE DEF q
<1>5. \A k \in Jobs : IF k \in found THEN job'[k] = q(k) ELSE job'[k] = job[k]
  BY <1>1
<1>6. \A k \in Jobs : job[k].pc \in {"unused", "lost"} /\ Standing(job[k])
  BY <1>1 DEF IInv, Traced, Accounts
<1>7. /\ "watch" \in Counted /\ "stuck" \in Counted /\ "watch" \in Reserved
      /\ "stuck" \in Reserved /\ "unused" \notin Reserved /\ "lost" \notin Reserved
      /\ "unused" \notin Counted /\ "lost" \notin Counted
  BY DEF Counted, Reserved, Waiting
<1>8. \A k \in Jobs : ~job'[k].quarantined
  BY <1>4, <1>5, <1>6 DEF Standing
<1>9. CountedJobs' = found
  BY <1>2, <1>4, <1>5, <1>6, <1>7 DEF CountedJobs
<1>10. RecoveredJobs' = found
  BY <1>2, <1>4, <1>5, <1>6, <1>7 DEF RecoveredJobs
<1>11. FreshJobs' = {}
  BY <1>2, <1>4, <1>5, <1>6, <1>7 DEF FreshJobs
<1>12. PermitJobs' = lucky
  BY <1>1, <1>2, <1>4, <1>5, <1>6, <1>7 DEF PermitJobs
<1>13. QuarantinedJobs' = {}
  BY <1>8 DEF QuarantinedJobs
<1>14. Cardinality({}) = 0
  BY FS_EmptySet
<1>15. w - Cardinality(lucky) \in Nat
  <2>1. Cardinality(lucky) \in Nat /\ w \in Nat
    BY JobSets, RunnerAssumption
  <2> QED
    BY <1>1, <2>1
<1>16. Tallied'
  BY <1>3, <1>9, <1>10, <1>11, <1>12, <1>13, <1>14, <1>15 DEF Tallied
<1>17. \A k \in Jobs : Standing(job'[k])
  BY <1>4, <1>5, <1>6, <1>8 DEF Standing
<1>18. starts' \in 0..MaxRestarts
  BY <1>1, RunnerAssumption DEF Accounts
<1> QED
  BY <1>3, <1>16, <1>17, <1>18 DEF Accounts

\* The counters agree with the jobs when nothing runs.
LEMMA InitTally == Init => Accounts
<1> SUFFICES ASSUME Init PROVE Accounts
  OBVIOUS
<1>1. PICK w \in Limits : runner = Stopped(w)
  BY DEF Init
<1>2. runner = Stopped(runner.workers) /\ ~runner.up
  BY <1>1 DEF Stopped
<1>3. \A j \in Jobs : Standing(job[j])
  BY DEF Init, NewJob, Standing
<1>4. starts \in 0..MaxRestarts
  BY RunnerAssumption DEF Init
<1> QED
  BY <1>2, <1>3, <1>4 DEF Accounts

\* Every step keeps the counters right.
LEMMA NextTally == IInv /\ Accounts /\ [Next]_vars => Accounts'
<1> SUFFICES ASSUME IInv, Accounts, [Next]_vars PROVE Accounts'
  OBVIOUS
<1>1. CASE Launch
  BY <1>1, QuietTally, AdmitTally DEF Launch
<1>2. CASE \E j \in Jobs : Supervise(j) \/ Disk(j)
  <2>1. PICK j \in Jobs : Supervise(j) \/ Disk(j)
    BY <1>2
  <2>2. CASE \/ IntentWritten(j) \/ IntentFailed(j) \/ IntentTooLate(j) \/ GiveUp(j)
             \/ LateWritten(j) \/ SpawnFails(j) \/ Spawn(j) \/ Leave(j) \/ PidSettled(j)
             \/ RecoveredGone(j) \/ Disk(j)
    BY <2>2, MoveTally DEF Disk
  <2>3. CASE Reap(j) \/ Eof(j) \/ Interrupt(j) \/ PidWritten(j)
    BY <2>3, LoopTally
  <2>4. CASE Drop(j) \/ FreePermit(j)
    BY <2>4, DropTally, FreePermitTally
  <2> QED
    BY <2>1, <2>2, <2>3, <2>4 DEF Supervise
<1>3. CASE Shutdown \/ (\E j \in Jobs : ChildExits(j)) \/ UNCHANGED vars
  BY <1>3, QuietTally
<1>4. CASE Crash \/ Reboot
  BY <1>4, CrashTally
<1>5. CASE Restart
  BY <1>5, StartTally, StartFailsTally DEF Restart
<1> QED
  BY <1>1, <1>2, <1>3, <1>4, <1>5 DEF Next

\* The reservations and the counters agree in every state.
THEOREM CountersAgree == Spec => []Inv
<1>1. Init => Inv
  BY InitEstablishes, InitTally DEF Inv
<1>2. Inv /\ [Next]_vars => Inv'
  BY NextPreserves, NextTally DEF Inv
<1> QED
  BY <1>1, <1>2, PTL DEF Spec

-----------------------------------------------------------------------------
(* What follows for the counters.                                          *)

\* The counters are of their type, so none of them wraps below zero, however
\* the supervisors, the recovery and the two steps of a release interleave.
THEOREM TypeCorrect == Spec => []TypeOK
<1>1. ASSUME Inv PROVE TypeOK
  <2>1. /\ runner \in Counters /\ job \in [Jobs -> Job]
        /\ file \in [Jobs -> {"none", "intent", "pid", "stale"}]
        /\ child \in [Jobs -> {"none", "alive", "killed", "gone"}]
        /\ starts \in 0..MaxRestarts
    BY <1>1 DEF Inv, IInv, Shape, Accounts
  <2>2. /\ runner.permits \in Nat /\ runner.pending \in Nat /\ runner.recovered \in Nat
        /\ runner.quarantined \in Nat /\ \A s \in Scopes : runner.held[s] \in Nat
    <3>1. CASE runner.up
      <4>1. /\ CountedJobs \in SUBSET Jobs /\ RecoveredJobs \in SUBSET Jobs
            /\ QuarantinedJobs \in SUBSET Jobs
        BY DEF CountedJobs, RecoveredJobs, QuarantinedJobs
      <4>2. /\ Cardinality(CountedJobs) \in Nat /\ Cardinality(RecoveredJobs) \in Nat
            /\ Cardinality(QuarantinedJobs) \in Nat
        BY <4>1, JobSets
      <4>3. \A s \in Scopes : runner.held[s] \in Nat
        BY <1>1, <3>1 DEF Inv, IInv, HeldExact
      <4> QED
        BY <1>1, <3>1, <4>2, <4>3 DEF Inv, Accounts, Tallied
    <3>2. CASE ~runner.up
      <4>1. runner = Stopped(runner.workers) /\ runner.workers \in Nat
        BY <1>1, <2>1, <3>2, RunnerAssumption DEF Inv, Accounts, Counters
      <4>2. PICK w \in Nat : runner = Stopped(w)
        BY <4>1
      <4> QED
        BY <4>2 DEF Stopped
    <3> QED
      BY <3>1, <3>2
  <2>3. runner.held \in [Scopes -> Nat]
    BY <2>1, <2>2 DEF Counters
  <2>4. runner \in Runner
    BY <2>1, <2>2, <2>3 DEF Counters, Runner
  <2> QED
    BY <2>1, <2>4 DEF TypeOK
<1> QED
  BY <1>1, CountersAgree, PTL

\* In a running daemon the counters are exactly the reservations there are:
\* what was reserved once is released once, and a recovered record that got no
\* permit gives none back.
THEOREM CountersAreExact == Spec => []AccountingExact
<1>1. ASSUME Inv PROVE AccountingExact
  <2> SUFFICES ASSUME runner.up
               PROVE  LET counted == {j \in Holders : job[j].pc # "permit"}
                      IN /\ runner.pending = Cardinality(counted)
                         /\ runner.recovered = Cardinality({j \in counted : job[j].recovered})
                         /\ \A s \in Scopes :
                              runner.held[s] = Cardinality({j \in counted : job[j].scope = s})
                         /\ runner.permits =
                              runner.workers - Cardinality({j \in Holders : job[j].permit})
    BY DEF AccountingExact
  <2> DEFINE counted == {j \in Holders : job[j].pc # "permit"}
  <2>1. Tallied /\ Disjoint /\ HeldExact
    BY <1>1 DEF Inv, IInv, Accounts
  <2>2. counted = CountedJobs
    BY DEF Holders, CountedJobs, Counted
  <2>3. {j \in counted : job[j].recovered} = RecoveredJobs
    BY <2>2 DEF CountedJobs, RecoveredJobs
  <2>4. {j \in Holders : job[j].permit} = PermitJobs
    BY DEF Holders, PermitJobs
  <2> HIDE DEF counted
  <2>5. ASSUME NEW s \in Scopes
        PROVE  runner.held[s] = Cardinality({j \in counted : job[j].scope = s})
    <3>1. \A j : j \in counted <=> j \in Jobs /\ job[j].pc \in Counted
      BY <2>2 DEF CountedJobs
    <3>2. CASE \E j \in Jobs : job[j].pc \in Counted /\ job[j].scope = s
      <4>1. PICK j \in Jobs : job[j].pc \in Counted /\ job[j].scope = s
        BY <3>2
      <4>2. {k \in counted : job[k].scope = s} = {j}
        BY <2>1, <3>1, <4>1 DEF Disjoint, Engaged
      <4>3. runner.held[s] = 1
        BY <2>1, <3>2 DEF HeldExact
      <4> QED
        BY <4>2, <4>3, FS_Singleton
    <3>3. CASE ~\E j \in Jobs : job[j].pc \in Counted /\ job[j].scope = s
      <4>1. {k \in counted : job[k].scope = s} = {}
        BY <3>1, <3>3
      <4>2. runner.held[s] = 0
        BY <2>1, <3>3 DEF HeldExact
      <4> QED
        BY <4>1, <4>2, FS_EmptySet
    <3> QED
      BY <3>2, <3>3
  <2>6. /\ runner.pending = Cardinality(counted)
        /\ runner.recovered = Cardinality({j \in counted : job[j].recovered})
        /\ runner.permits = runner.workers - Cardinality({j \in Holders : job[j].permit})
    BY <2>1, <2>2, <2>3, <2>4 DEF Tallied
  <2> QED
    BY <2>5, <2>6 DEF counted
<1> QED
  BY <1>1, CountersAgree, PTL

-----------------------------------------------------------------------------
(* The budget: every step is one that WorkBudget allows, or none.          *)

\* What the host sees of the jobs: Promise's working.
Working == [j \in Jobs |-> IF Alive(j) THEN job[j].scope ELSE NoScope]

\* A step that lets no process begin: those that are alive after it were
\* before, on the same scope.
Ends == \A k \in Jobs : Alive(k)' => Alive(k) /\ job'[k].scope = job[k].scope

\* Such a step is the end of the processes that are gone, or no step at all.
LEMMA EndingStep ==
  ASSUME IInv, Ends, runner'.workers = runner.workers
  PROVE  Promise!Next
<1>1. PICK P \in SUBSET Jobs : \A k \in Jobs : k \in P <=> child'[k] \notin {"alive", "killed"}
  <2>1. {k \in Jobs : child'[k] \notin {"alive", "killed"}} \in SUBSET Jobs
    OBVIOUS
  <2> QED
    BY <2>1
<1>2. Working' = [k \in Jobs |-> IF k \in P THEN NoScope ELSE Working[k]]
  BY <1>1 DEF Working, Ends, Alive
<1>3. Promise!End(P)
  BY <1>2 DEF Promise!End, Working
<1> QED
  BY <1>3 DEF Promise!Next

\* A step of one job that keeps its scope, and starts no child.
LEMMA LocalEnds ==
  ASSUME IInv, NEW j \in Jobs, NEW q, job' = [job EXCEPT ![j] = q], q.scope = job[j].scope,
         \A k \in Jobs : child'[k] \in {"alive", "killed"} => child[k] \in {"alive", "killed"}
  PROVE  Ends
<1>1. job'[j] = q /\ \A k \in Jobs \ {j} : job'[k] = job[k]
  BY DEF IInv, Shape
<1>2. \A k \in Jobs : job'[k].scope = job[k].scope
  BY <1>1
<1> QED
  BY <1>2 DEF Ends, Alive

\* The runner keeps its limit, whatever else of it changes.
LEMMA WorkersKept ==
  ASSUME IInv, NEW j \in Jobs, Supervise(j) \/ Disk(j)
  PROVE  runner'.workers = runner.workers
<1>1. runner \in Counters
  BY DEF IInv, Shape
<1>2. CASE \/ IntentWritten(j) \/ GiveUp(j) \/ IntentTooLate(j) \/ SpawnFails(j) \/ Spawn(j)
           \/ Leave(j) \/ RecoveredGone(j)
  BY <1>2 DEF IntentWritten, GiveUp, IntentTooLate, SpawnFails, Spawn, Leave, RecoveredGone
<1>3. CASE IntentFailed(j) \/ LateWritten(j) \/ PidSettled(j) \/ Disk(j)
  BY <1>1, <1>3 DEF IntentFailed, LateWritten, PidSettled, Disk, WriteEnds, RemoveEnds,
                    Counters
<1>4. CASE Drop(j) \/ FreePermit(j)
  BY <1>1, <1>4 DEF Drop, FreePermit, Counters
<1>5. CASE Reap(j) \/ Eof(j) \/ Interrupt(j) \/ PidWritten(j)
  <2>1. PICK r, o, counted :
          /\ Turn(j, r, o, counted)
          /\ counted \in {runner, Unquarantined(j),
                          [runner EXCEPT !.failed = runner.failed \/ job[j].write = "failed"]}
    BY <1>5 DEF Reap, Eof, Interrupt, PidWritten
  <2>2. counted \in Counters /\ counted.workers = runner.workers
    <3>1. CASE counted = runner
      BY <1>1, <3>1
    <3>2. CASE counted = Unquarantined(j)
      BY <1>1, <3>2 DEF Unquarantined, Counters
    <3>3. CASE counted = [runner EXCEPT !.failed = runner.failed \/ job[j].write = "failed"]
      <4> DEFINE b == runner.failed \/ job[j].write = "failed"
      <4>1. b \in BOOLEAN /\ counted = [runner EXCEPT !.failed = b]
        BY <3>3
      <4> HIDE DEF b
      <4> QED
        BY <1>1, <4>1 DEF Counters
    <3> QED
      BY <2>1, <3>1, <3>2, <3>3
  <2>4. PICK n : runner' = [counted EXCEPT !.quarantined = n]
    BY <2>1 DEF Turn
  <2> QED
    BY <2>2, <2>4 DEF Counters
<1> QED
  BY <1>2, <1>3, <1>4, <1>5 DEF Supervise

\* Only a start changes the limit on jobs.
LEMMA WorkersKeptByOthers ==
  ASSUME IInv, Launch \/ (\E j \in Jobs : ChildExits(j)) \/ Shutdown \/ Crash \/ Reboot
               \/ (\E cleared \in SUBSET Jobs : StartFails(cleared)) \/ UNCHANGED vars
  PROVE  runner'.workers = runner.workers
<1>1. runner \in Counters
  BY DEF IInv, Shape
<1>2. CASE \E s \in Scopes : Attempt(s) \/ Skip(s) \/ \E j \in Jobs : Admit(s, j)
  BY <1>1, <1>2 DEF Attempt, Skip, Admit, Counters
<1>3. CASE Shutdown
  BY <1>1, <1>3 DEF Shutdown, Counters
<1>4. CASE Crash \/ Reboot
  BY <1>4 DEF Crash, Reboot, Stopped
<1>5. CASE (\E j \in Jobs : ChildExits(j)) \/ UNCHANGED vars
           \/ (\E cleared \in SUBSET Jobs : StartFails(cleared))
  BY <1>5 DEF ChildExits, StartFails, vars
<1> QED
  BY <1>2, <1>3, <1>4, <1>5 DEF Launch

\* A turn of the loop may kill its child, which is still there then.
LEMMA TurnEnds ==
  ASSUME IInv, NEW j \in Jobs, NEW r \in Job, NEW o \in {"none"} \cup Outcomes, NEW counted,
         Turn(j, r, o, counted), r.scope = job[j].scope
  PROVE  Ends
<1> DEFINE cause == IF runner.shutdown /\ r.result = "none" THEN "stopped" ELSE o
           opens == cause = "stopped" /\ r.result = "none" /\ ~r.exited /\ ~r.quarantined
           q == IF cause = "none" THEN r ELSE Terminated(r, cause, opens)
<1>1. /\ job' = [job EXCEPT ![j] = q]
      /\ child' = IF cause # "none" /\ ~r.exited /\ child[j] = "alive"
                  THEN [child EXCEPT ![j] = "killed"] ELSE child
  BY DEF Turn
<1>2. q.scope = r.scope
  <2>1. opens \in BOOLEAN /\ cause \in {"none"} \cup Outcomes
    BY DEF Outcomes
  <2>2. CASE cause = "none"
    BY <2>2
  <2>3. CASE cause # "none"
    <3>1. Terminated(r, cause, opens).scope = r.scope
      BY <2>1, <2>3, TerminatedJob
    <3> QED
      BY <2>3, <3>1
  <2> QED
    BY <2>2, <2>3
<1>3. \A k \in Jobs : child'[k] \in {"alive", "killed"} => child[k] \in {"alive", "killed"}
  <2> HIDE DEF cause
  <2> QED
    BY <1>1 DEF IInv, Shape
<1> HIDE DEF q
<1> QED
  BY <1>1, <1>2, <1>3, LocalEnds

\* A supervisor lets a process begin only by its spawn.
LEMMA SuperviseEnds ==
  ASSUME IInv, NEW j \in Jobs, Supervise(j) \/ Disk(j), ~Spawn(j)
  PROVE  Ends
<1> DEFINE r == job[j]
<1>1. r \in Job
  BY DEF IInv, Shape
<1>2. CASE Reap(j) \/ Eof(j) \/ Interrupt(j) \/ PidWritten(j)
  <2>1. CASE Reap(j)
    <3> DEFINE q == [r EXCEPT !.exited = TRUE, !.quarantined = FALSE]
    <3>1. q \in Job /\ q.scope = r.scope /\ Turn(j, q, "none", Unquarantined(j))
      BY <1>1, <2>1 DEF Reap, Job
    <3> HIDE DEF q
    <3> QED
      BY <3>1, TurnEnds
  <2>2. CASE Eof(j)
    <3> DEFINE q == [r EXCEPT !.piped = FALSE]
    <3>1. q \in Job /\ q.scope = r.scope /\ Turn(j, q, "none", runner)
      BY <1>1, <2>2 DEF Eof, Job
    <3> HIDE DEF q
    <3> QED
      BY <3>1, TurnEnds
  <2>3. CASE Interrupt(j)
    BY <1>1, <2>3, TurnEnds DEF Interrupt, Outcomes
  <2>4. CASE PidWritten(j)
    <3> DEFINE q == [r EXCEPT !.write = "none"]
               o == IF r.write = "failed" THEN "spawn_failed" ELSE "none"
               counted == [runner EXCEPT !.failed = runner.failed \/ r.write = "failed"]
    <3>1. q \in Job /\ q.scope = r.scope /\ Turn(j, q, o, counted)
          /\ o \in {"none"} \cup Outcomes
      BY <1>1, <2>4 DEF PidWritten, Job, Outcomes
    <3> HIDE DEF q, o, counted
    <3> QED
      BY <3>1, TurnEnds
  <2> QED
    BY <1>2, <2>1, <2>2, <2>3, <2>4
<1>3. CASE ~(Reap(j) \/ Eof(j) \/ Interrupt(j) \/ PidWritten(j))
  <2>1. child' = child
    BY <1>3 DEF Supervise, Disk, IntentWritten, IntentFailed, LateWritten, SpawnFails, GiveUp,
                IntentTooLate, Leave, PidSettled, Drop, FreePermit, RecoveredGone, WriteEnds,
                RemoveEnds
  <2>2. \E q : q.scope = r.scope /\ job' = [job EXCEPT ![j] = q]
    <3>1. ASSUME NEW o \in Outcomes
          PROVE  /\ Refused(r, o).scope = r.scope
                 /\ \A p : [Published(r, o) EXCEPT !.pc = p].scope = r.scope
      <4>1. Published(r, o) \in Job /\ Published(r, o).scope = r.scope
        BY <1>1, PublishedJob
      <4> QED
        BY <1>1, <4>1, RefusedJob DEF Job
    <3>2. CASE IntentFailed(j) \/ SpawnFails(j)
      BY <3>1, <3>2 DEF IntentFailed, SpawnFails, Outcomes
    <3>3. CASE IntentTooLate(j)
      BY <3>1, <3>3 DEF IntentTooLate, Outcomes
    <3>4. CASE GiveUp(j)
      <4>1. job' = [job EXCEPT ![j] = [Published(r, "stopped") EXCEPT !.pc = "late"]]
        BY <3>4 DEF GiveUp
      <4> QED
        BY <3>1, <4>1 DEF Outcomes
    <3>5. CASE Leave(j)
      <4>1. job' = [job EXCEPT ![j] = [Published(r, "completed") EXCEPT !.pc = "pidwait"]]
        BY <3>5 DEF Leave
      <4> QED
        BY <3>1, <4>1 DEF Outcomes
    <3>6. CASE IntentWritten(j) \/ LateWritten(j) \/ PidSettled(j)
      <4>1. \E p : job' = [job EXCEPT ![j] = [r EXCEPT !.pc = p, !.write = "none"]]
        BY <3>6 DEF IntentWritten, LateWritten, PidSettled
      <4>2. \A p : [r EXCEPT !.pc = p, !.write = "none"].scope = r.scope
        BY <1>1 DEF Job
      <4> QED
        BY <4>1, <4>2
    <3>7. CASE Drop(j) \/ RecoveredGone(j) \/ \E ok \in BOOLEAN : RemoveEnds(j, ok)
      <4>1. job' = job \/ \E p : job' = [job EXCEPT ![j] = [r EXCEPT !.pc = p]]
        BY <3>7 DEF Drop, RecoveredGone, RemoveEnds
      <4>2. \A p : [r EXCEPT !.pc = p].scope = r.scope
        BY <1>1 DEF Job
      <4>3. job = [job EXCEPT ![j] = r]
        BY DEF IInv, Shape
      <4> QED
        BY <4>1, <4>2, <4>3
    <3>8. CASE \E ok \in BOOLEAN : WriteEnds(j, ok)
      <4>1. \E w : job' = [job EXCEPT ![j] = [r EXCEPT !.write = w]]
        BY <1>1, <3>8 DEF WriteEnds, IInv, Shape
      <4>2. \A w : [r EXCEPT !.write = w].scope = r.scope
        BY <1>1 DEF Job
      <4> QED
        BY <4>1, <4>2
    <3>9. CASE FreePermit(j)
      <4>1. job' = [job EXCEPT ![j] = [NewJob EXCEPT !.pc = "done", !.scope = r.scope]]
        BY <3>9 DEF FreePermit
      <4>2. [NewJob EXCEPT !.pc = "done", !.scope = r.scope].scope = r.scope
        BY DEF NewJob
      <4> QED
        BY <4>1, <4>2
    <3> QED
      BY <1>3, <3>2, <3>3, <3>4, <3>5, <3>6, <3>7, <3>8, <3>9 DEF Supervise, Disk
  <2> QED
    BY <2>1, <2>2, LocalEnds
<1> QED
  BY <1>2, <1>3

\* The steps that are of no supervisor, those of a start aside.
LEMMA OtherEnds ==
  ASSUME IInv, Launch \/ (\E j \in Jobs : ChildExits(j)) \/ Shutdown \/ Crash \/ Reboot
               \/ (\E cleared \in SUBSET Jobs : StartFails(cleared)) \/ UNCHANGED vars
  PROVE  Ends
<1>1. CASE \/ \E s \in Scopes : Attempt(s) \/ Skip(s)
           \/ (\E j \in Jobs : ChildExits(j)) \/ Shutdown
           \/ (\E cleared \in SUBSET Jobs : StartFails(cleared)) \/ UNCHANGED vars
  <2>1. job' = job /\ (child' = child \/ \E j \in Jobs : child' = [child EXCEPT ![j] = "gone"])
    BY <1>1 DEF Attempt, Skip, ChildExits, Shutdown, StartFails, vars
  <2>2. \A k \in Jobs : child'[k] = child[k] \/ child'[k] = "gone"
    BY <2>1 DEF IInv, Shape
  <2> QED
    BY <2>1, <2>2 DEF Ends, Alive
<1>2. CASE \E s \in Scopes, j \in Jobs : Admit(s, j)
  <2>1. PICK s \in Scopes, j \in Jobs : Admit(s, j)
    BY <1>2
  <2>2. child' = child /\ child[j] = "none"
    BY <2>1 DEF Admit, IInv, Traced
  <2>3. \A k \in Jobs \ {j} : job'[k] = job[k]
    BY <2>1 DEF Admit, IInv, Shape
  <2> QED
    BY <2>2, <2>3 DEF Ends, Alive
<1>3. CASE Crash \/ Reboot
  <2>1. job' = Lost
        /\ (child' = child \/ child' = [j \in Jobs |-> IF Alive(j) THEN "gone" ELSE child[j]])
    BY <1>3 DEF Crash, Reboot
  <2>2. \A k \in Jobs : job'[k].scope = job[k].scope
    BY <2>1, LostShape DEF IInv
  <2>3. \A k \in Jobs : child'[k] \in {"alive", "killed"} => child[k] \in {"alive", "killed"}
    BY <2>1 DEF Alive
  <2> QED
    BY <2>2, <2>3 DEF Ends, Alive
<1> QED
  BY <1>1, <1>2, <1>3 DEF Launch

\* WorkBudget counts as CommandRunner does.
LEMMA SameCardinality == \A S : Promise!Cardinality(S) = Cardinality(S)
BY Zenon DEF Promise!Cardinality, Cardinality

\* A process begins on a scope that no other works on, and within the limit:
\* its reservation is one of this session, so all that count are within it.
LEMMA SpawnBegins ==
  ASSUME Inv, NEW j \in Jobs, Spawn(j)
  PROVE  Promise!Next
<1> DEFINE s == job[j].scope
           q == [job[j] EXCEPT !.pc = "running", !.write = "busy", !.piped = TRUE]
<1>1. /\ runner.up /\ job[j].pc = "ready" /\ runner' = runner
      /\ job' = [job EXCEPT ![j] = q] /\ child' = [child EXCEPT ![j] = "alive"]
  BY DEF Spawn
<1>2. /\ Shape /\ Disjoint /\ Tallied /\ \A k \in Jobs : Standing(job[k])
      /\ \A k \in Jobs : Traced(k) /\ Placed(k)
  BY <1>1 DEF Inv, IInv, Accounts
<1>3. s \in Scopes /\ ~Alive(j) /\ job[j].pc \in Counted
  BY <1>1, <1>2 DEF Traced, Placed, Counted, Reserved, Waiting
<1>4. \A k \in Jobs : Alive(k) => /\ job[k].pc \in Counted /\ k # j
                                  /\ job[k].scope \in Scopes /\ job[k].scope # s
  <2> SUFFICES ASSUME NEW k \in Jobs, Alive(k)
               PROVE  /\ job[k].pc \in Counted /\ k # j
                      /\ job[k].scope \in Scopes /\ job[k].scope # s
    OBVIOUS
  <2>1. job[k].pc \in Counted /\ k # j /\ job[k].scope \in Scopes
    BY <1>2, <1>3 DEF Traced, Placed, Counted, Reserved, Waiting
  <2> QED
    BY <1>2, <1>3, <2>1 DEF Disjoint, Engaged
<1>5. NoScope \notin Scopes
  BY RunnerAssumption
<1>6. {k \in Jobs : Alive(k)} = {k \in Jobs : Working[k] # NoScope}
  BY <1>4, <1>5 DEF Working
<1> DEFINE live == {k \in Jobs : Working[k] # NoScope}
<1>7. Cardinality(live) < runner.workers
  <2>1. CountedJobs \in SUBSET Jobs /\ j \in CountedJobs /\ j \in FreshJobs
    BY <1>1, <1>2, <1>3 DEF CountedJobs, FreshJobs, Standing
  <2>2. live \subseteq CountedJobs \ {j}
    BY <1>4, <1>6 DEF CountedJobs
  <2>3. /\ Cardinality(CountedJobs \ {j}) = Cardinality(CountedJobs) - 1
        /\ Cardinality(CountedJobs) \in Nat
    BY <2>1, JobSets
  <2>4. Cardinality(CountedJobs) <= runner.workers /\ runner.workers \in Nat
    BY <1>2, <2>1, RunnerAssumption DEF Tallied, Shape, Counters
  <2>5. live \in SUBSET Jobs
    BY <2>1, <2>2
  <2>6. Cardinality(live) \in Nat
    BY <2>5, JobSets
  <2>7. Cardinality(live) <= Cardinality(CountedJobs \ {j})
    <3>1. IsFiniteSet(CountedJobs \ {j})
      BY <2>1, JobSets
    <3> HIDE DEF live
    <3> QED
      BY <2>2, <3>1, FS_Subset
  <2> HIDE DEF live
  <2> QED
    BY <2>3, <2>4, <2>6, <2>7
<1>8. Working' = [Working EXCEPT ![j] = s]
  <2>1. q.scope = s
    BY <1>2 DEF Shape, Job
  <2> HIDE DEF q
  <2>2. /\ job'[j] = q /\ child'[j] = "alive"
        /\ \A k \in Jobs \ {j} : job'[k] = job[k] /\ child'[k] = child[k]
    BY <1>1, <1>2 DEF Shape
  <2> QED
    BY <2>1, <2>2 DEF Working, Alive
<1>9. Working[j] = NoScope /\ \A k \in live : Working[k] # s
  BY <1>3, <1>4, <1>6 DEF Working
<1>10. PICK p \in Jobs, u \in Scopes : p = j /\ u = s
  BY <1>3
<1>11. Promise!Begin(p, u)
  <2>1. /\ Working[p] = NoScope /\ \A k \in live : Working[k] # u
        /\ Cardinality(live) < runner.workers
        /\ Working' = [Working EXCEPT ![p] = u]
    BY <1>7, <1>8, <1>9, <1>10
  <2>2. runner'.workers = runner.workers
    BY <1>1
  <2>3. live = Promise!Live /\ Promise!Cardinality(live) = Cardinality(live)
    BY SameCardinality DEF Promise!Live, Working
  <2> HIDE DEF live
  <2> QED
    BY <2>1, <2>2, <2>3 DEF Promise!Begin, Working
<1> QED
  BY <1>11 DEF Promise!Next

\* A start brings the limit of its configuration, and what it recovers keeps
\* its scope.
LEMMA StartReconfigures ==
  ASSUME IInv, NEW w \in Limits, NEW kept \in SUBSET Removable, NEW lucky \in SUBSET Jobs,
         Start(w, kept, lucky)
  PROVE  Promise!Next
<1> DEFINE found == Recovered(Removable \ kept)
           q(k) == [NewJob EXCEPT !.pc = IF file[k] = "pid" THEN "watch" ELSE "stuck",
                                  !.scope = job[k].scope, !.recovered = TRUE,
                                  !.permit = k \in lucky]
           held == [s \in Scopes |-> Cardinality({k \in found : job[k].scope = s})]
<1>1. /\ child' = child
      /\ job' = [k \in Jobs |-> IF k \notin found THEN job[k] ELSE q(k)]
      /\ runner' = [Stopped(w) EXCEPT
           !.up = TRUE, !.permits = w - Cardinality(lucky),
           !.pending = Cardinality(found), !.recovered = Cardinality(found), !.held = held]
  BY DEF Start
<1> HIDE DEF found, held
<1>2. runner'.workers = w
  BY <1>1 DEF Stopped
<1>3. \A k \in Jobs : q(k).scope = job[k].scope
  BY DEF NewJob
<1> HIDE DEF q
<1>4. \A k \in Jobs : job'[k].scope = job[k].scope
  BY <1>1, <1>3
<1>5. Working' = Working
  BY <1>1, <1>4 DEF Working, Alive
<1>6. Promise!Reconfigure(w)
  BY <1>2, <1>5 DEF Promise!Reconfigure, Working
<1> QED
  BY <1>6 DEF Promise!Next

\* Every step is one of the promise.
LEMMA StepKeepsBudget == Inv /\ [Next]_vars => Promise!Next
<1> SUFFICES ASSUME Inv, [Next]_vars PROVE Promise!Next
  OBVIOUS
<1>1. IInv
  BY DEF Inv
<1>2. CASE \E j \in Jobs : Spawn(j)
  BY <1>2, SpawnBegins
<1>3. CASE \E w \in Limits, kept \in SUBSET Removable, lucky \in SUBSET Jobs :
             Start(w, kept, lucky)
  BY <1>1, <1>3, StartReconfigures
<1>4. CASE \E j \in Jobs : (Supervise(j) \/ Disk(j)) /\ ~Spawn(j)
  <2>1. PICK j \in Jobs : (Supervise(j) \/ Disk(j)) /\ ~Spawn(j)
    BY <1>4
  <2>2. Ends
    BY <1>1, <2>1, SuperviseEnds
  <2>3. runner'.workers = runner.workers
    BY <1>1, <2>1, WorkersKept
  <2> QED
    BY <1>1, <2>2, <2>3, EndingStep
<1>5. CASE Launch \/ (\E j \in Jobs : ChildExits(j)) \/ Shutdown \/ Crash \/ Reboot
           \/ (\E cleared \in SUBSET Jobs : StartFails(cleared)) \/ UNCHANGED vars
  <2>1. Ends
    BY <1>1, <1>5, OtherEnds
  <2>2. runner'.workers = runner.workers
    BY <1>1, <1>5, WorkersKeptByOthers
  <2> QED
    BY <1>1, <2>1, <2>2, EndingStep
<1> QED
  BY <1>2, <1>3, <1>4, <1>5 DEF Next, Restart

\* What admission promises to the host holds across crashes, restarts with
\* another limit, recovered records beyond it and reused pids: a process begins
\* only on a scope nobody works on, and within the limit of the configuration.
THEOREM KeepsTheBudget == Spec => BudgetPromise
<1>1. Init => Promise!Init
  <2> SUFFICES ASSUME Init PROVE Promise!Init
    OBVIOUS
  <2>1. PICK w \in Limits : runner = Stopped(w)
    BY DEF Init
  <2>2. runner.workers \in Limits
    BY <2>1 DEF Stopped
  <2> QED
    BY <2>2 DEF Init, Alive, Promise!Init
<1> QED
  BY <1>1, StepKeepsBudget, CountersAgree, PTL DEF Spec, BudgetPromise, Promise!Spec
==============================================================================
