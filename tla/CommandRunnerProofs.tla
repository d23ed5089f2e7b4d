------------------------ MODULE CommandRunnerProofs ------------------------
(***************************************************************************)
(* Proofs about CommandRunner for any number of jobs, scopes, restarts and *)
(* any limits: a living process always has its record, its record always   *)
(* has a reservation in a running daemon, and no two processes work on one *)
(* scope, whichever daemons started them.                                  *)
(*                                                                         *)
(* A step of one supervisor is local: it changes the place of one job, its *)
(* file and its child.  LocalStep shows what such a step must preserve;    *)
(* each action is then shown to be one.                                    *)
(***************************************************************************)
EXTENDS CommandRunner, FiniteSetTheorems, TLAPS

-----------------------------------------------------------------------------
(* The records of the supervisors and of the runner.                       *)

\* A supervisor with another place, write, result or flag is a supervisor.
LEMMA JobFields ==
  ASSUME NEW r \in Job
  PROVE  /\ \A p \in Places : [r EXCEPT !.pc = p] \in Job
         /\ \A w \in {"none", "busy", "ok", "failed"} : [r EXCEPT !.write = w] \in Job
         /\ \A o \in {"none"} \cup Outcomes : [r EXCEPT !.result = o] \in Job
         /\ \A b \in BOOLEAN : /\ [r EXCEPT !.exited = b] \in Job
                               /\ [r EXCEPT !.piped = b] \in Job
                               /\ [r EXCEPT !.quarantined = b] \in Job
                               /\ [r EXCEPT !.recovered = b] \in Job
                               /\ [r EXCEPT !.permit = b] \in Job
         /\ \A s \in Scopes \cup {NoScope} : [r EXCEPT !.scope = s] \in Job
  BY DEF Job

\* The same for a place and a write together.
LEMMA JobMoves ==
  ASSUME NEW r \in Job, NEW p \in Places, NEW w \in {"none", "busy", "ok", "failed"}
  PROVE  [r EXCEPT !.pc = p, !.write = w] \in Job
<1> DEFINE q == [r EXCEPT !.pc = p]
<1>1. q \in Job
  BY JobFields
<1>2. [q EXCEPT !.write = w] \in Job
  BY <1>1, JobFields
<1> QED
  BY <1>2

\* An answer keeps everything but the result.
LEMMA PublishedJob ==
  ASSUME NEW r \in Job, NEW o \in Outcomes
  PROVE  /\ Published(r, o) \in Job
         /\ Published(r, o).pc = r.pc /\ Published(r, o).scope = r.scope
         /\ Published(r, o).write = r.write /\ Published(r, o).exited = r.exited
         /\ Published(r, o).quarantined = r.quarantined
  BY JobFields DEF Published, Job

\* A refusal goes on to the removal.
LEMMA RefusedJob ==
  ASSUME NEW r \in Job, NEW o \in Outcomes
  PROVE  /\ Refused(r, o) \in Job
         /\ Refused(r, o).pc = "remove" /\ Refused(r, o).scope = r.scope
         /\ Refused(r, o).write = "none" /\ Refused(r, o).exited = r.exited
<1>1. "remove" \in Places
  BY DEF Places, Waiting
<1>2. Refused(r, o) \in Job
  BY <1>1, PublishedJob, JobMoves DEF Refused
<1>3. Published(r, o) \in Job /\ Published(r, o).scope = r.scope
      /\ Published(r, o).exited = r.exited
  BY PublishedJob
<1> QED
  BY <1>2, <1>3 DEF Refused, Job

\* A finished answer closes the pipes.
LEMMA TerminatedJob ==
  ASSUME NEW r \in Job, NEW o \in Outcomes, NEW b \in BOOLEAN
  PROVE  /\ Terminated(r, o, b) \in Job
         /\ Terminated(r, o, b).pc = r.pc /\ Terminated(r, o, b).scope = r.scope
         /\ Terminated(r, o, b).write = r.write
         /\ Terminated(r, o, b).exited = r.exited
<1>1. /\ Published(r, o) \in Job
      /\ Published(r, o).pc = r.pc /\ Published(r, o).scope = r.scope
      /\ Published(r, o).write = r.write /\ Published(r, o).exited = r.exited
  BY PublishedJob
<1> DEFINE a == Published(r, o)
<1>2. /\ a \in Job /\ a.pc = r.pc /\ a.scope = r.scope
      /\ a.write = r.write /\ a.exited = r.exited
  BY <1>1
<1>3. Terminated(r, o, b) = [a EXCEPT !.piped = FALSE, !.quarantined = a.quarantined \/ b]
  BY <1>1 DEF Terminated, Job
<1> HIDE DEF a
<1> DEFINE q == [a EXCEPT !.piped = FALSE]
<1>4. /\ q \in Job /\ q.pc = r.pc /\ q.scope = r.scope
      /\ q.write = r.write /\ q.exited = r.exited
  <2>1. q \in Job
    BY <1>2, JobFields
  <2>2. /\ q.pc = a.pc /\ q.scope = a.scope /\ q.write = a.write /\ q.exited = a.exited
    BY <1>2 DEF Job
  <2> QED
    BY <1>2, <2>1, <2>2
<1>5. (a.quarantined \/ b) \in BOOLEAN
  OBVIOUS
<1>6. Terminated(r, o, b) = [q EXCEPT !.quarantined = a.quarantined \/ b]
  BY <1>3
<1> HIDE DEF q
<1>7. Terminated(r, o, b) \in Job
  BY <1>4, <1>5, <1>6, JobFields
<1> QED
  BY <1>4, <1>6, <1>7 DEF Job

\* A runner with other launches under way is a runner.
LEMMA AdmittingField ==
  ASSUME NEW r \in Counters, NEW S \in SUBSET Scopes
  PROVE  LET q == [r EXCEPT !.admitting = S]
         IN q \in Counters /\ q.up = r.up /\ q.held = r.held
  BY DEF Counters

\* The same for each of its counts.
LEMMA CounterFields ==
  ASSUME NEW r \in Counters, NEW n \in Int
  PROVE  /\ LET q == [r EXCEPT !.pending = n]
            IN q \in Counters /\ q.up = r.up /\ q.held = r.held
         /\ LET q == [r EXCEPT !.permits = n]
            IN q \in Counters /\ q.up = r.up /\ q.held = r.held
         /\ LET q == [r EXCEPT !.recovered = n]
            IN q \in Counters /\ q.up = r.up /\ q.held = r.held
  BY DEF Counters

\* One count of a scope.
LEMMA HeldFields ==
  ASSUME NEW r \in Counters, NEW s \in Scopes, NEW n \in Int
  PROVE  LET q == [r EXCEPT !.held[s] = n]
         IN q \in Counters /\ q.up = r.up /\ q.held = [r.held EXCEPT ![s] = n]
  BY DEF Counters

\* All the counts of the scopes at once.
LEMMA AllHeldFields ==
  ASSUME NEW r \in Counters, NEW h \in [Scopes -> Int]
  PROVE  LET q == [r EXCEPT !.held = h]
         IN q \in Counters /\ q.up = r.up /\ q.held = h
  BY DEF Counters

\* The flag of a runner that starts.
LEMMA UpField ==
  ASSUME NEW r \in Counters
  PROVE  [r EXCEPT !.up = TRUE] \in Counters /\ [r EXCEPT !.up = TRUE].up
  BY DEF Counters

\* A step of j's supervisor or disk in a running daemon that keeps its reservation.
Local(j) ==
  /\ runner.up /\ runner'.up /\ runner'.held = runner.held
  /\ job[j].pc \in Counted /\ job'[j].pc \in Counted
  /\ job'[j].scope = job[j].scope
  /\ \A k \in Jobs \ {j} : /\ job'[k] = job[k] /\ file'[k] = file[k]
                           /\ child'[k] = child[k]

\* The parts of the invariant about one job depend on that job alone.
LEMMA OtherJobs ==
  ASSUME IInv, NEW j \in Jobs, NEW k \in Jobs \ {j}, Local(j)
  PROVE  Traced(k)' /\ Placed(k)'
  BY DEF Local, IInv, Traced, Placed, Recorded, Alive

\* A local step preserves the ownership of scopes; its own job's place is left to show.
LEMMA LocalStep ==
  ASSUME IInv, Shape', NEW j \in Jobs, Local(j), Placed(j)',
         Alive(j)' => Recorded(j)'
  PROVE  IInv'
<1>1. /\ \A k \in Jobs : Traced(k) /\ Placed(k)
      /\ Disjoint /\ HeldExact
  BY DEF IInv, Local
<1>2. job[j].scope \in Scopes
  BY <1>1 DEF Traced, Local
<1>3. Traced(j)'
  BY <1>2 DEF Traced, Local, Counted, Reserved, Waiting
<1>4. \A k \in Jobs : Traced(k)' /\ Placed(k)'
  BY <1>3, OtherJobs DEF Local
<1>5. \A k \in Jobs : /\ Engaged(k)' => job[k].pc \in Counted
                      /\ job'[k].scope = job[k].scope
                      /\ job'[k].pc \in Counted <=> job[k].pc \in Counted
  <2> TAKE k \in Jobs
  <2>1. CASE k = j
    BY <2>1 DEF Local
  <2>2. CASE k # j
    <3>1. job'[k] = job[k] /\ file'[k] = file[k]
      BY <2>2 DEF Local
    <3>2. Recorded(k) => job[k].pc \in Counted
      BY <1>1 DEF Placed, Recording
    <3> QED
      BY <3>1, <3>2 DEF Engaged, Recorded
  <2> QED
    BY <2>1, <2>2
<1>6. Disjoint'
  BY <1>1, <1>5 DEF Disjoint, Engaged
<1>7. HeldExact'
  BY <1>1, <1>5 DEF HeldExact, Local
<1> QED
  BY <1>4, <1>6, <1>7 DEF IInv, Local

-----------------------------------------------------------------------------
(* The local steps: a supervisor before the spawn.                         *)

\* The intent is on disk when the supervisor goes on to the spawn.
LEMMA IntentWrittenPreserves ==
  ASSUME IInv, NEW j \in Jobs, IntentWritten(j)
  PROVE  IInv'
<1>1. Shape /\ Traced(j) /\ Placed(j)
  BY DEF IInv, IntentWritten
<1>2. [job[j] EXCEPT !.pc = "ready", !.write = "none"] \in Job
  BY <1>1, JobMoves DEF Shape, Places, Waiting
<1>6. Shape'
  BY <1>1, <1>2 DEF Shape, IntentWritten
<1>3. Local(j)
  BY <1>1 DEF Shape, Counters, Job, Local, Counted, Reserved, Waiting, IntentWritten
<1>4. Placed(j)' /\ (Alive(j)' => Recorded(j)')
  BY <1>1 DEF Shape, Job, Traced, Placed, Recording, Counted, Reserved, Waiting, Recorded,
              Alive, IntentWritten
<1> QED
  BY <1>3, <1>4, <1>6, LocalStep

\* An intent whose write failed spawns nothing.
LEMMA IntentFailedPreserves ==
  ASSUME IInv, NEW j \in Jobs, IntentFailed(j)
  PROVE  IInv'
<1>1. Shape /\ Traced(j) /\ Placed(j)
  BY DEF IInv, IntentFailed, Refused, Published
<1>2. Refused(job[j], "spawn_failed") \in Job
  BY <1>1, RefusedJob DEF Shape, Outcomes
<1>5. runner' \in Counters
  BY <1>1 DEF Shape, Counters, IntentFailed
<1>6. Shape'
  BY <1>1, <1>2, <1>5 DEF Shape, IntentFailed
<1>3. Local(j)
  BY <1>1 DEF Shape, Counters, Job, Local, Counted, Reserved, Waiting, IntentFailed, Refused, Published
<1>4. Placed(j)' /\ (Alive(j)' => Recorded(j)')
  BY <1>1 DEF Shape, Job, Traced, Placed, Recording, Counted, Reserved, Waiting, Recorded,
              Alive, IntentFailed, Refused, Published
<1> QED
  BY <1>3, <1>4, <1>6, LocalStep

\* An early answer leaves the write of the intent under way.
LEMMA GiveUpPreserves ==
  ASSUME IInv, NEW j \in Jobs, GiveUp(j)
  PROVE  IInv'
<1>1. Shape /\ Traced(j) /\ Placed(j)
  BY DEF IInv, GiveUp, Published
<1>2. [Published(job[j], "stopped") EXCEPT !.pc = "late"] \in Job
  BY <1>1 DEF Shape, Job, Places, Waiting, Outcomes, Published
<1>6. Shape'
  BY <1>1, <1>2 DEF Shape, GiveUp
<1>3. Local(j)
  BY <1>1 DEF Shape, Counters, Job, Local, Counted, Reserved, Waiting, GiveUp, Published
<1>4. Placed(j)' /\ (Alive(j)' => Recorded(j)')
  BY <1>1 DEF Shape, Job, Traced, Placed, Recording, Counted, Reserved, Waiting, Recorded,
              Alive, GiveUp, Published
<1> QED
  BY <1>3, <1>4, <1>6, LocalStep

\* The last check before the spawn refuses it.
LEMMA IntentTooLatePreserves ==
  ASSUME IInv, NEW j \in Jobs, IntentTooLate(j)
  PROVE  IInv'
<1>1. Shape /\ Traced(j) /\ Placed(j)
  BY DEF IInv, IntentTooLate, Refused, Published
<1>2. Refused(job[j], "stopped") \in Job
  BY <1>1, RefusedJob DEF Shape, Outcomes
<1>6. Shape'
  BY <1>1, <1>2 DEF Shape, IntentTooLate
<1>3. Local(j)
  BY <1>1 DEF Shape, Counters, Job, Local, Counted, Reserved, Waiting, IntentTooLate, Refused, Published
<1>4. Placed(j)' /\ (Alive(j)' => Recorded(j)')
  BY <1>1 DEF Shape, Job, Traced, Placed, Recording, Counted, Reserved, Waiting, Recorded,
              Alive, IntentTooLate, Refused, Published
<1> QED
  BY <1>3, <1>4, <1>6, LocalStep

\* The write of an intent that was given up ends.
LEMMA LateWrittenPreserves ==
  ASSUME IInv, NEW j \in Jobs, LateWritten(j)
  PROVE  IInv'
<1>1. Shape /\ Traced(j) /\ Placed(j)
  BY DEF IInv, LateWritten
<1>2. [job[j] EXCEPT !.pc = "remove", !.write = "none"] \in Job
  BY <1>1, JobMoves DEF Shape, Places, Waiting
<1>5. runner' \in Counters
  BY <1>1 DEF Shape, Counters, LateWritten
<1>6. Shape'
  BY <1>1, <1>2, <1>5 DEF Shape, LateWritten
<1>3. Local(j)
  BY <1>1 DEF Shape, Counters, Job, Local, Counted, Reserved, Waiting, LateWritten
<1>4. Placed(j)' /\ (Alive(j)' => Recorded(j)')
  BY <1>1 DEF Shape, Job, Traced, Placed, Recording, Counted, Reserved, Waiting, Recorded,
              Alive, LateWritten
<1> QED
  BY <1>3, <1>4, <1>6, LocalStep

\* A spawn that fails makes no child.
LEMMA SpawnFailsPreserves ==
  ASSUME IInv, NEW j \in Jobs, SpawnFails(j)
  PROVE  IInv'
<1>1. Shape /\ Traced(j) /\ Placed(j)
  BY DEF IInv, SpawnFails, Refused, Published
<1>2. Refused(job[j], "spawn_failed") \in Job
  BY <1>1, RefusedJob DEF Shape, Outcomes
<1>6. Shape'
  BY <1>1, <1>2 DEF Shape, SpawnFails
<1>3. Local(j)
  BY <1>1 DEF Shape, Counters, Job, Local, Counted, Reserved, Waiting, SpawnFails, Refused, Published
<1>4. Placed(j)' /\ (Alive(j)' => Recorded(j)')
  BY <1>1 DEF Shape, Job, Traced, Placed, Recording, Counted, Reserved, Waiting, Recorded,
              Alive, SpawnFails, Refused, Published
<1> QED
  BY <1>3, <1>4, <1>6, LocalStep

\* A child is spawned when its intent is on disk.
LEMMA SpawnPreserves ==
  ASSUME IInv, NEW j \in Jobs, Spawn(j)
  PROVE  IInv'
<1>1. Shape /\ Traced(j) /\ Placed(j)
  BY DEF IInv, Spawn
<1>2. [job[j] EXCEPT !.pc = "running", !.write = "busy", !.piped = TRUE] \in Job
  <2> DEFINE q == [job[j] EXCEPT !.pc = "running", !.write = "busy"]
  <2>1. q \in Job
    BY <1>1, JobMoves DEF Shape, Places, Waiting
  <2> HIDE DEF q
  <2>2. [q EXCEPT !.piped = TRUE] \in Job
    BY <2>1, JobFields
  <2> QED
    BY <2>2 DEF q
<1>6. Shape'
  BY <1>1, <1>2 DEF Shape, Spawn
<1>3. Local(j)
  BY <1>1 DEF Shape, Counters, Job, Local, Counted, Reserved, Waiting, Spawn
<1>4. Placed(j)' /\ (Alive(j)' => Recorded(j)')
  BY <1>1 DEF Shape, Job, Traced, Placed, Recording, Counted, Reserved, Waiting, Recorded,
              Alive, Spawn
<1> QED
  BY <1>3, <1>4, <1>6, LocalStep

-----------------------------------------------------------------------------
(* The local steps: the loop around the child, and the disk.               *)

\* A turn of the loop keeps the job in the loop, its file and its write, and takes a child
\* for exited only when it is gone.
LEMMA TurnPreserves ==
  ASSUME IInv, NEW j \in Jobs, NEW r \in Job, NEW o \in {"none"} \cup Outcomes,
         NEW counted \in Counters, Turn(j, r, o, counted),
         r.pc = job[j].pc, r.scope = job[j].scope, r.write # "busy" \/ r.write = job[j].write,
         r.exited => job[j].exited \/ child[j] = "gone",
         counted.up = runner.up, counted.held = runner.held
  PROVE  IInv'
<1>1. Shape /\ Traced(j) /\ Placed(j)
  BY DEF IInv, Turn
<1> DEFINE cause == IF runner.shutdown /\ r.result = "none" THEN "stopped" ELSE o
           opens == cause = "stopped" /\ r.result = "none" /\ ~r.exited /\ ~r.quarantined
           q == IF cause = "none" THEN r ELSE Terminated(r, cause, opens)
<1>2. /\ runner.up /\ job[j].pc = "running"
      /\ job' = [job EXCEPT ![j] = q]
      /\ child' = IF cause # "none" /\ ~r.exited /\ child[j] = "alive"
                  THEN [child EXCEPT ![j] = "killed"] ELSE child
      /\ runner' = [counted EXCEPT !.quarantined =
                      IF opens THEN counted.quarantined + 1 ELSE counted.quarantined]
      /\ file' = file /\ starts' = starts
  BY DEF Turn
<1>3. /\ q \in Job /\ q.pc = "running" /\ q.scope = job[j].scope
      /\ q.write = r.write /\ q.exited = r.exited
  <2>1. cause \in {"none"} \cup Outcomes /\ opens \in BOOLEAN
    BY DEF Outcomes, Job
  <2>2. CASE cause = "none"
    BY <1>2, <2>2
  <2>3. CASE cause # "none"
    BY <1>2, <2>1, <2>3, TerminatedJob
  <2> QED
    BY <2>2, <2>3
<1>4. runner' \in Counters /\ runner'.up = runner.up /\ runner'.held = runner.held
  <2> DEFINE n == IF opens THEN counted.quarantined + 1 ELSE counted.quarantined
  <2>1. n \in Int
    BY DEF Counters
  <2>2. runner' = [counted EXCEPT !.quarantined = n]
    BY <1>2
  <2> HIDE DEF n
  <2> QED
    BY <2>1, <2>2 DEF Counters
<1>5. Shape'
  BY <1>1, <1>2, <1>3, <1>4 DEF Shape
<1>6. job'[j] = q /\ \A k \in Jobs \ {j} : job'[k] = job[k] /\ child'[k] = child[k]
  BY <1>1, <1>2 DEF Shape
<1> HIDE DEF q
<1>7. Local(j)
  BY <1>2, <1>3, <1>4, <1>6 DEF Local, Counted, Reserved, Waiting
<1>8. Alive(j)' <=> Alive(j)
  BY <1>1, <1>2 DEF Shape, Alive
<1>9. Placed(j)' /\ (Alive(j)' => Recorded(j)')
  BY <1>1, <1>2, <1>3, <1>6, <1>8
  DEF Placed, Traced, Alive, Recorded, Recording, Counted, Reserved, Waiting
<1> QED
  BY <1>5, <1>7, <1>9, LocalStep

\* The four events of the loop are turns.
LEMMA LoopPreserves ==
  ASSUME IInv, NEW j \in Jobs, Reap(j) \/ Eof(j) \/ Interrupt(j) \/ PidWritten(j)
  PROVE  IInv'
<1>1. Shape
  BY DEF IInv
<1>2. runner \in Counters /\ job[j] \in Job
  BY <1>1 DEF Shape
<1>3. CASE Reap(j)
  <2> DEFINE r == [job[j] EXCEPT !.exited = TRUE, !.quarantined = FALSE]
  <2>0. Unquarantined(j) \in Counters
    BY <1>2 DEF Counters, Unquarantined
  <2>1. r \in Job
    <3> DEFINE q == [job[j] EXCEPT !.exited = TRUE]
    <3>1. q \in Job
      BY <1>2, JobFields
    <3> HIDE DEF q
    <3>2. [q EXCEPT !.quarantined = FALSE] \in Job
      BY <3>1, JobFields
    <3> QED
      BY <3>2 DEF q
  <2>2. /\ Turn(j, r, "none", Unquarantined(j)) /\ child[j] = "gone"
        /\ Unquarantined(j).up = runner.up /\ Unquarantined(j).held = runner.held
        /\ r.pc = job[j].pc /\ r.scope = job[j].scope /\ r.write = job[j].write
    BY <1>2, <1>3 DEF Reap, Unquarantined, Counters, Job
  <2> HIDE DEF r
  <2> QED
    BY <2>0, <2>1, <2>2, TurnPreserves
<1>4. CASE Eof(j)
  <2> DEFINE r == [job[j] EXCEPT !.piped = FALSE]
  <2>1. /\ r \in Job /\ Turn(j, r, "none", runner)
        /\ r.pc = job[j].pc /\ r.scope = job[j].scope /\ r.write = job[j].write
        /\ r.exited = job[j].exited
    BY <1>2, <1>4 DEF Eof, Job
  <2> HIDE DEF r
  <2> QED
    BY <1>2, <2>1, TurnPreserves
<1>5. CASE Interrupt(j)
  BY <1>2, <1>5, TurnPreserves DEF Interrupt, Outcomes
<1>6. CASE PidWritten(j)
  <2> DEFINE r == [job[j] EXCEPT !.write = "none"]
             o == IF job[j].write = "failed" THEN "spawn_failed" ELSE "none"
             counted == [runner EXCEPT !.failed = runner.failed \/ job[j].write = "failed"]
  <2>1. /\ r \in Job /\ o \in {"none"} \cup Outcomes
        /\ r.pc = job[j].pc /\ r.scope = job[j].scope /\ r.write # "busy"
        /\ r.exited = job[j].exited
    BY <1>2 DEF Job, Outcomes
  <2>2. /\ counted \in Counters
        /\ counted.up = runner.up /\ counted.held = runner.held
    BY <1>2 DEF Counters
  <2>3. Turn(j, r, o, counted)
    BY <1>6 DEF PidWritten
  <2> HIDE DEF r, o, counted
  <2> QED
    BY <2>1, <2>2, <2>3, TurnPreserves
<1> QED
  BY <1>3, <1>4, <1>5, <1>6

\* A supervisor leaves the loop when its child is gone.
LEMMA LeavePreserves ==
  ASSUME IInv, NEW j \in Jobs, Leave(j)
  PROVE  IInv'
<1>1. Shape /\ Traced(j) /\ Placed(j)
  BY DEF IInv, Leave, Finished, Published
<1>2. [Published(job[j], "completed") EXCEPT !.pc = "pidwait"] \in Job
  BY <1>1 DEF Shape, Job, Places, Waiting, Outcomes, Published
<1>6. Shape'
  BY <1>1, <1>2 DEF Shape, Leave
<1>3. Local(j)
  BY <1>1 DEF Shape, Counters, Job, Local, Counted, Reserved, Waiting, Leave, Finished, Published
<1>4. Placed(j)' /\ (Alive(j)' => Recorded(j)')
  BY <1>1 DEF Shape, Job, Traced, Placed, Recording, Counted, Reserved, Waiting, Recorded,
              Alive, Leave, Finished, Published
<1> QED
  BY <1>3, <1>4, <1>6, LocalStep

\* The record is removed when no write of it is under way.
LEMMA PidSettledPreserves ==
  ASSUME IInv, NEW j \in Jobs, PidSettled(j)
  PROVE  IInv'
<1>1. Shape /\ Traced(j) /\ Placed(j)
  BY DEF IInv, PidSettled
<1>2. [job[j] EXCEPT !.pc = "remove", !.write = "none"] \in Job
  BY <1>1, JobMoves DEF Shape, Places, Waiting
<1>5. runner' \in Counters
  BY <1>1 DEF Shape, Counters, PidSettled
<1>6. Shape'
  BY <1>1, <1>2, <1>5 DEF Shape, PidSettled
<1>3. Local(j)
  BY <1>1 DEF Shape, Counters, Job, Local, Counted, Reserved, Waiting, PidSettled
<1>4. Placed(j)' /\ (Alive(j)' => Recorded(j)')
  BY <1>1 DEF Shape, Job, Traced, Placed, Recording, Counted, Reserved, Waiting, Recorded,
              Alive, PidSettled
<1> QED
  BY <1>3, <1>4, <1>6, LocalStep

\* A recovered process that is gone gives up its record.
LEMMA RecoveredGonePreserves ==
  ASSUME IInv, NEW j \in Jobs, RecoveredGone(j)
  PROVE  IInv'
<1>1. Shape /\ Traced(j) /\ Placed(j)
  BY DEF IInv, RecoveredGone
<1>2. [job[j] EXCEPT !.pc = "remove"] \in Job
  BY <1>1 DEF Shape, Job, Places, Waiting, Outcomes
<1>6. Shape'
  BY <1>1, <1>2 DEF Shape, RecoveredGone
<1>3. Local(j)
  BY <1>1 DEF Shape, Counters, Job, Local, Counted, Reserved, Waiting, RecoveredGone
<1>4. Placed(j)' /\ (Alive(j)' => Recorded(j)')
  BY <1>1 DEF Shape, Job, Traced, Placed, Recording, Counted, Reserved, Waiting, Recorded,
              Alive, RecoveredGone
<1> QED
  BY <1>3, <1>4, <1>6, LocalStep

\* A write ends where a record may be.
LEMMA WriteEndsPreserves ==
  ASSUME IInv, NEW j \in Jobs, NEW ok \in BOOLEAN, WriteEnds(j, ok)
  PROVE  IInv'
<1>1. Shape /\ Traced(j) /\ Placed(j)
  BY DEF IInv, WriteEnds
<1>2. [job[j] EXCEPT !.write = IF ok THEN "ok" ELSE "failed"] \in Job
  BY <1>1 DEF Shape, Job, Places, Waiting, Outcomes
<1>6. Shape'
  BY <1>1, <1>2 DEF Shape, WriteEnds
<1>3. Local(j)
  <2>1. /\ runner' = runner /\ child' = child /\ runner.up
        /\ job[j].pc \in {"intent", "late", "running", "pidwait"}
    BY <1>1 DEF WriteEnds, Placed
  <2>2. /\ job'[j].pc = job[j].pc /\ job'[j].scope = job[j].scope
        /\ \A k \in Jobs \ {j} : job'[k] = job[k] /\ file'[k] = file[k]
    BY <1>1 DEF Shape, WriteEnds, Job
  <2> QED
    BY <2>1, <2>2 DEF Local, Counted, Reserved, Waiting
<1>4. Placed(j)' /\ (Alive(j)' => Recorded(j)')
  BY <1>1 DEF Shape, Job, Traced, Placed, Recording, Counted, Reserved, Waiting, Recorded,
              Alive, WriteEnds
<1> QED
  BY <1>3, <1>4, <1>6, LocalStep

\* A record is removed when its child is gone.
LEMMA RemoveEndsPreserves ==
  ASSUME IInv, NEW j \in Jobs, NEW ok \in BOOLEAN, RemoveEnds(j, ok)
  PROVE  IInv'
<1>1. Shape /\ Traced(j) /\ Placed(j)
  BY DEF IInv, RemoveEnds
<1>2. [job[j] EXCEPT !.pc = "drop"] \in Job
  BY <1>1 DEF Shape, Job, Places, Waiting, Outcomes
<1>5. runner' \in Counters
  BY <1>1 DEF Shape, Counters, RemoveEnds
<1>6. Shape'
  BY <1>1, <1>2, <1>5 DEF Shape, RemoveEnds
<1>3. Local(j)
  BY <1>1 DEF Shape, Counters, Job, Local, Counted, Reserved, Waiting, RemoveEnds
<1>4. Placed(j)' /\ (Alive(j)' => Recorded(j)')
  BY <1>1 DEF Shape, Job, Traced, Placed, Recording, Counted, Reserved, Waiting, Recorded,
              Alive, RemoveEnds
<1> QED
  BY <1>3, <1>4, <1>6, LocalStep

-----------------------------------------------------------------------------
(* Steps that touch no job: admission without a result, and the shutdown.  *)

\* A step that changes only what admission reads preserves the invariant.
LEMMA RunnerStep ==
  ASSUME IInv, UNCHANGED <<job, file, child, starts>>, runner' \in Counters,
         runner'.up = runner.up, runner'.held = runner.held
  PROVE  IInv'
<1>1. Shape' /\ Disjoint' /\ HeldExact'
  BY DEF IInv, Shape, Disjoint, Engaged, Recorded, HeldExact
<1>2. \A j \in Jobs : Traced(j)' /\ (runner.up => Placed(j)')
  BY DEF IInv, Traced, Placed, Recorded, Alive
<1> QED
  BY <1>1, <1>2 DEF IInv

\* Checking the journal flag, skipping a launch and asking for the shutdown.
LEMMA QuietPreserves ==
  ASSUME IInv, (\E s \in Scopes : Attempt(s) \/ Skip(s)) \/ Shutdown \/ UNCHANGED vars
  PROVE  IInv'
<1>1. Shape
  BY DEF IInv
<1>2. CASE \E s \in Scopes : Attempt(s)
  <2>1. PICK s \in Scopes : Attempt(s)
    BY <1>2
  <2>2. runner \in Counters /\ runner.admitting \cup {s} \in SUBSET Scopes
    BY <1>1 DEF Shape, Counters
  <2>3. /\ UNCHANGED <<job, file, child, starts>>
        /\ runner' = [runner EXCEPT !.admitting = runner.admitting \cup {s}]
    BY <2>1 DEF Attempt
  <2> QED
    BY <2>2, <2>3, AdmittingField, RunnerStep
<1>3. CASE \E s \in Scopes : Skip(s)
  <2>1. PICK s \in Scopes : Skip(s)
    BY <1>3
  <2>2. runner \in Counters /\ runner.admitting \ {s} \in SUBSET Scopes
    BY <1>1 DEF Shape, Counters
  <2>3. /\ UNCHANGED <<job, file, child, starts>>
        /\ runner' = [runner EXCEPT !.admitting = runner.admitting \ {s}]
    BY <2>1 DEF Skip
  <2> QED
    BY <2>2, <2>3, AdmittingField, RunnerStep
<1>4. CASE Shutdown
  BY <1>1, <1>4, RunnerStep DEF Shape, Counters, Shutdown
<1>5. CASE UNCHANGED vars
  BY <1>1, <1>5, RunnerStep DEF Shape, vars
<1> QED
  BY <1>2, <1>3, <1>4, <1>5

-----------------------------------------------------------------------------
(* The ends of a reservation: admission, the counters, the permit.         *)

\* A launch is admitted on a scope that nothing owns: no record and no reservation.
LEMMA AdmitPreserves ==
  ASSUME IInv, NEW s \in Scopes, NEW j \in Jobs, Admit(s, j)
  PROVE  IInv'
<1>1. /\ Shape /\ Disjoint /\ HeldExact /\ runner.up
      /\ \A k \in Jobs : Traced(k) /\ Placed(k)
  BY DEF IInv, Admit
<1>2. \A k \in Jobs : Engaged(k) => job[k].pc \in Counted
  BY <1>1 DEF Engaged, Placed, Recording
<1>3. \A k \in Jobs : Engaged(k) => job[k].scope # s
  BY <1>1, <1>2 DEF HeldExact, Admit, Admissible
<1> DEFINE new == [NewJob EXCEPT !.pc = "intent", !.scope = s, !.write = "busy",
                                 !.permit = TRUE]
<1>4. /\ new \in Job /\ new.pc = "intent" /\ new.scope = s /\ new.write = "busy"
      /\ ~new.exited
  BY DEF NewJob, Job, Places, Waiting
<1>5. /\ job' = [job EXCEPT ![j] = new] /\ job[j].pc = "unused"
      /\ UNCHANGED <<file, child, starts>>
  BY DEF Admit
<1> HIDE DEF new
<1>6. /\ runner' \in Counters /\ runner'.up
      /\ runner'.held = [runner.held EXCEPT ![s] = 1]
  <2> DEFINE r1 == [runner EXCEPT !.admitting = runner.admitting \ {s}]
  <2>1. r1 \in Counters /\ r1.up = runner.up /\ r1.held = runner.held
    <3>1. runner \in Counters /\ runner.admitting \ {s} \in SUBSET Scopes
      BY <1>1 DEF Shape, Counters
    <3> QED
      BY <3>1, AdmittingField
  <2> DEFINE r2 == [r1 EXCEPT !.held[s] = 1]
  <2> HIDE DEF r1
  <2>2. r2 \in Counters /\ r2.up = runner.up /\ r2.held = [runner.held EXCEPT ![s] = 1]
    BY <2>1, HeldFields
  <2> DEFINE r3 == [r2 EXCEPT !.pending = r2.pending + 1]
  <2> HIDE DEF r2
  <2>3. r3 \in Counters /\ r3.up = runner.up /\ r3.held = [runner.held EXCEPT ![s] = 1]
    <3>1. r2.pending + 1 \in Int
      BY <2>2 DEF Counters
    <3> QED
      BY <2>2, <3>1, CounterFields
  <2> DEFINE r4 == [r3 EXCEPT !.permits = r3.permits - 1]
  <2> HIDE DEF r3
  <2>4. r4 \in Counters /\ r4.up = runner.up /\ r4.held = [runner.held EXCEPT ![s] = 1]
    <3>1. r3.permits - 1 \in Int
      BY <2>3 DEF Counters
    <3> QED
      BY <2>3, <3>1, CounterFields
  <2>5. runner' = r4
    BY DEF Admit, r1, r2, r3
  <2> HIDE DEF r4
  <2> QED
    BY <1>1, <2>4, <2>5
<1>7. job'[j] = new /\ \A k \in Jobs \ {j} : job'[k] = job[k]
  BY <1>1, <1>5 DEF Shape
<1>8. Shape'
  BY <1>1, <1>4, <1>5, <1>6 DEF Shape
<1>9. ~Recorded(j)' /\ ~Alive(j)'
  BY <1>1, <1>5 DEF Traced, Recorded, Alive
<1>10. \A k \in Jobs : Traced(k)' /\ Placed(k)'
  <2> TAKE k \in Jobs
  <2>1. CASE k = j
    BY <1>4, <1>6, <1>7, <1>9, <2>1 DEF Traced, Placed, Counted, Reserved, Waiting
  <2>2. CASE k # j
    BY <1>1, <1>5, <1>6, <1>7, <2>2 DEF Traced, Placed, Recorded, Alive
  <2> QED
    BY <2>1, <2>2
<1>11. Disjoint'
  <2> SUFFICES ASSUME NEW k \in Jobs, NEW l \in Jobs, Engaged(k)', Engaged(l)', k # l
               PROVE  job'[k].scope # job'[l].scope
    BY DEF Disjoint
  <2>1. \A i \in Jobs \ {j} : Engaged(i)' <=> Engaged(i)
    BY <1>5, <1>7 DEF Engaged, Recorded
  <2>2. CASE k = j
    BY <1>3, <1>4, <1>7, <2>1, <2>2
  <2>3. CASE l = j
    BY <1>3, <1>4, <1>7, <2>1, <2>3
  <2>4. CASE k # j /\ l # j
    BY <1>1, <1>7, <2>1, <2>4 DEF Disjoint
  <2> QED
    BY <2>2, <2>3, <2>4
<1>12. HeldExact'
  <2> SUFFICES ASSUME NEW t \in Scopes
               PROVE  runner'.held[t] =
                        IF \E k \in Jobs : job'[k].pc \in Counted /\ job'[k].scope = t
                        THEN 1 ELSE 0
    BY DEF HeldExact
  <2>1. runner.held \in [Scopes -> Int]
    BY <1>1 DEF Shape, Counters
  <2>2. job[j].pc \notin Counted /\ new.pc \in Counted
    BY <1>4, <1>5 DEF Counted, Reserved, Waiting
  <2>3. CASE t = s
    BY <1>4, <1>6, <1>7, <2>1, <2>2, <2>3
  <2>4. CASE t # s
    BY <1>1, <1>4, <1>6, <1>7, <2>1, <2>2, <2>4 DEF HeldExact
  <2> QED
    BY <2>3, <2>4
<1> QED
  BY <1>6, <1>8, <1>10, <1>11, <1>12 DEF IInv

\* A reservation is dropped when nothing of its job is left.
LEMMA DropPreserves ==
  ASSUME IInv, NEW j \in Jobs, Drop(j)
  PROVE  IInv'
<1>1. /\ Shape /\ Disjoint /\ HeldExact /\ runner.up
      /\ \A k \in Jobs : Traced(k) /\ Placed(k)
  BY DEF IInv, Drop
<1> DEFINE s == job[j].scope
<1>2. job[j].pc \in Counted /\ ~Recorded(j) /\ ~Alive(j) /\ job[j].write # "busy"
  BY <1>1 DEF Drop, Placed, Recording, Counted, Reserved, Waiting
<1>3. s \in Scopes
  BY <1>1, <1>2 DEF Traced
<1>4. /\ job' = [job EXCEPT ![j].pc = "permit"]
      /\ UNCHANGED <<file, child, starts>>
  BY DEF Drop
<1>5. /\ runner' \in Counters /\ runner'.up
      /\ runner'.held = [runner.held EXCEPT ![s] = runner.held[s] - 1]
  <2>1. runner \in Counters /\ runner.held[s] - 1 \in Int
    BY <1>1, <1>3 DEF Shape, Counters
  <2> DEFINE r1 == [runner EXCEPT !.held[s] = runner.held[s] - 1]
             h == [runner.held EXCEPT ![s] = runner.held[s] - 1]
  <2>2. r1 \in Counters /\ r1.up = runner.up /\ r1.held = h
    BY <1>3, <2>1, HeldFields
  <2> DEFINE r2 == [r1 EXCEPT !.pending = r1.pending - 1]
  <2> HIDE DEF r1, h
  <2>3. r2 \in Counters /\ r2.up = runner.up /\ r2.held = h
    <3>1. r1.pending - 1 \in Int
      BY <2>2 DEF Counters
    <3> QED
      BY <2>2, <3>1, CounterFields
  <2> DEFINE n == IF job[j].recovered THEN r2.recovered - 1 ELSE r2.recovered
  <2>4. runner' = [r2 EXCEPT !.recovered = n]
    BY DEF Drop, r1
  <2> HIDE DEF r2
  <2>5. n \in Int
    BY <2>3 DEF Counters
  <2> HIDE DEF n
  <2>6. runner' \in Counters /\ runner'.up = runner.up /\ runner'.held = h
    BY <2>3, <2>4, <2>5, CounterFields
  <2> QED
    BY <1>1, <2>6 DEF h
<1>6. /\ job'[j].pc = "permit" /\ job'[j].scope = s /\ job'[j].write = job[j].write
      /\ \A k \in Jobs \ {j} : job'[k] = job[k]
  BY <1>1, <1>4 DEF Shape, Job
<1>7. Shape'
  <2>1. [job[j] EXCEPT !.pc = "permit"] \in Job
    BY <1>1, JobFields DEF Shape, Places, Waiting
  <2> QED
    BY <1>1, <1>4, <1>5, <2>1 DEF Shape
<1>8. \A k \in Jobs : Traced(k)' /\ Placed(k)'
  <2> TAKE k \in Jobs
  <2>1. CASE k = j
    BY <1>2, <1>4, <1>5, <1>6, <2>1
    DEF Traced, Placed, Recorded, Alive, Counted, Reserved, Waiting
  <2>2. CASE k # j
    BY <1>1, <1>4, <1>5, <1>6, <2>2 DEF Traced, Placed, Recorded, Alive
  <2> QED
    BY <2>1, <2>2
<1>9. job'[j].pc \notin Counted /\ ~Recorded(j)'
  BY <1>2, <1>4, <1>6 DEF Counted, Recorded
<1>10. Disjoint'
  <2>1. \A k \in Jobs : Engaged(k)' => k # j /\ Engaged(k) /\ job'[k].scope = job[k].scope
    BY <1>4, <1>6, <1>9 DEF Engaged, Recorded
  <2> QED
    BY <1>1, <2>1 DEF Disjoint
<1>11. HeldExact'
  <2> SUFFICES ASSUME NEW t \in Scopes
               PROVE  runner'.held[t] =
                        IF \E k \in Jobs : job'[k].pc \in Counted /\ job'[k].scope = t
                        THEN 1 ELSE 0
    BY DEF HeldExact
  <2>1. runner.held \in [Scopes -> Int]
    BY <1>1 DEF Shape, Counters
  <2>2. CASE t = s
    <3>1. runner.held[s] = 1
      BY <1>1, <1>2, <1>3 DEF HeldExact
    <3>2. \A k \in Jobs \ {j} : job[k].pc \in Counted => job[k].scope # s
      BY <1>1, <1>2 DEF Disjoint, Engaged
    <3>3. ~\E k \in Jobs : job'[k].pc \in Counted /\ job'[k].scope = t
      BY <1>6, <1>9, <2>2, <3>2
    <3> QED
      BY <1>5, <2>1, <2>2, <3>1, <3>3
  <2>3. CASE t # s
    <3>1. runner'.held[t] = runner.held[t]
      BY <1>5, <2>1, <2>3
    <3>2. (\E k \in Jobs : job'[k].pc \in Counted /\ job'[k].scope = t)
            <=> \E k \in Jobs : job[k].pc \in Counted /\ job[k].scope = t
      BY <1>6, <1>9, <2>3
    <3> QED
      BY <1>1, <3>1, <3>2 DEF HeldExact
  <2> QED
    BY <2>2, <2>3
<1> QED
  BY <1>5, <1>7, <1>8, <1>10, <1>11 DEF IInv

\* The permit is given back after the counters.
LEMMA FreePermitPreserves ==
  ASSUME IInv, NEW j \in Jobs, FreePermit(j)
  PROVE  IInv'
<1>1. /\ Shape /\ Disjoint /\ HeldExact /\ runner.up
      /\ \A k \in Jobs : Traced(k) /\ Placed(k)
  BY DEF IInv, FreePermit
<1> DEFINE done == [NewJob EXCEPT !.pc = "done", !.scope = job[j].scope]
<1>2. done \in Job /\ done.pc = "done" /\ done.write = "none"
  BY <1>1 DEF Shape, NewJob, Job, Places
<1>3. /\ job' = [job EXCEPT ![j] = done] /\ job[j].pc = "permit"
      /\ UNCHANGED <<file, child, starts>>
  BY DEF FreePermit
<1> HIDE DEF done
<1>4. runner' \in Counters /\ runner'.up /\ runner'.held = runner.held
  BY <1>1 DEF Shape, Counters, FreePermit, Freed
<1>5. job'[j] = done /\ \A k \in Jobs \ {j} : job'[k] = job[k]
  BY <1>1, <1>3 DEF Shape
<1>6. Shape'
  BY <1>1, <1>2, <1>3, <1>4 DEF Shape
<1>7. ~Recorded(j) /\ ~Alive(j)
  BY <1>1, <1>3 DEF Placed, Recording, Counted, Reserved, Waiting
<1>8. \A k \in Jobs : /\ Traced(k)' /\ Placed(k)'
                      /\ Engaged(k)' => Engaged(k) /\ job'[k].scope = job[k].scope
                      /\ job[k].pc \in Counted <=> job'[k].pc \in Counted
                      /\ job[k].pc \in Counted => job'[k] = job[k]
  <2> TAKE k \in Jobs
  <2>1. CASE k = j
    BY <1>2, <1>3, <1>4, <1>5, <1>7, <2>1
    DEF Traced, Placed, Engaged, Recorded, Alive, Counted, Reserved, Waiting
  <2>2. CASE k # j
    BY <1>1, <1>3, <1>4, <1>5, <2>2 DEF Traced, Placed, Engaged, Recorded, Alive
  <2> QED
    BY <2>1, <2>2
<1>9. Disjoint'
  BY <1>1, <1>8 DEF Disjoint
<1>10. HeldExact'
  BY <1>1, <1>4, <1>8 DEF HeldExact
<1> QED
  BY <1>4, <1>6, <1>8, <1>9, <1>10 DEF IInv

-----------------------------------------------------------------------------
(* The host and the daemon.                                                *)

\* A process may end at any time, in a running daemon or between two.
LEMMA ChildExitsPreserves ==
  ASSUME IInv, NEW j \in Jobs, ChildExits(j)
  PROVE  IInv'
<1>1. /\ Shape /\ Disjoint /\ HeldExact
      /\ \A k \in Jobs : Traced(k) /\ (runner.up => Placed(k))
  BY DEF IInv
<1>2. UNCHANGED <<runner, job, file, starts>> /\ child' = [child EXCEPT ![j] = "gone"]
  BY DEF ChildExits
<1>3. Shape' /\ \A k \in Jobs : Alive(k)' => Alive(k)
  BY <1>1, <1>2 DEF Shape, Alive
<1>4. \A k \in Jobs : Recorded(k)' <=> Recorded(k)
  BY <1>2 DEF Recorded
<1>5. \A k \in Jobs : Traced(k)'
  <2> TAKE k \in Jobs
  <2>1. job[k].pc = "unused" => k # j
    BY <1>1 DEF Traced, ChildExits, Alive
  <2>2. k # j => child'[k] = child[k]
    BY <1>1, <1>2 DEF Shape
  <2> QED
    BY <1>1, <1>2, <1>3, <1>4, <2>1, <2>2 DEF Traced
<1>6. \A k \in Jobs : runner.up => Placed(k)'
  BY <1>1, <1>2, <1>3, <1>4 DEF Placed
<1>7. Disjoint' /\ HeldExact'
  BY <1>1, <1>2, <1>4 DEF Disjoint, HeldExact, Engaged
<1> QED
  BY <1>2, <1>3, <1>5, <1>6, <1>7 DEF IInv

\* What a stopped daemon leaves: no counters.
LEMMA StoppedShape ==
  ASSUME NEW w \in Limits
  PROVE  Stopped(w) \in Counters /\ ~Stopped(w).up
  BY RunnerAssumption DEF Stopped, Counters

\* A job the daemon loses keeps its scope, and forgets its place and its write.
LEMMA LostShape ==
  ASSUME Shape
  PROVE  /\ Lost \in [Jobs -> Job]
         /\ \A j \in Jobs : /\ Lost[j].pc = IF job[j].pc = "unused" THEN "unused" ELSE "lost"
                            /\ Lost[j].scope = job[j].scope
                            /\ job[j].pc = "unused" => Lost[j] = job[j]
                            /\ job[j].pc # "unused" => Lost[j].write = "none"
<1> SUFFICES ASSUME NEW j \in Jobs
    PROVE  /\ Lost[j] \in Job
           /\ Lost[j].pc = IF job[j].pc = "unused" THEN "unused" ELSE "lost"
           /\ Lost[j].scope = job[j].scope
           /\ job[j].pc = "unused" => Lost[j] = job[j]
           /\ job[j].pc # "unused" => Lost[j].write = "none"
  BY DEF Lost
<1>1. job[j] \in Job
  BY DEF Shape
<1>2. CASE job[j].pc = "unused"
  BY <1>1, <1>2 DEF Lost
<1>3. CASE job[j].pc # "unused"
  <2>1. Lost[j] = [NewJob EXCEPT !.pc = "lost", !.scope = job[j].scope]
    BY <1>3 DEF Lost
  <2> QED
    BY <1>1, <1>3, <2>1 DEF NewJob, Job, Places
<1> QED
  BY <1>2, <1>3

\* After a crash only the records on disk own scopes, and every survivor has one.
LEMMA CrashPreserves ==
  ASSUME IInv, Crash \/ Reboot
  PROVE  IInv'
<1>1. /\ Shape /\ Disjoint
      /\ \A k \in Jobs : Traced(k) /\ (runner.up => Placed(k))
  BY DEF IInv
<1>2. /\ runner' = Stopped(runner.workers) /\ job' = Lost /\ starts' = starts
      /\ \/ UNCHANGED <<file, child>>
         \/ /\ child' = [j \in Jobs |-> IF Alive(j) THEN "gone" ELSE child[j]]
            /\ file' = [j \in Jobs |-> IF Recorded(j) THEN "stale" ELSE file[j]]
  BY DEF Crash, Reboot
<1>3. runner' \in Counters /\ ~runner'.up
  <2>1. runner.workers \in Limits
    BY <1>1 DEF Shape, Counters
  <2> QED
    BY <1>2, <2>1, StoppedShape
<1>4. Shape'
  BY <1>1, <1>2, <1>3, LostShape DEF Shape
<1>5. \A k \in Jobs : /\ Recorded(k)' => Recorded(k)
                      /\ Alive(k)' => Alive(k) /\ Recorded(k)'
                      /\ job[k].pc = "unused" => file'[k] = file[k] /\ child'[k] = child[k]
  BY <1>1, <1>2 DEF Traced, Recorded, Alive
<1>6. \A k \in Jobs : /\ job'[k].pc \in {"unused", "lost"} /\ job'[k].write # "busy"
                      /\ job'[k].scope = job[k].scope
                      /\ job'[k].pc = "unused" => job[k].pc = "unused"
  <2> TAKE k \in Jobs
  <2>1. job[k].pc = "unused" => job[k].write # "busy"
    BY <1>1 DEF Traced, Placed
  <2> QED
    BY <1>1, <1>2, <2>1, LostShape
<1>7. \A k \in Jobs : Traced(k)' /\ (Engaged(k)' => Recorded(k))
  BY <1>1, <1>5, <1>6 DEF Traced, Engaged, Counted, Reserved, Waiting
<1>8. Disjoint'
  BY <1>1, <1>6, <1>7 DEF Disjoint, Engaged
<1> QED
  BY <1>3, <1>4, <1>7, <1>8 DEF IInv, HeldExact

\* A failed start removes records of processes that are gone, and nothing else.
LEMMA StartFailsPreserves ==
  ASSUME IInv, NEW cleared \in SUBSET Jobs, StartFails(cleared)
  PROVE  IInv'
<1>1. /\ Shape /\ Disjoint /\ \A k \in Jobs : Traced(k)
  BY DEF IInv
<1>2. /\ ~runner.up /\ cleared \subseteq Removable
      /\ file' = [j \in Jobs |-> IF j \in cleared THEN "none" ELSE file[j]]
      /\ UNCHANGED <<runner, job, child, starts>>
  BY DEF StartFails
<1>3. Shape'
  BY <1>1, <1>2 DEF Shape
<1>4. \A k \in Jobs : (Recorded(k)' => Recorded(k)) /\ (Alive(k)' => Recorded(k)')
  BY <1>1, <1>2 DEF Removable, Traced, Recorded, Alive
<1>5. \A k \in Jobs : Traced(k)'
  BY <1>1, <1>2, <1>4 DEF Traced, Recorded
<1>6. Disjoint'
  BY <1>1, <1>2, <1>4 DEF Disjoint, Engaged
<1> QED
  BY <1>2, <1>3, <1>5, <1>6 DEF IInv, HeldExact

\* A new daemon reserves the scope of every record it cannot clear: one job for each.
LEMMA StartPreserves ==
  ASSUME IInv, NEW w \in Limits, NEW kept \in SUBSET Removable, NEW lucky \in SUBSET Jobs,
         Start(w, kept, lucky)
  PROVE  IInv'
<1>1. /\ Shape /\ Disjoint /\ ~runner.up /\ \A k \in Jobs : Traced(k)
  BY DEF IInv, Start
<1> DEFINE cleared == Removable \ kept
           found == Recovered(cleared)
           recovered(k) == [NewJob EXCEPT !.pc = IF file[k] = "pid" THEN "watch" ELSE "stuck",
                                          !.scope = job[k].scope, !.recovered = TRUE,
                                          !.permit = k \in lucky]
           count(s) == Cardinality({k \in found : job[k].scope = s})
<1>2. /\ lucky \subseteq found
      /\ file' = [k \in Jobs |-> IF k \in cleared THEN "none" ELSE file[k]]
      /\ job' = [k \in Jobs |-> IF k \notin found THEN job[k] ELSE recovered(k)]
      /\ runner' = [Stopped(w) EXCEPT
           !.up = TRUE, !.permits = w - Cardinality(lucky),
           !.pending = Cardinality(found), !.recovered = Cardinality(found),
           !.held = [s \in Scopes |-> count(s)]]
      /\ starts' = starts + 1 /\ child' = child
  BY DEF Start
<1>3. found = {k \in Jobs \ cleared : Recorded(k)}
  BY DEF Recovered
<1>4. IsFiniteSet(found) /\ \A S \in SUBSET found : IsFiniteSet(S) /\ Cardinality(S) \in Nat
  BY <1>3, RunnerAssumption, FS_Subset, FS_CardinalityType
<1> HIDE DEF cleared, found
<1>5. /\ runner'.up /\ runner'.held = [s \in Scopes |-> count(s)]
      /\ runner' \in Counters
  <2>1. /\ Cardinality(lucky) \in Nat /\ Cardinality(found) \in Nat
        /\ \A s \in Scopes : count(s) \in Nat
    BY <1>2, <1>4
  <2>2. w \in Nat
    BY RunnerAssumption
  <2> DEFINE h == [s \in Scopes |-> count(s)]
  <2>4. h \in [Scopes -> Int]
    BY <2>1
  <2> HIDE DEF h, count
  <2> DEFINE r1 == [Stopped(w) EXCEPT !.up = TRUE]
  <2>5. r1 \in Counters /\ r1.up
    BY StoppedShape, UpField
  <2> DEFINE r2 == [r1 EXCEPT !.permits = w - Cardinality(lucky)]
  <2> HIDE DEF r1
  <2>6. r2 \in Counters /\ r2.up
    <3>1. w - Cardinality(lucky) \in Int
      BY <2>1, <2>2
    <3> QED
      BY <2>5, <3>1, CounterFields
  <2> DEFINE r3 == [r2 EXCEPT !.pending = Cardinality(found)]
  <2> HIDE DEF r2
  <2>7. r3 \in Counters /\ r3.up
    <3>1. Cardinality(found) \in Int
      BY <2>1
    <3> QED
      BY <2>6, <3>1, CounterFields
  <2> DEFINE r4 == [r3 EXCEPT !.recovered = Cardinality(found)]
  <2> HIDE DEF r3
  <2>8. r4 \in Counters /\ r4.up
    <3>1. Cardinality(found) \in Int
      BY <2>1
    <3> QED
      BY <2>7, <3>1, CounterFields
  <2>9. runner' = [r4 EXCEPT !.held = h]
    BY <1>2 DEF h, r1, r2, r3
  <2> HIDE DEF r4
  <2>10. runner'.up /\ runner'.held = h /\ runner' \in Counters
    BY <2>4, <2>8, <2>9, AllHeldFields
  <2> QED
    BY <2>10 DEF h
<1>6. \A k \in found : /\ recovered(k) \in Job /\ recovered(k).pc \in {"watch", "stuck"}
                       /\ recovered(k).scope = job[k].scope /\ recovered(k).write = "none"
  <2> TAKE k \in found
  <2>1. job[k].scope \in Scopes
    BY <1>1, <1>3 DEF Traced
  <2>2. NewJob \in Job /\ NewJob.write = "none"
    BY DEF NewJob, Job, Places, Waiting
  <2> DEFINE p == IF file[k] = "pid" THEN "watch" ELSE "stuck"
             r1 == [NewJob EXCEPT !.pc = p]
  <2>3. r1 \in Job /\ r1.pc \in {"watch", "stuck"} /\ r1.write = "none"
    <3>1. p \in {"watch", "stuck"} /\ p \in Places
      BY DEF Places
    <3> HIDE DEF p
    <3>2. r1 \in Job
      BY <2>2, <3>1, JobFields
    <3> QED
      BY <2>2, <3>1, <3>2 DEF Job
  <2> DEFINE r2 == [r1 EXCEPT !.scope = job[k].scope]
  <2> HIDE DEF r1
  <2>4. /\ r2 \in Job /\ r2.pc \in {"watch", "stuck"} /\ r2.write = "none"
        /\ r2.scope = job[k].scope
    <3>1. r2 \in Job
      BY <2>1, <2>3, JobFields
    <3> QED
      BY <2>3, <3>1 DEF Job
  <2> DEFINE r3 == [r2 EXCEPT !.recovered = TRUE]
  <2> HIDE DEF r2
  <2>5. /\ r3 \in Job /\ r3.pc \in {"watch", "stuck"} /\ r3.write = "none"
        /\ r3.scope = job[k].scope
    <3>1. r3 \in Job
      BY <2>4, JobFields
    <3> QED
      BY <2>4, <3>1 DEF Job
  <2>6. recovered(k) = [r3 EXCEPT !.permit = k \in lucky]
    BY DEF r1, r2, r3
  <2> HIDE DEF r3, recovered
  <2> DEFINE b == k \in lucky
  <2>7. b \in BOOLEAN
    OBVIOUS
  <2>8. recovered(k) = [r3 EXCEPT !.permit = b]
    BY <2>6
  <2> HIDE DEF b
  <2>9. recovered(k) \in Job
    BY <2>5, <2>7, <2>8, JobFields
  <2> QED
    BY <2>5, <2>8, <2>9 DEF Job
<1>7. \A k \in Jobs : /\ Recorded(k)' <=> k \in found
                      /\ Alive(k)' => k \in found
                      /\ k \in found => job'[k] = recovered(k)
                      /\ k \notin found => job'[k] = job[k]
  <2> TAKE k \in Jobs
  <2>1. Alive(k)' => Recorded(k) /\ k \notin cleared
    BY <1>1, <1>2 DEF cleared, Removable, Traced, Recorded, Alive
  <2>2. file'[k] = (IF k \in cleared THEN "none" ELSE file[k])
    BY <1>2
  <2>3. Recorded(k)' <=> k \notin cleared /\ Recorded(k)
    BY <2>2 DEF Recorded
  <2> HIDE DEF recovered
  <2> QED
    BY <1>2, <1>3, <2>1, <2>3
<1>8. Shape'
  <2>1. job' \in [Jobs -> Job]
    <3> HIDE DEF recovered
    <3> QED
      BY <1>1, <1>2, <1>6 DEF Shape
  <2>2. file' \in [Jobs -> {"none", "intent", "pid", "stale"}]
    BY <1>1, <1>2 DEF Shape
  <2>3. starts' = starts + 1 /\ child' = child
    BY DEF Start
  <2>4. starts' \in Nat
    BY <1>1, <2>3 DEF Shape
  <2> HIDE DEF recovered, count
  <2> QED
    BY <1>1, <1>5, <2>1, <2>2, <2>3, <2>4 DEF Shape
<1> HIDE DEF recovered
<1>9. \A k \in Jobs : /\ k \in found => /\ job'[k].pc \in {"watch", "stuck"}
                                        /\ job'[k].scope = job[k].scope
                                        /\ job'[k].write = "none"
                                        /\ job[k].scope \in Scopes
                      /\ k \notin found => /\ job'[k].pc \in {"unused", "lost"}
                                           /\ job'[k].write # "busy"
  BY <1>1, <1>3, <1>6, <1>7 DEF Traced
<1>10. \A k \in Jobs : Traced(k)' /\ Placed(k)'
  <2> TAKE k \in Jobs
  <2>1. CASE k \in found
    BY <1>5, <1>7, <1>9, <2>1 DEF Traced, Placed, Recording, Counted, Reserved, Waiting
  <2>2. CASE k \notin found
    <3>1. job[k].pc = "unused" => file'[k] = "none" /\ child'[k] = "none"
      BY <1>1, <1>2 DEF Traced
    <3> QED
      BY <1>5, <1>7, <1>9, <2>2, <3>1
      DEF Traced, Placed, Recording, Counted, Reserved, Waiting
  <2> QED
    BY <2>1, <2>2
<1>11. \A k \in Jobs : (job'[k].pc \in Counted <=> k \in found) /\ (Engaged(k)' <=> k \in found)
  BY <1>7, <1>9 DEF Engaged, Counted, Reserved, Waiting
<1>12. \A k, l \in found : job[k].scope = job[l].scope => k = l
  BY <1>1, <1>3 DEF Disjoint, Engaged
<1>13. Disjoint'
  BY <1>9, <1>11, <1>12 DEF Disjoint
<1>14. HeldExact'
  <2> SUFFICES ASSUME NEW s \in Scopes
               PROVE  count(s) = IF \E k \in found : job[k].scope = s THEN 1 ELSE 0
    BY <1>3, <1>5, <1>9, <1>11 DEF HeldExact
  <2>1. CASE \E k \in found : job[k].scope = s
    <3>1. PICK k \in found : {l \in found : job[l].scope = s} = {k}
      BY <1>12, <2>1
    <3> QED
      BY <2>1, <3>1, FS_Singleton
  <2>2. CASE ~\E k \in found : job[k].scope = s
    <3>1. {l \in found : job[l].scope = s} = {}
      BY <2>2
    <3> QED
      BY <2>2, <3>1, FS_EmptySet
  <2> QED
    BY <2>1, <2>2
<1> QED
  BY <1>5, <1>8, <1>10, <1>13, <1>14 DEF IInv

-----------------------------------------------------------------------------
(* The invariant and what follows from it.                                 *)

\* Before the first start nothing is recorded, running or owned.
LEMMA InitEstablishes == Init => IInv
<1> SUFFICES ASSUME Init
    PROVE  IInv
  OBVIOUS
<1>1. PICK w \in Limits : runner = Stopped(w)
  BY DEF Init
<1>2. runner \in Counters /\ ~runner.up
  BY <1>1, StoppedShape
<1>3. NewJob \in Job /\ NewJob.pc = "unused" /\ NewJob.write = "none"
  BY DEF NewJob, Job, Places, Waiting
<1>4. Shape
  BY <1>2, <1>3 DEF Init, Shape
<1>5. \A j \in Jobs : job[j] = NewJob /\ file[j] = "none" /\ child[j] = "none"
  BY DEF Init
<1>6. \A j \in Jobs : Traced(j) /\ ~Engaged(j)
  BY <1>3, <1>5 DEF Traced, Engaged, Recorded, Alive, Counted, Reserved, Waiting
<1> QED
  BY <1>2, <1>4, <1>6 DEF IInv, Disjoint, HeldExact

\* Every step preserves the invariant: supervisors, disk, children, launches, shutdown,
\* crashes, reboots and starts.
LEMMA NextPreserves == IInv /\ [Next]_vars => IInv'
<1> SUFFICES ASSUME IInv, [Next]_vars
    PROVE  IInv'
  OBVIOUS
<1>1. CASE Launch
  BY <1>1, QuietPreserves, AdmitPreserves DEF Launch
<1>2. CASE \E j \in Jobs : Supervise(j)
  <2>1. PICK j \in Jobs : Supervise(j)
    BY <1>2
  <2>2. CASE IntentWritten(j) \/ IntentFailed(j) \/ LateWritten(j) \/ SpawnFails(j) \/ Spawn(j)
             \/ GiveUp(j) \/ IntentTooLate(j)
    BY <2>2, IntentWrittenPreserves, IntentFailedPreserves, LateWrittenPreserves,
       SpawnFailsPreserves, SpawnPreserves, GiveUpPreserves, IntentTooLatePreserves
  <2>3. CASE Reap(j) \/ Eof(j) \/ Interrupt(j) \/ PidWritten(j)
    BY <2>3, LoopPreserves
  <2>4. CASE Leave(j) \/ PidSettled(j) \/ Drop(j) \/ FreePermit(j) \/ RecoveredGone(j)
    BY <2>4, LeavePreserves, PidSettledPreserves, DropPreserves, FreePermitPreserves,
       RecoveredGonePreserves
  <2> QED
    BY <2>1, <2>2, <2>3, <2>4 DEF Supervise
<1>3. CASE \E j \in Jobs : Disk(j)
  BY <1>3, WriteEndsPreserves, RemoveEndsPreserves DEF Disk
<1>4. CASE \E j \in Jobs : ChildExits(j)
  BY <1>4, ChildExitsPreserves
<1>5. CASE Shutdown \/ UNCHANGED vars
  BY <1>5, QuietPreserves
<1>6. CASE Crash \/ Reboot
  BY <1>6, CrashPreserves
<1>7. CASE Restart
  BY <1>7, StartPreserves, StartFailsPreserves DEF Restart
<1> QED
  BY <1>1, <1>2, <1>3, <1>4, <1>5, <1>6, <1>7 DEF Next

\* The inductive invariant holds in every state of every behaviour.
THEOREM Invariance == Spec => []IInv
  BY InitEstablishes, NextPreserves, PTL DEF Spec

\* A living process has a record of this boot on disk, in every state between its spawn
\* and its exit: supervise writes the intent first and removes the record last.
THEOREM ChildrenRecorded == Spec => []ChildrenAreRecorded
<1>1. IInv => ChildrenAreRecorded
  BY DEF IInv, Traced, ChildrenAreRecorded
<1> QED
  BY <1>1, Invariance, PTL

\* A running daemon has a reservation for every record, its own and those it recovered.
THEOREM RecordsReserved == Spec => []RecordsAreReserved
<1>1. IInv => RecordsAreReserved
  BY DEF IInv, Placed, RecordsAreReserved, Holders, Recording, Counted
<1> QED
  BY <1>1, Invariance, PTL

\* No two living processes work on one scope, across any number of crashes and restarts.
THEOREM OneChild == Spec => []OneChildPerScope
<1>1. IInv => OneChildPerScope
  BY DEF IInv, Traced, Disjoint, Engaged, OneChildPerScope
<1> QED
  BY <1>1, Invariance, PTL
=============================================================================
