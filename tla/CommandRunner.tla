--------------------------- MODULE CommandRunner ---------------------------
(***************************************************************************)
(* Command admission and supervision of the collector                      *)
(* (crates/ciderd/src/command.rs): one runner of one work class, its       *)
(* journal directory, the supervisor task of each command, the child       *)
(* processes, and the daemon's crashes, restarts and the host's reboots.   *)
(*                                                                         *)
(* A job is one accepted launch; its journal file is named by a fresh      *)
(* UUID, so the job names the file.  The blocking write of a file and the  *)
(* supervisor's observation of it are separate steps: deadline, caller,    *)
(* shutdown and crash may come between.  Output bytes, arguments and exit  *)
(* codes are left out.  Only the visibility of a file matters: a crash of  *)
(* the daemon keeps visible files, and a reboot voids them all.            *)
(***************************************************************************)
EXTENDS Integers, FiniteSets

CONSTANTS
  Jobs,         \* bound: launches ever accepted
  Scopes,       \* scopes of commands
  NoScope,      \* the scope of a job not launched yet
  Limits,       \* worker limits the configuration may name
  MaxRestarts,  \* bound: starts of the daemon
  MaxAdmitting  \* bound: launches between their two checks

ASSUME RunnerAssumption ==
  /\ IsFiniteSet(Jobs) /\ NoScope \notin Scopes
  /\ Limits # {} /\ Limits \subseteq Nat \ {0} /\ MaxRestarts \in Nat
  /\ MaxAdmitting \in Nat

VARIABLES
  runner,    \* the CommandRunner of the running daemon
  job,       \* the supervisor of each job
  file,      \* the journal record of each job
  child,     \* the process of each job
  starts     \* starts of the daemon so far

vars == <<runner, job, file, child, starts>>

\* The outcomes an answer tells apart: "stopped" stands for TimedOut, OutputLimit and
\* Cancelled, which the code treats alike and reports as a pending exit.
Outcomes == {"completed", "spawn_failed", "stopped"}

\* Where a supervisor is: the intent write, the rest of it after an early answer, the
\* check before the spawn, the loop around the child, the pid write, the removal of the
\* record, and the three steps of a release.  "watch" and "stuck" own a recovered record.
Waiting == {"intent", "late", "ready", "running", "pidwait", "remove", "drop",
            "permit"}
Places == {"unused", "done", "lost", "watch", "stuck"} \cup Waiting
\* Those that own a Reservation.
Reserved == {"watch", "stuck"} \cup Waiting

Runner == [up : BOOLEAN, workers : Limits, permits : Nat, pending : Nat,
           recovered : Nat, quarantined : Nat, held : [Scopes -> Nat],
           failed : BOOLEAN, shutdown : BOOLEAN, admitting : SUBSET Scopes]
Job == [pc : Places, scope : Scopes \cup {NoScope}, result : {"none"} \cup Outcomes,
        write : {"none", "busy", "ok", "failed"}, exited : BOOLEAN, piped : BOOLEAN,
        quarantined : BOOLEAN, recovered : BOOLEAN, permit : BOOLEAN]

NewJob == [pc |-> "unused", scope |-> NoScope, result |-> "none", write |-> "none",
           exited |-> FALSE, piped |-> FALSE, quarantined |-> FALSE,
           recovered |-> FALSE, permit |-> FALSE]

Stopped(w) == [up |-> FALSE, workers |-> w, permits |-> w, pending |-> 0,
               recovered |-> 0, quarantined |-> 0, held |-> [s \in Scopes |-> 0],
               failed |-> FALSE, shutdown |-> FALSE, admitting |-> {}]

Init ==
  /\ \E w \in Limits : runner = Stopped(w)
  /\ job = [j \in Jobs |-> NewJob]
  /\ file = [j \in Jobs |-> "none"]
  /\ child = [j \in Jobs |-> "none"]
  /\ starts = 0

Alive(j) == child[j] \in {"alive", "killed"}
Recorded(j) == file[j] \in {"intent", "pid"}
Holders == {j \in Jobs : job[j].pc \in Reserved}

-----------------------------------------------------------------------------
(* launch                                                                  *)

\* The journal flag is read before the scopes are locked.
Attempt(s) ==
  /\ runner.up /\ ~runner.failed /\ s \notin runner.admitting
  /\ Cardinality(runner.admitting) < MaxAdmitting
  /\ runner' = [runner EXCEPT !.admitting = @ \cup {s}]
  /\ UNCHANGED <<job, file, child, starts>>

\* Mutant of Admissible: only this session's permits are counted.
AdmissibleByPermit(s) == ~runner.shutdown /\ runner.held[s] = 0 /\ runner.permits > 0

Admissible(s) ==
  /\ ~runner.shutdown /\ runner.pending < runner.workers
  /\ runner.held[s] = 0 /\ runner.permits > 0

\* An occupied scope or class is skipped, never queued.
Skip(s) ==
  /\ runner.up /\ s \in runner.admitting /\ ~Admissible(s)
  /\ runner' = [runner EXCEPT !.admitting = @ \ {s}]
  /\ UNCHANGED <<job, file, child, starts>>

Admit(s, j) ==
  /\ runner.up /\ s \in runner.admitting /\ Admissible(s)
  /\ job[j].pc = "unused"
  /\ runner' = [runner EXCEPT !.admitting = @ \ {s}, !.held[s] = 1,
                              !.pending = @ + 1, !.permits = @ - 1]
  /\ job' = [job EXCEPT ![j] = [NewJob EXCEPT !.pc = "intent", !.scope = s,
                                              !.write = "busy", !.permit = TRUE]]
  /\ UNCHANGED <<file, child, starts>>

-----------------------------------------------------------------------------
(* The blocking workers.                                                   *)

\* write_record replaces the file atomically; a failure may come before or after that.
WriteEnds(j, ok) ==
  /\ runner.up /\ job[j].write = "busy"
  /\ LET written == IF job[j].pc \in {"intent", "late"} THEN "intent" ELSE "pid"
     IN \/ file' = [file EXCEPT ![j] = written]
        \/ ~ok /\ file' = file
  /\ job' = [job EXCEPT ![j].write = IF ok THEN "ok" ELSE "failed"]
  /\ UNCHANGED <<runner, child, starts>>

\* remove_record_until_durable: one attempt.  A failed one may have unlinked the file.
RemoveEnds(j, ok) ==
  /\ runner.up /\ job[j].pc = "remove"
  /\ \/ file' = [file EXCEPT ![j] = "none"]
     \/ ~ok /\ file' = file
  /\ runner' = IF ok THEN runner ELSE [runner EXCEPT !.failed = TRUE]
  /\ job' = IF ok THEN [job EXCEPT ![j].pc = "drop"] ELSE job
  /\ UNCHANGED <<child, starts>>

-----------------------------------------------------------------------------
(* supervise: the journal intent, before any process exists.               *)

Published(r, o) == IF r.result = "none" THEN [r EXCEPT !.result = o] ELSE r
Refused(r, o) == [Published(r, o) EXCEPT !.pc = "remove", !.write = "none"]

\* The write is observed in time: the last check, then on to the spawn, or refuse it.
IntentWritten(j) ==
  /\ runner.up /\ job[j].pc = "intent" /\ job[j].write = "ok"
  /\ ~runner.shutdown
  /\ job' = [job EXCEPT ![j] = [@ EXCEPT !.pc = "ready", !.write = "none"]]
  /\ UNCHANGED <<runner, file, child, starts>>

IntentFailed(j) ==
  /\ runner.up /\ job[j].pc = "intent" /\ job[j].write = "failed"
  /\ job' = [job EXCEPT ![j] = Refused(@, "spawn_failed")]
  /\ runner' = [runner EXCEPT !.failed = TRUE]
  /\ UNCHANGED <<file, child, starts>>

\* The check finds the deadline passed, the caller gone or the daemon stopping.
IntentTooLate(j) ==
  /\ runner.up /\ job[j].pc = "intent" /\ job[j].write = "ok"
  /\ job' = [job EXCEPT ![j] = Refused(@, "stopped")]
  /\ UNCHANGED <<runner, file, child, starts>>

\* Mutant of GiveUp: the answer waits for the write.
GiveUpWritten(j) ==
  /\ runner.up /\ job[j].pc = "intent" /\ job[j].write # "busy"
  /\ job' = [job EXCEPT ![j] = [Published(@, "stopped") EXCEPT !.pc = "late"]]
  /\ UNCHANGED <<runner, file, child, starts>>

\* The deadline, the caller or the shutdown comes first: the answer does not wait for
\* the metadata disk, and nothing is spawned.
GiveUp(j) ==
  /\ runner.up /\ job[j].pc = "intent"
  /\ job' = [job EXCEPT ![j] = [Published(@, "stopped") EXCEPT !.pc = "late"]]
  /\ UNCHANGED <<runner, file, child, starts>>

LateWritten(j) ==
  /\ runner.up /\ job[j].pc = "late" /\ job[j].write \in {"ok", "failed"}
  /\ job' = [job EXCEPT ![j] = [@ EXCEPT !.pc = "remove", !.write = "none"]]
  /\ runner' = [runner EXCEPT !.failed = @ \/ job[j].write = "failed"]
  /\ UNCHANGED <<file, child, starts>>

SpawnFails(j) ==
  /\ runner.up /\ job[j].pc = "ready"
  /\ job' = [job EXCEPT ![j] = Refused(@, "spawn_failed")]
  /\ UNCHANGED <<runner, file, child, starts>>

\* The child exists before its pid is written.
Spawn(j) ==
  /\ runner.up /\ job[j].pc = "ready"
  /\ job' = [job EXCEPT ![j] = [@ EXCEPT !.pc = "running", !.write = "busy",
                                         !.piped = TRUE]]
  /\ child' = [child EXCEPT ![j] = "alive"]
  /\ UNCHANGED <<runner, file, starts>>

-----------------------------------------------------------------------------
(* supervise: the loop around the child.                                   *)

\* Mutant of Terminated: the pipes stay open after the answer.
TerminatedOpen(r, o, opens) == [Published(r, o) EXCEPT !.quarantined = @ \/ opens]

\* The supervisor after it answered o and closed the pipes.
Terminated(r, o, opens) ==
  [Published(r, o) EXCEPT !.piped = FALSE, !.quarantined = @ \/ opens]

\* One turn of the loop: r is the job after the event, o the reason to terminate it or
\* "none".  A shutdown overrides the reason while the answer is open.
Turn(j, r, o, counted) ==
  LET cause == IF runner.shutdown /\ r.result = "none" THEN "stopped" ELSE o
      opens == /\ cause = "stopped" /\ r.result = "none"
               /\ ~r.exited /\ ~r.quarantined
  IN /\ runner.up /\ job[j].pc = "running" /\ (~job[j].exited \/ job[j].piped)
     /\ job' = [job EXCEPT ![j] = IF cause = "none" THEN r ELSE Terminated(r, cause, opens)]
     /\ child' = IF cause # "none" /\ ~r.exited /\ child[j] = "alive"
                 THEN [child EXCEPT ![j] = "killed"] ELSE child
     /\ runner' = [counted EXCEPT !.quarantined = IF opens THEN @ + 1 ELSE @]
     /\ UNCHANGED <<file, starts>>

\* Mutant of Unquarantined: every exit is taken off the count.
UnquarantinedAlways(j) == [runner EXCEPT !.quarantined = @ - 1]

Unquarantined(j) ==
  IF job[j].quarantined THEN [runner EXCEPT !.quarantined = @ - 1] ELSE runner

\* try_wait proves the exit.
Reap(j) ==
  /\ child[j] = "gone" /\ ~job[j].exited
  /\ Turn(j, [job[j] EXCEPT !.exited = TRUE, !.quarantined = FALSE], "none",
          Unquarantined(j))

\* Both pipes reach their end.
Eof(j) ==
  /\ job[j].piped
  /\ Turn(j, [job[j] EXCEPT !.piped = FALSE], "none", runner)

\* The deadline, a caller that drops its receiver, a pipe beyond its byte cap or the
\* shutdown, while the answer is open.
Interrupt(j) == job[j].result = "none" /\ Turn(j, job[j], "stopped", runner)

\* The write of the pid ends: a failure terminates the child.
PidWritten(j) ==
  /\ job[j].write \in {"ok", "failed"}
  /\ Turn(j, [job[j] EXCEPT !.write = "none"],
          IF job[j].write = "failed" THEN "spawn_failed" ELSE "none",
          [runner EXCEPT !.failed = @ \/ job[j].write = "failed"])

\* Mutant of Finished: a published answer ends the loop.
FinishedOnAnswer(j) == ~job[j].piped /\ (job[j].exited \/ job[j].result # "none")

\* The exit is confirmed and both pipes are closed: the only way out of the loop.
Finished(j) == job[j].exited /\ ~job[j].piped

Leave(j) ==
  /\ runner.up /\ job[j].pc = "running" /\ Finished(j)
  /\ job' = [job EXCEPT ![j] = [Published(@, "completed") EXCEPT !.pc = "pidwait"]]
  /\ UNCHANGED <<runner, file, child, starts>>

\* Mutant of PidSettled: the record is removed while its write is under way.
PidSettledEarly(j) ==
  /\ runner.up /\ job[j].pc = "pidwait"
  /\ job' = [job EXCEPT ![j].pc = "remove"]
  /\ UNCHANGED <<runner, file, child, starts>>

PidSettled(j) ==
  /\ runner.up /\ job[j].pc = "pidwait" /\ job[j].write # "busy"
  /\ job' = [job EXCEPT ![j] = [@ EXCEPT !.pc = "remove", !.write = "none"]]
  /\ runner' = [runner EXCEPT !.failed = @ \/ job[j].write = "failed"]
  /\ UNCHANGED <<file, child, starts>>

-----------------------------------------------------------------------------
(* The end of a reservation: its counters first, then its permit.          *)

Drop(j) ==
  /\ runner.up /\ job[j].pc = "drop"
  /\ runner' = [runner EXCEPT !.held[job[j].scope] = @ - 1, !.pending = @ - 1,
                              !.recovered = IF job[j].recovered THEN @ - 1 ELSE @]
  /\ job' = [job EXCEPT ![j].pc = "permit"]
  /\ UNCHANGED <<file, child, starts>>

\* Mutant of Freed: a reservation without a permit gives one back.
FreedAlways(j) == runner.permits + 1
Freed(j) == IF job[j].permit THEN runner.permits + 1 ELSE runner.permits

FreePermit(j) ==
  /\ runner.up /\ job[j].pc = "permit"
  /\ runner' = [runner EXCEPT !.permits = Freed(j)]
  /\ job' = [job EXCEPT ![j] = [NewJob EXCEPT !.pc = "done", !.scope = job[j].scope]]
  /\ UNCHANGED <<file, child, starts>>

\* A recovered pid no longer exists.
RecoveredGone(j) ==
  /\ runner.up /\ job[j].pc = "watch" /\ ~Alive(j)
  /\ job' = [job EXCEPT ![j].pc = "remove"]
  /\ UNCHANGED <<runner, file, child, starts>>

-----------------------------------------------------------------------------
(* The daemon and the host.                                                *)

Shutdown ==
  /\ runner.up /\ ~runner.shutdown
  /\ runner' = [runner EXCEPT !.shutdown = TRUE]
  /\ UNCHANGED <<job, file, child, starts>>

ChildExits(j) ==
  /\ Alive(j)
  /\ child' = [child EXCEPT ![j] = "gone"]
  /\ UNCHANGED <<runner, job, file, starts>>

Lost == [j \in Jobs |->
  IF job[j].pc = "unused" THEN job[j]
  ELSE [NewJob EXCEPT !.pc = "lost", !.scope = job[j].scope]]

\* The daemon ends, with or without warning; children and records stay.
Crash ==
  /\ runner.up
  /\ runner' = Stopped(runner.workers)
  /\ job' = Lost
  /\ UNCHANGED <<file, child, starts>>

\* The host restarts: no process survives, and no record is of this boot.
Reboot ==
  /\ starts < MaxRestarts
  /\ runner' = Stopped(runner.workers)
  /\ job' = Lost
  /\ child' = [j \in Jobs |-> IF Alive(j) THEN "gone" ELSE child[j]]
  /\ file' = [j \in Jobs |-> IF Recorded(j) THEN "stale" ELSE file[j]]
  /\ UNCHANGED starts

\* Records recover_records may remove: of another boot, or of a process that is gone.
Removable == {j \in Jobs : \/ file[j] = "stale"
                           \/ (file[j] = "pid" /\ ~Alive(j))}

\* Mutant of Recovered: an intent without a pid never became a process.
RecoveredPids(cleared) == {j \in Jobs \ cleared : file[j] = "pid"}
Recovered(cleared) == {j \in Jobs \ cleared : Recorded(j)}

\* new: removes what it can prove over, and reserves the rest.  A reused pid keeps the
\* record of a process that is gone (kept).  Permits go to the first records read.
Start(w, kept, lucky) ==
  LET cleared == Removable \ kept
      found == Recovered(cleared)
  IN /\ ~runner.up /\ starts < MaxRestarts
     /\ \A j \in kept : file[j] = "pid"
     /\ lucky \subseteq found
     /\ Cardinality(lucky) <= w
     /\ lucky = found \/ Cardinality(lucky) = w
     /\ file' = [j \in Jobs |-> IF j \in cleared THEN "none" ELSE file[j]]
     /\ job' = [j \in Jobs |->
          IF j \notin found THEN job[j]
          ELSE [NewJob EXCEPT !.pc = IF file[j] = "pid" THEN "watch" ELSE "stuck",
                              !.scope = job[j].scope, !.recovered = TRUE,
                              !.permit = j \in lucky]]
     /\ runner' = [Stopped(w) EXCEPT
          !.up = TRUE, !.permits = w - Cardinality(lucky),
          !.pending = Cardinality(found), !.recovered = Cardinality(found),
          !.held = [s \in Scopes |-> Cardinality({j \in found : job[j].scope = s})]]
     /\ starts' = starts + 1
     /\ UNCHANGED child

\* A removal fails: the daemon does not start.
StartFails(cleared) ==
  /\ ~runner.up /\ cleared \subseteq Removable
  /\ file' = [j \in Jobs |-> IF j \in cleared THEN "none" ELSE file[j]]
  /\ UNCHANGED <<runner, job, child, starts>>

-----------------------------------------------------------------------------
Supervise(j) ==
  \/ IntentWritten(j) \/ IntentFailed(j) \/ LateWritten(j) \/ SpawnFails(j) \/ Spawn(j)
  \/ GiveUp(j) \/ IntentTooLate(j)
  \/ Reap(j) \/ Eof(j) \/ Interrupt(j) \/ PidWritten(j) \/ Leave(j) \/ PidSettled(j)
  \/ Drop(j) \/ FreePermit(j) \/ RecoveredGone(j)

Disk(j) == \E ok \in BOOLEAN : (WriteEnds(j, ok) \/ RemoveEnds(j, ok))

Launch == \E s \in Scopes : (Attempt(s) \/ Skip(s) \/ \E j \in Jobs : Admit(s, j))

Restart ==
  \/ \E w \in Limits, kept \in SUBSET Removable, lucky \in SUBSET Jobs :
       Start(w, kept, lucky)
  \/ \E cleared \in SUBSET Jobs : StartFails(cleared)

Next == \/ Launch
        \/ \E j \in Jobs : (Supervise(j) \/ Disk(j) \/ ChildExits(j))
        \/ Shutdown \/ Crash \/ Reboot \/ Restart

Spec == Init /\ [][Next]_vars

\* The supervisors run, time passes, and the platform spawns or refuses.  Neither the
\* disk nor the child is fair: an answer depends on neither.
SupervisorsRun == \A j \in Jobs :
  /\ WF_vars(GiveUp(j)) /\ WF_vars(Interrupt(j))
  /\ WF_vars(IntentWritten(j) \/ IntentFailed(j) \/ IntentTooLate(j))
  /\ WF_vars(LateWritten(j)) /\ WF_vars(Spawn(j) \/ SpawnFails(j))
  /\ WF_vars(Reap(j)) /\ WF_vars(Leave(j)) /\ WF_vars(PidSettled(j))
  /\ WF_vars(Drop(j)) /\ WF_vars(FreePermit(j)) /\ WF_vars(RecoveredGone(j))

\* A write that was begun ends, a removal that is tried again and again succeeds, and a
\* killed child exits.
HostRecovers == \A j \in Jobs :
  /\ WF_vars(WriteEnds(j, TRUE)) /\ SF_vars(RemoveEnds(j, TRUE))
  /\ WF_vars(child[j] = "killed" /\ ChildExits(j))

FairSpec == Spec /\ SupervisorsRun

-----------------------------------------------------------------------------
\* The runner's counters are of their type: no release is counted twice, so that none
\* of the unsigned counters of CommandRunner wraps.
TypeOK ==
  /\ runner \in Runner
  /\ job \in [Jobs -> Job]
  /\ file \in [Jobs -> {"none", "intent", "pid", "stale"}]
  /\ child \in [Jobs -> {"none", "alive", "killed", "gone"}]
  /\ starts \in 0..MaxRestarts

\* Two living processes never work on one scope, whichever daemon started them: crashes
\* and restarts in between included.
OneChildPerScope ==
  \A i, j \in Jobs : Alive(i) /\ Alive(j) /\ job[i].scope = job[j].scope => i = j

\* A living process has a record of this boot on disk, whatever was interrupted, so that
\* the next daemon can find it.
ChildrenAreRecorded == \A j \in Jobs : Alive(j) => Recorded(j)

\* A running daemon holds a reservation for every process and record there is: no record
\* outlives the reservation that was made for it.
RecordsAreReserved == runner.up => \A j \in Jobs : Recorded(j) => j \in Holders

\* The counters are the reservations there are: none is lost or released twice by the
\* supervisors, the recovery and the interleaving of the release.  Permits beyond the
\* limit are never lent, and those that recovery could not get are not given back.
AccountingExact ==
  runner.up =>
    LET counted == {j \in Holders : job[j].pc # "permit"}
    IN /\ runner.pending = Cardinality(counted)
       /\ runner.recovered = Cardinality({j \in counted : job[j].recovered})
       /\ \A s \in Scopes :
            runner.held[s] = Cardinality({j \in counted : job[j].scope = s})
       /\ runner.permits = runner.workers - Cardinality({j \in Holders : job[j].permit})

\* What admission promises to the host: processes begin one per scope and within the
\* budget, across crashes, restarts with another limit, and reused pids.
Promise == INSTANCE WorkBudget WITH
  Processes <- Jobs, ScopeNames <- Scopes, Nothing <- NoScope, Budgets <- Limits,
  working <- [j \in Jobs |-> IF Alive(j) THEN job[j].scope ELSE NoScope],
  budget <- runner.workers
BudgetPromise == Promise!Spec

\* A caller has its answer by the deadline, however slow the metadata disk and the child
\* are: unless the daemon goes down first.
AnswersByDeadline ==
  \A j \in Jobs : (job[j].pc \in Waiting /\ job[j].result = "none")
                     ~> (job[j].result # "none" \/ ~runner.up)

\* A launch does not keep its scope and slot for ever: once the disk works again and the
\* killed child exits, its reservation ends, inherited pipes or not.
ReservationsEnd == HostRecovers =>
  \A j \in Jobs : (job[j].pc \in Waiting) ~> (job[j].pc = "done" \/ ~runner.up)

\* quarantined_count is, by its comment, "This session's children with a published
\* terminal observation whose exit has not been confirmed" (command.rs:259-260).
QuarantineIsReported ==
  runner.quarantined = Cardinality({j \in Jobs :
    job[j].pc = "running" /\ job[j].result # "none" /\ ~job[j].exited})

-----------------------------------------------------------------------------
(* The inductive invariant behind OneChildPerScope: what each place of a   *)
(* supervisor knows of its record and its child, and who owns a scope.     *)

\* The types, the signs of the counters aside.
Counters == [up : BOOLEAN, workers : Limits, permits : Int, pending : Int,
             recovered : Int, quarantined : Int, held : [Scopes -> Int],
             failed : BOOLEAN, shutdown : BOOLEAN, admitting : SUBSET Scopes]
Shape ==
  /\ runner \in Counters
  /\ job \in [Jobs -> Job]
  /\ file \in [Jobs -> {"none", "intent", "pid", "stale"}]
  /\ child \in [Jobs -> {"none", "alive", "killed", "gone"}]
  /\ starts \in Nat

\* The places whose reservation still counts, and those that may have a record.
Counted == Reserved \ {"permit"}
Recording == Counted \ {"drop"}

\* What j's place says of its record, its write and its child, in a running daemon.
Placed(j) ==
  LET r == job[j]
  IN /\ Recorded(j) => r.pc \in Recording
     /\ r.write = "busy" => r.pc \in {"intent", "late", "running", "pidwait"}
     /\ r.pc = "intent" /\ r.write = "ok" => file[j] = "intent"
     /\ r.pc = "ready" => file[j] = "intent"
     /\ r.pc \in {"intent", "late", "ready"} => ~r.exited
     /\ Alive(j) => r.pc \in {"watch", "stuck"} \/ (r.pc = "running" /\ ~r.exited)

\* What holds of a job's files and process whether or not a daemon runs.
Traced(j) ==
  /\ Alive(j) => Recorded(j)
  /\ job[j].pc = "unused" => file[j] = "none" /\ child[j] = "none"
  /\ ~runner.up => job[j].pc \in {"unused", "lost"} /\ job[j].write # "busy"
  /\ Recorded(j) \/ job[j].pc \in Counted => job[j].scope \in Scopes

\* j owns its scope: by a record on disk or a reservation in memory.
Engaged(j) == Recorded(j) \/ job[j].pc \in Counted

\* No two own one, and the runner's counts tell which are owned.
Disjoint == \A i, j \in Jobs : Engaged(i) /\ Engaged(j) /\ i # j => job[i].scope # job[j].scope
HeldExact ==
  runner.up => \A s \in Scopes :
    runner.held[s] = IF \E j \in Jobs : job[j].pc \in Counted /\ job[j].scope = s THEN 1 ELSE 0

IInv ==
  /\ Shape
  /\ \A j \in Jobs : Traced(j) /\ (runner.up => Placed(j))
  /\ Disjoint
  /\ HeldExact
=============================================================================
