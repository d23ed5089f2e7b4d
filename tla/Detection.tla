----------------------------- MODULE Detection -----------------------------
(***************************************************************************)
(* The storage activity detector of one driver and direction               *)
(* (server/src/detection.rs, stored by server/src/detection_store.rs).     *)
(*                                                                         *)
(* Every accepted collection of the driver is one observation of a byte    *)
(* counter.  Two usable ones in a row make an interval; intervals train a  *)
(* baseline; once the baseline is ready a rate above its high threshold    *)
(* makes an episode pending, opens a finding when it lasts, and a lasting  *)
(* return below the recovery threshold resolves it.  Another clock, boot,  *)
(* session, counter epoch or version of the source is another continuity:  *)
(* it interrupts the finding and forgets the baseline.                     *)
(*                                                                         *)
(* Time is counted in ticks, and an entry of the baseline ring holds how   *)
(* long ago its interval began and ended.  What an observation says beside *)
(* the counter is reduced to a reading: a rate, "decreased", "failed" (no  *)
(* counter, or none that may be used), or "untimely" (too old on receipt). *)
(* The evidence a finding carries and the summary rows are left out, and   *)
(* of the findings table only the number of open rows is kept.             *)
(***************************************************************************)
EXTENDS Baseline, FiniteSets

CONSTANTS
  ActivityRates,  \* rates an interval may have
  MaxRevision     \* bound: revisions of the baseline

ASSUME DetectionAssumption ==
  /\ ActivityRates \subseteq Nat
  /\ MaxRevision \in Nat \ {0}

VARIABLES
  activity,         \* detection_sources: the row of this source
  activitySession,  \* the accepted session of the node
  activityRows,     \* detection_findings: how many rows of the source are open
  activityTold,     \* the statuses of the findings the last step saved
  unbroken,         \* history: rates of the unbroken intervals, a tick each
  age               \* history: ticks since the continuity or revision began

detectionVars == <<activity, activitySession, activityRows, activityTold, unbroken, age>>

Continuities == [session : 1..MaxSessions, epoch : 1..MaxEpochs]
ActivityReadings ==
  [kind : {"usable"}, rate : ActivityRates]
    \cup [kind : {"decreased", "failed", "untimely"}, rate : {0}]
NoMark == [session |-> 0, epoch |-> 0]
NoEpisode == [elevated |-> 0, recovery |-> 0, high |-> 0, low |-> 0, open |-> FALSE]

NewActivity ==
  [revision |-> 1, active |-> TRUE, support |-> "none", context |-> 0, mark |-> NoMark,
   previous |-> FALSE, ring |-> <<>>, episode |-> NoEpisode]

-----------------------------------------------------------------------------
(* One observation.  Each operator returns the source and what it tells.   *)

Outcome(s, statuses) == [next |-> s, told |-> statuses]

\* break_interval: a candidate is dropped, an open finding waits.
BrokenKeepingCandidate(s) ==
  Outcome([s EXCEPT !.episode.recovery = 0], IF s.episode.open THEN {"open"} ELSE {})

Broken(s) ==
  IF s.episode.open THEN Outcome([s EXCEPT !.episode.recovery = 0], {"open"})
  ELSE Outcome([s EXCEPT !.episode = NoEpisode], {})

\* interrupt. Mutant: the baseline survives what ended its continuity.
ActivityInterruptedKeepingBaseline(s) ==
  Outcome([s EXCEPT !.active = FALSE, !.previous = FALSE, !.episode = NoEpisode],
       IF s.episode.open THEN {"interrupted"} ELSE {})

ActivityInterrupted(s) ==
  Outcome([s EXCEPT !.active = FALSE, !.previous = FALSE, !.ring = <<>>, !.episode = NoEpisode],
       IF s.episode.open THEN {"interrupted"} ELSE {})

\* A usable interval while an episode is pending or its finding is open: a
\* candidate that falls back leaves no trace, not even in the baseline.
InEpisode(s, n, rate) ==
  LET e == s.episode
      f == [e EXCEPT !.elevated = IF rate > e.high THEN Upto(@ + n, Opening) ELSE @,
                     !.recovery = IF e.open /\ rate <= e.low THEN @ + n ELSE 0]
  IN CASE ~(e.open \/ rate > e.high) -> Outcome([s EXCEPT !.episode = NoEpisode], {})
       [] e.open /\ f.recovery >= Recovery -> Outcome([s EXCEPT !.episode = NoEpisode], {"resolved"})
       [] e.open /\ f.recovery < Recovery -> Outcome([s EXCEPT !.episode = f], {"open"})
       [] OTHER -> IF f.elevated >= Opening
                   THEN Outcome([s EXCEPT !.episode = [f EXCEPT !.open = TRUE]], {"open"})
                   ELSE Outcome([s EXCEPT !.episode = f], {})

\* A usable interval without an episode: a candidate, or training.
Quiet(s, n, rate) ==
  IF Ready(s.ring) /\ rate > High(Reference(s.ring))
  THEN LET b == Reference(s.ring)
       IN Outcome([s EXCEPT !.episode = [NoEpisode EXCEPT !.elevated = Upto(n, Opening),
                                        !.high = High(b), !.low = Low(b)]], {})
  ELSE Outcome([s EXCEPT !.ring = Trained(@, [from |-> n, to |-> 0, value |-> rate])], {})

\* n ticks after the observation before, in the same continuity.
Advanced(s, n, reading) ==
  LET t == [s EXCEPT !.ring = Pruned(@, n), !.previous = reading.kind \in {"usable", "decreased"}]
  IN IF t.previous /\ s.previous /\ n <= MaxInterval /\ reading.kind = "usable"
     THEN IF t.episode = NoEpisode THEN Quiet(t, n, reading.rate)
          ELSE InEpisode(t, n, reading.rate)
     ELSE Broken(t)

\* Another continuity, or the first one: only a timely observation proves it.
Entered(s, c, reading) ==
  IF reading.kind = "untimely" THEN Broken([s EXCEPT !.previous = FALSE])
  ELSE LET i == IF s.mark = NoMark THEN Outcome(s, {}) ELSE ActivityInterrupted(s)
       IN Outcome([i.next EXCEPT !.active = TRUE, !.mark = c, !.previous = reading.kind # "failed",
                                !.episode = NoEpisode,
                                !.revision = IF s.mark = NoMark THEN @ ELSE @ + 1], i.told)

ActivityObserved(s, c, n, reading) ==
  IF s.mark = c THEN Advanced(s, n, reading) ELSE Entered(s, c, reading)

-----------------------------------------------------------------------------
(* The steps of the store                                                  *)

InitDetection ==
  /\ activity = NewActivity /\ activitySession = 1 /\ activityRows = 0 /\ activityTold = {}
  /\ unbroken = <<>> /\ age = 0

\* The findings told are saved: a first "open" inserts a row, an end closes it.
ActivitySaved(s, t) ==
  /\ activity' = t.next
  /\ activityTold' = t.told
  /\ activityRows' = activityRows
       + (IF "open" \in t.told /\ ~s.episode.open THEN 1 ELSE 0)
       - (IF t.told \cap {"resolved", "interrupted"} # {} /\ s.episode.open THEN 1 ELSE 0)

Unbroken(s, c, n, reading) ==
  IF s.mark = c /\ s.previous /\ n <= MaxInterval /\ reading.kind = "usable"
  THEN LastOf(unbroken \o [i \in 1..n |-> reading.rate], Max({Opening, Recovery}))
  ELSE <<>>

\* Already in the table of active sources, or it has room for one more.
ActivityAdmissible ==
  IF activity.support = "supported" /\ activity.active THEN {TRUE} ELSE BOOLEAN

\* observe_collection; oversized: the encoded state is too large.
CollectActivity(c, n, reading, admitted, oversized) ==
  LET heard == IF admitted \/ reading.kind = "untimely" THEN reading
               ELSE [kind |-> "failed", rate |-> 0]
      t == ActivityObserved([activity EXCEPT !.active = TRUE], c, n, heard)
      u == IF oversized THEN LET i == ActivityInterrupted(t.next)
                             IN Outcome(i.next, i.told \cup (t.told \ {"open"}))
           ELSE t
      support == IF admitted /\ ~oversized THEN "supported" ELSE "capacity_limited"
  IN /\ c.session = activitySession
     /\ ActivitySaved(activity, [u EXCEPT !.next.support = support, !.next.context = activitySession])
     /\ unbroken' = Unbroken(activity, c, n, heard)
     /\ age' = IF t.next.mark # activity.mark \/ oversized THEN 0
               ELSE IF activity.mark = c THEN Upto(age + n, Horizon) ELSE age

\* An observation of an earlier time or continuity: only the flag and the
\* admission are saved.
LateActivity(admitted) ==
  /\ activity.mark # NoMark
  /\ activity' = [activity EXCEPT !.active = TRUE, !.context = activitySession,
                  !.support = IF admitted THEN "supported" ELSE "capacity_limited"]
  /\ activityTold' = {}
  /\ UNCHANGED <<activitySession, activityRows, unbroken, age>>

\* reconcile_sources, with each accepted heartbeat: the driver is gone, or the
\* heartbeat is of another session than the row.
ReconcileActivity(gone, current) ==
  LET ends == activity.active /\ activity.support # "none" /\ (gone \/ activity.context # current)
      i == ActivityInterrupted(activity)
  IN /\ gone \/ current # activitySession
     /\ activitySession' = current
     /\ IF ends THEN /\ ActivitySaved(activity, [i EXCEPT !.next.context = current])
                     /\ unbroken' = <<>> /\ age' = 0
        ELSE activityTold' = {} /\ UNCHANGED <<activity, activityRows, unbroken, age>>

\* rebaseline: an administrator who has seen this revision starts it over.
Rebaseline ==
  LET i == ActivityInterrupted(activity)
  IN /\ activity.active /\ activity.support = "supported"
     /\ ActivitySaved(activity, [i EXCEPT !.next.revision = @ + 1, !.next.active = TRUE])
     /\ unbroken' = <<>> /\ age' = 0
     /\ UNCHANGED activitySession

\* Sessions begin one after the other; an epoch may come back.
NextDetection ==
  \/ \E c \in Continuities, n \in 1..(MaxInterval + 1), reading \in ActivityReadings,
        admitted \in ActivityAdmissible, oversized \in BOOLEAN :
       /\ activity.mark = c \/ activity.revision < MaxRevision
       /\ CollectActivity(c, n, reading, admitted, oversized) /\ UNCHANGED activitySession
  \/ \E admitted \in ActivityAdmissible : LateActivity(admitted)
  \/ \E gone \in BOOLEAN, current \in {activitySession, activitySession + 1} :
       current <= MaxSessions /\ ReconcileActivity(gone, current)
  \/ activity.revision < MaxRevision /\ Rebaseline

-----------------------------------------------------------------------------
(* Properties                                                              *)

Lasted(n, Holds(_)) ==
  /\ Len(unbroken') >= n
  /\ \A i \in (Len(unbroken') - n + 1)..Len(unbroken') : Holds(unbroken'[i])

\* A finding opens only after an unbroken time above the threshold that was
\* frozen when the time began, and resolves only after one below the other.
FindingEarned ==
  [][/\ activity'.episode.open /\ ~activity.episode.open =>
          Lasted(Opening, LAMBDA r : r > activity'.episode.high)
     /\ "resolved" \in activityTold' => Lasted(Recovery, LAMBDA r : r <= activity.episode.low)
    ]_detectionVars

\* What the thresholds are computed from was measured in this continuity and
\* since the last rebaseline, and no moment counts twice.
Unmixed ==
  \A i \in DOMAIN activity.ring :
    /\ activity.ring[i].from <= age
    /\ i > 1 => activity.ring[i - 1].to >= activity.ring[i].from

\* The open row of the findings table is the finding the source still follows.
ActivityRowsAreLive == activityRows = IF activity.episode.open THEN 1 ELSE 0
=============================================================================
