---------------------------- MODULE Reliability ----------------------------
(***************************************************************************)
(* The assessment of one drive by one collector                            *)
(* (server/src/reliability.rs, stored by server/src/reliability_store.rs). *)
(*                                                                         *)
(* Three rules stand for the fifteen of the code: "direct", a condition    *)
(* the drive reports of itself; "counter", a counter of errors that grew   *)
(* since its last reading; and "performance", a service time that stays    *)
(* above the threshold of a baseline of comparable work.  The first two    *)
(* are resolved by two clear observations in a row, the third by lasting   *)
(* recovery.  Another continuity or another drive interrupts them all.     *)
(*                                                                         *)
(* A collection is reduced to what each rule finds in it; one that is not  *)
(* fresh, or names two drives, has nothing a rule can use.  The collector  *)
(* smartctl finds an identity, a condition and a counter, iokit.block the  *)
(* cumulative service time.  A bucket is a band of transfer size and rate. *)
(* Evidence, stamps and summaries are left out, and of the findings table  *)
(* the number of open rows of each rule is kept.                           *)
(***************************************************************************)
EXTENDS Baseline, FiniteSets

CONSTANTS
  Identities,       \* drives that may answer, numbers above 0
  MaxCount,         \* bound: values of the error counter
  Buckets,          \* comparable work, numbers above 0
  ServiceTimes      \* nanoseconds per operation, numbers above 0

ASSUME ReliabilityAssumption ==
  /\ Identities \cup Buckets \cup ServiceTimes \subseteq Nat \ {0}
  /\ MaxCount \in Nat

VARIABLES
  collector,    \* the collector of this source
  drive,        \* reliability_sources: the row of this source
  driveSession, \* the accepted session of the node
  driveRows,    \* reliability_findings: the open rows of each rule
  driveTold,    \* the rules and statuses of the findings the last step saved
  verdicts,     \* history: what the last two observations said to each rule
  reading,      \* history: the last counter that was read, and from what
  worked        \* history: the unbroken intervals, [bucket, value] a tick each

reliabilityVars ==
  <<collector, drive, driveSession, driveRows, driveTold, verdicts, reading, worked>>

DriveRules == {"direct", "counter", "performance"}
Required == 2      \* required_clear_observations
Sources == [session : 1..MaxSessions, generation : 1..MaxEpochs]
NoSource == [session |-> 0, generation |-> 0]
NoCounter == [value |-> 0, epoch |-> 0]
NoWork == [epoch |-> 0, kind |-> "none", bucket |-> 0, value |-> 0]

NewPerformance ==
  [previous |-> 0, ring |-> <<>>, reference |-> 0, bucket |-> 0, elevated |-> 0, recovery |-> 0]
NewDrive ==
  [active |-> TRUE, support |-> "none", context |-> 0, continuity |-> NoSource,
   identity |-> 0, counter |-> NoCounter, performance |-> NewPerformance,
   signals |-> [r \in DriveRules |-> [live |-> FALSE, clears |-> 0]]]

\* What a collection holds.  identity 0: readings that name no drive.
Nothing == [identified |-> FALSE, identity |-> 0, direct |-> "unknown",
            counter |-> NoCounter, work |-> NoWork]

Observations ==
  {Nothing} \cup
  IF collector = "smartctl"
  THEN [identified : {TRUE}, identity : Identities \cup {0},
        direct : {"bad", "clear", "unknown"},
        counter : {NoCounter} \cup [value : 0..MaxCount, epoch : 1..MaxEpochs], work : {NoWork}]
  ELSE [identified : {FALSE}, identity : {0}, direct : {"unknown"}, counter : {NoCounter},
        work : [epoch : 1..MaxEpochs, kind : {"decreased", "thin"}, bucket : {0}, value : {0}]
                 \cup [epoch : 1..MaxEpochs, kind : {"usable"},
                       bucket : Buckets, value : ServiceTimes]]

-----------------------------------------------------------------------------
(* Signals.  a holds the source (next) and the findings told (told).       *)

Live(a, r) == a.next.signals[r].live

\* Mutant of Closed: a finding that ends is forgotten and not told.
ClosedSilently(a, r, status) ==
  [a EXCEPT !.next.signals[r] = [live |-> FALSE, clears |-> 0]]

Closed(a, r, status) ==
  [next |-> [a.next EXCEPT !.signals[r] = [live |-> FALSE, clears |-> 0]],
   told |-> IF Live(a, r) THEN a.told \cup {<<r, status>>} ELSE a.told]

\* Mutant of Interrupted: the counters of another drive are kept.
InterruptedKeepingCounters(a) ==
  [next |-> [a.next EXCEPT
               !.signals = [r \in DriveRules |-> [live |-> FALSE, clears |-> 0]],
               !.performance = NewPerformance, !.active = FALSE],
   told |-> a.told \cup {<<r, "interrupted">> : r \in {q \in DriveRules : Live(a, q)}}]

Interrupted(a) ==
  [next |-> [a.next EXCEPT
               !.signals = [r \in DriveRules |-> [live |-> FALSE, clears |-> 0]],
               !.counter = NoCounter, !.performance = NewPerformance, !.active = FALSE],
   told |-> a.told \cup {<<r, "interrupted">> : r \in {q \in DriveRules : Live(a, q)}}]

Opened(a, r) ==
  [next |-> [a.next EXCEPT !.signals[r] = [live |-> TRUE, clears |-> 0]],
   told |-> a.told \cup {<<r, "open">>}]

\* Mutant of Unjudged: an observation without evidence is no interruption.
UnjudgedKeepingClears(a, r) == a

Unjudged(a, r) == [a EXCEPT !.next.signals[r].clears = 0]

Cleared(a, r) ==
  IF ~Live(a, r) THEN a
  ELSE IF a.next.signals[r].clears + 1 >= Required THEN Closed(a, r, "resolved")
  ELSE [a EXCEPT !.next.signals[r].clears = @ + 1]

Applied(a, r, verdict) ==
  CASE verdict = "bad" -> Opened(a, r)
    [] verdict = "clear" -> Cleared(a, r)
    [] verdict = "unknown" -> Unjudged(a, r)

-----------------------------------------------------------------------------
(* One observation                                                         *)

Joins(a, src) ==
  LET b == IF a.next.continuity \notin {NoSource, src} THEN Interrupted(a) ELSE a
  IN [b EXCEPT !.next.continuity = src]

\* first: no collection was ever observed, so no drive was expected.
Identified(a, first, o) ==
  IF ~o.identified THEN a
  ELSE LET b == IF ~first /\ a.next.identity # o.identity THEN Interrupted(a) ELSE a
       IN [b EXCEPT !.next.identity = o.identity]

\* The first reading is history, and so is one of another epoch or a smaller
\* one; only growth since the reading before is news.
CounterVerdict(s, c) ==
  CASE c = NoCounter \/ s.counter.epoch # c.epoch \/ c.value < s.counter.value -> "unknown"
    [] OTHER -> IF c.value > s.counter.value THEN "bad" ELSE "clear"

Counted(a, c) ==
  LET old == a.next.counter
      reset == NoCounter \notin {c, old} /\ (old.epoch # c.epoch \/ c.value < old.value)
      b == IF reset THEN Closed(a, "counter", "interrupted") ELSE a
      v == CounterVerdict(a.next, c)
  IN Applied([b EXCEPT !.next.counter = IF c = NoCounter THEN @ ELSE c], "counter", v)

\* The work between two endpoints cannot be judged.
Interval(p, n, w) ==
  p.previous = w.epoch /\ w.kind = "usable" /\ n <= MaxInterval

NoInterval(a) ==
  LET p == [a.next.performance EXCEPT !.elevated = 0, !.recovery = 0]
  IN Unjudged([a EXCEPT !.next.performance =
                 IF Live(a, "performance") THEN p ELSE [p EXCEPT !.reference = 0, !.bucket = 0]],
              "performance")

Elevated(a, b, n, w) ==
  LET p == [a.next.performance EXCEPT !.reference = b, !.bucket = w.bucket, !.recovery = 0,
                                      !.elevated = Upto(@ + n, Opening)]
      c == [a EXCEPT !.next.performance = p]
  IN IF Live(a, "performance") \/ p.elevated >= Opening THEN Opened(c, "performance") ELSE c

Recovering(a, b, n, w) ==
  LET m == IF w.value <= Low(b) THEN a.next.performance.recovery + n ELSE 0
  IN IF m >= Recovery
     THEN Closed([a EXCEPT !.next.performance = [@ EXCEPT !.reference = 0, !.bucket = 0,
                                                   !.elevated = 0, !.recovery = 0]],
                 "performance", "resolved")
     ELSE [a EXCEPT !.next.performance = [@ EXCEPT !.elevated = 0, !.recovery = m]]

Train(a, n, w) ==
  [a EXCEPT !.next.performance.ring =
     Trained(@, [from |-> n, to |-> 0, value |-> w.value, bucket |-> w.bucket])]

\* What was not high: training, unless it ended a candidate.
Ordinary(a, n, w) ==
  LET b == [a EXCEPT !.next.performance = [@ EXCEPT !.reference = 0, !.bucket = 0,
                                             !.elevated = 0, !.recovery = 0]]
  IN IF a.next.performance.reference # 0 THEN b ELSE Train(b, n, w)

Judged(a, n, w) ==
  LET p == a.next.performance
      matching == SelectSeq(p.ring, LAMBDA e : e.bucket = w.bucket)
      b == IF p.reference # 0 THEN p.reference
           ELSE IF Ready(matching) THEN Reference(matching) ELSE 0
  IN IF p.bucket \notin {0, w.bucket}
     THEN LET q == [p EXCEPT !.elevated = 0, !.recovery = 0]
          IN [a EXCEPT !.next.performance =
                IF Live(a, "performance") THEN q ELSE [q EXCEPT !.reference = 0, !.bucket = 0]]
     ELSE CASE b = 0 -> Train(a, n, w)
            [] b # 0 /\ w.value > High(b) -> Elevated(a, b, n, w)
            [] b # 0 /\ ~(w.value > High(b)) /\ Live(a, "performance") -> Recovering(a, b, n, w)
            [] OTHER -> Ordinary(a, n, w)

\* observe_performance, n ticks after the observation before.
Performed(a, n, w) ==
  LET p == [a.next.performance EXCEPT !.ring = Pruned(@, n), !.previous = w.epoch]
      old == a.next.performance.previous
      reset == old # 0 /\ w.epoch # 0 /\ (old # w.epoch \/ w.kind = "decreased")
      b == [a EXCEPT !.next.performance =
              IF reset THEN [p EXCEPT !.ring = <<>>, !.reference = 0, !.bucket = 0] ELSE p]
      c == IF reset THEN Closed(b, "performance", "interrupted") ELSE b
  IN IF Interval(a.next.performance, n, w) THEN Judged(c, n, w) ELSE NoInterval(c)

DriveObserved(s, src, n, o) ==
  LET first == s.continuity = NoSource
      a == Identified(Joins([next |-> s, told |-> {}], src), first, o)
      b == Applied([a EXCEPT !.next.active = TRUE], "direct", o.direct)
  IN Performed(Counted(b, o.counter), n, o.work)

-----------------------------------------------------------------------------
(* The steps of the store                                                  *)

InitReliability ==
  /\ collector \in {"smartctl", "iokit.block"}
  /\ drive = NewDrive /\ driveSession = 1
  /\ driveRows = [r \in DriveRules |-> 0] /\ driveTold = {}
  /\ verdicts = [r \in DriveRules |-> <<>>]
  /\ reading = [counter |-> NoCounter, identity |-> 0, source |-> NoSource]
  /\ worked = <<>>

\* The findings told are saved: a new one inserts a row, an end closes it.
DriveSaved(a) ==
  /\ drive' = a.next
  /\ driveTold' = a.told
  /\ driveRows' =
       [r \in DriveRules |->
          LET ended == {<<r, "resolved">>, <<r, "interrupted">>} \cap a.told # {}
          IN driveRows[r] + (IF Live(a, r) /\ (ended \/ ~drive.signals[r].live) THEN 1 ELSE 0)
                          - (IF drive.signals[r].live /\ ended THEN 1 ELSE 0)]

DriveAdmissible ==
  IF drive.support = "supported" /\ drive.active THEN {TRUE} ELSE BOOLEAN

\* observe_collection of a newer collection, or of one from another source.
CollectDrive(src, n, o, oversized) ==
  LET a == DriveObserved([drive EXCEPT !.active = TRUE], src, n, o)
      b == Interrupted(a)
      same == drive.continuity = src /\ drive.identity = a.next.identity
      Heard(r, v) == IF same THEN LastOf(Append(verdicts[r], v), 2) ELSE <<v>>
      judged == drive.continuity = src /\ Interval(drive.performance, n, o.work)
  IN /\ src.session = driveSession
     /\ DriveSaved(IF oversized
                   THEN [next |-> [NewDrive EXCEPT !.support = "capacity_limited",
                                                   !.context = driveSession],
                         told |-> b.told \ {<<r, "open">> : r \in DriveRules}]
                   ELSE [a EXCEPT !.next.support = "supported", !.next.context = driveSession])
     /\ verdicts' = [verdicts EXCEPT
                       !["direct"] = Heard("direct", o.direct),
                       !["counter"] = Heard("counter", CounterVerdict(drive, o.counter))]
     /\ reading' = IF o.counter = NoCounter THEN reading
                   ELSE [counter |-> o.counter, identity |-> a.next.identity, source |-> src]
     /\ worked' = IF ~judged THEN <<>>
                  ELSE LastOf(worked \o [i \in 1..n |-> [bucket |-> o.work.bucket,
                                                         value |-> o.work.value]],
                              Max({Opening, Recovery}))

\* No room in the table of active sources: nothing is observed.
TurnAway ==
  /\ FALSE \in DriveAdmissible
  /\ DriveSaved(LET b == Interrupted([next |-> drive, told |-> {}])
                IN [b EXCEPT !.next.support = "capacity_limited", !.next.context = driveSession])
  /\ verdicts' = [r \in DriveRules |-> <<>>] /\ worked' = <<>>
  /\ UNCHANGED <<collector, driveSession, reading>>

\* An observation that is not newer than the last: only admission is saved.
LateDrive ==
  /\ drive.continuity # NoSource /\ drive.continuity.session = driveSession
  /\ drive' = [drive EXCEPT !.active = TRUE, !.support = "supported", !.context = driveSession]
  /\ driveTold' = {}
  /\ UNCHANGED <<collector, driveSession, driveRows, verdicts, reading, worked>>

\* reconcile_sources, with each accepted heartbeat: the drive is gone, or the
\* heartbeat is of another session than the row, which keeps its own.
ReconcileDrive(gone, current) ==
  LET ends == drive.active /\ drive.support # "none" /\ (gone \/ drive.context # current)
  IN /\ gone \/ current # driveSession
     /\ driveSession' = current
     /\ IF ends THEN /\ DriveSaved(Interrupted([next |-> drive, told |-> {}]))
                     /\ verdicts' = [r \in DriveRules |-> <<>>] /\ worked' = <<>>
        ELSE driveTold' = {} /\ UNCHANGED <<drive, driveRows, verdicts, worked>>
     /\ UNCHANGED <<collector, reading>>

NextReliability ==
  \/ \E src \in Sources, n \in 1..(MaxInterval + 1), o \in Observations, oversized \in BOOLEAN :
       /\ collector = "smartctl" => n = 1
       /\ CollectDrive(src, n, o, oversized) /\ UNCHANGED <<collector, driveSession>>
  \/ TurnAway
  \/ LateDrive
  \/ \E gone \in BOOLEAN, current \in {driveSession, driveSession + 1} :
       current <= MaxSessions /\ ReconcileDrive(gone, current)

-----------------------------------------------------------------------------
(* Properties                                                              *)

LastWork(n, b, Holds(_)) ==
  /\ Len(worked') >= n
  /\ \A i \in (Len(worked') - n + 1)..Len(worked') :
       worked'[i].bucket = b /\ Holds(worked'[i].value)

\* A concern about a drive goes away as resolved only after two clear
\* observations in a row of that drive in one continuity; one about service
\* times needs an unbroken time of comparable work, and so does its opening.
RecoveryEarned ==
  [][/\ \A r \in {"direct", "counter"} :
          <<r, "resolved">> \in driveTold' => verdicts'[r] = <<"clear", "clear">>
     /\ <<"performance", "resolved">> \in driveTold' =>
          LastWork(Recovery, drive.performance.bucket,
                   LAMBDA v : v <= Low(drive.performance.reference))
     /\ Live([next |-> drive'], "performance") /\ ~Live([next |-> drive], "performance") =>
          LastWork(Opening, drive'.performance.bucket,
                   LAMBDA v : v > High(drive'.performance.reference))
    ]_reliabilityVars

\* Old errors are never reported as new ones: a counter is a concern when it
\* grew since an earlier reading of the same drive, source and epoch.
NewErrorsOnly ==
  [][driveTold' \cap {<<"counter", "open">>} # {} =>
       /\ reading.identity = reading'.identity /\ reading.source = reading'.source
       /\ reading.counter.epoch = reading'.counter.epoch
       /\ reading.counter.value < reading'.counter.value]_reliabilityVars

\* The open rows of the findings table are the findings the source follows.
DriveRowsAreLive ==
  \A r \in DriveRules : driveRows[r] = IF drive.signals[r].live THEN 1 ELSE 0
=============================================================================
