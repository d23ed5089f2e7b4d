--------------------------- MODULE SecurityRules ---------------------------
(***************************************************************************)
(* The filesystem rules of the server (server/src/security_rules.rs).      *)
(*                                                                         *)
(* Three kinds of rule, one of each: an activity rule, open after a run of *)
(* intervals at a high rate and resolved after a run of others; the health *)
(* of an NFS mount, open at once and resolved after two observations that  *)
(* find nothing; and the loss of APFS snapshots, which nothing resolves.   *)
(* A finding is told to the attention episodes whenever it is saved.       *)
(* What was not read is no evidence of recovery by the documents, but it   *)
(* counts as such here: see NoRecoveryUnread.                              *)
(*                                                                         *)
(* The counter of the activity rule is reduced to how much it grew: what   *)
(* was counted since it was last stored, in a row of ticks.  The thresholds*)
(* of the nine activity rules differ only in the counters they look at.    *)
(***************************************************************************)
EXTENDS Integers, FiniteSets, Sequences

CONSTANTS
  OpenIntervals,   \* open_intervals of the activity rule
  CloseIntervals,  \* close_intervals
  Threshold,       \* what a tick must count to qualify
  MaxGap,          \* ticks two collections may be apart to be compared
  MaxRuleClocks,       \* bound: clocks of the collector
  MaxRuleEpochs,       \* bound: counter epochs
  MaxGrowth,       \* bound: what a tick may count
  Features,        \* what can ail a mount
  MaxSnapshots     \* bound: snapshots of a volume

ASSUME SecurityAssumption ==
  /\ {OpenIntervals, CloseIntervals, Threshold, MaxGap, MaxRuleClocks, MaxRuleEpochs} \subseteq Nat \ {0}
  /\ {MaxGrowth, MaxSnapshots} \subseteq Nat

VARIABLES
  track,     \* security_rule_sources: the activity rule and what it compares
  mount,     \* the mount rule, with the features last reported
  volume,    \* the snapshot rule, with the count last reported
  ruleRows,  \* security_rule_findings: the open rows of each rule
  alarms,    \* attention: the rules whose episode is open
  unlisted,  \* history: the rules last saved as open that found no room for one
  runs       \* history: what the last observations said to each rule

securityVars == <<track, mount, volume, ruleRows, alarms, unlisted, runs>>

SecurityRule == {"activity", "mount", "snapshots"}
CloseMount == 2      \* close_intervals of the mount rule

\* What an observation says to a rule; "silent": it read nothing the rule looks at.
RuleVerdicts == {"open", "clear", "silent"}

LongestRun == IF OpenIntervals > CloseIntervals THEN OpenIntervals ELSE CloseIntervals

\* epoch 0: no counter is stored.  owed: counted since it was stored, while
\* collections without it were taken.
NewTrack == [clock |-> 0, epoch |-> 0, owed |-> 0, hits |-> 0, clears |-> 0, live |-> FALSE]
CounterReadings ==
  [kind : {"absent"}, epoch : {0}, growth : 0..MaxGrowth]
    \cup [kind : {"read", "decreased"}, epoch : 1..MaxRuleEpochs, growth : 0..MaxGrowth]

Capped(n, cap) == IF n > cap THEN cap ELSE n

\* observe_condition: an open finding without an episode gets one where MAX_EPISODES
\* leaves room; the table is shared with every other source.
Told(r, was, is, active) ==
  \/ is /\ active /\ alarms' = alarms \cup {r} /\ unlisted' = unlisted \ {r}
  \/ is /\ active /\ r \notin alarms /\ unlisted' = unlisted \cup {r} /\ UNCHANGED alarms
  \/ was /\ ~is /\ alarms' = alarms \ {r} /\ unlisted' = unlisted \ {r}
  \/ ~(is /\ active) /\ ~(was /\ ~is) /\ UNCHANGED <<alarms, unlisted>>

\* persist_finding: the row follows the finding.  It is saved, and told, when an
\* observation is active and when the finding ends.
Persisted(r, was, is, active) ==
  /\ ruleRows' = [ruleRows EXCEPT ![r] = @ + (IF is /\ ~was THEN 1 ELSE 0)
                                           - (IF was /\ ~is THEN 1 ELSE 0)]
  /\ Told(r, was, is, active)

Heard(r, said, most) ==
  LET longer == Append(runs[r], said)
  IN runs' = [runs EXCEPT ![r] = IF Len(longer) > most THEN Tail(longer) ELSE longer]

-----------------------------------------------------------------------------
(* Activity                                                                *)

\* rate: a counter of another epoch, a smaller one and one that was not stored or
\* not read give none.
Rated(t, c) == c.kind = "read" /\ t.epoch = c.epoch

\* A counter without a rate counts as one that stood still.
Qualifies(t, n, c) == Rated(t, c) /\ t.owed + c.growth * n >= Threshold * n

Said(t, n, c) ==
  CASE Qualifies(t, n, c) -> "open" [] ~Rated(t, c) -> "silent" [] OTHER -> "clear"

\* update_counters: a counter that is absent stays as it was stored.
Stored(t, clock, n, c) ==
  [t EXCEPT !.clock = clock,
            !.epoch = IF c.kind = "absent" THEN @ ELSE c.epoch,
            !.owed = IF c.kind = "absent" /\ t.epoch # 0
                     THEN Capped(@ + c.growth * n, Threshold * MaxGap) ELSE 0]

\* Mutant of RuleEvaluated: an interval at a low rate does not end the run.
RuleEvaluatedKeepingHits(t, qualifies) ==
  LET hits == IF qualifies THEN Capped(t.hits + 1, OpenIntervals) ELSE t.hits
      clears == IF qualifies THEN 0 ELSE Capped(t.clears + 1, CloseIntervals)
  IN [t EXCEPT !.hits = hits, !.clears = clears,
               !.live = IF @ THEN qualifies \/ clears < CloseIntervals ELSE hits >= OpenIntervals]

\* evaluate_rules
RuleEvaluated(t, qualifies) ==
  LET hits == IF qualifies THEN Capped(t.hits + 1, OpenIntervals) ELSE 0
      clears == IF qualifies THEN 0 ELSE Capped(t.clears + 1, CloseIntervals)
  IN [t EXCEPT !.hits = hits, !.clears = clears,
               !.live = IF @ THEN qualifies \/ clears < CloseIntervals ELSE hits >= OpenIntervals]

\* A successful collection, n ticks after the one before.  Only one of the
\* same clock that came soon enough is an interval; a gap ends no run.
ObserveActivity(clock, n, c) ==
  LET compared == track.clock = clock /\ n <= MaxGap
      active == Qualifies(track, n, c)
      stored == Stored(track, clock, n, c)
  IN /\ track' = IF compared THEN RuleEvaluated(stored, active) ELSE stored
     /\ Persisted("activity", track.live, track'.live, compared /\ active)
     /\ IF compared THEN Heard("activity", Said(track, n, c), LongestRun)
        ELSE UNCHANGED runs
     /\ UNCHANGED <<mount, volume>>

-----------------------------------------------------------------------------
(* Mounts and volumes                                                      *)

\* observe_mount.  A feature that is not reported stays as it was reported, and a
\* collection of any status counts, one that reports nothing as well.
ObserveMount(ill, well) ==
  LET now == (mount.ill \cup ill) \ well
      clears == IF now # {} THEN 0 ELSE Capped(mount.clears + 1, CloseMount)
  IN /\ ill \cap well = {}
     /\ mount' = [ill |-> now, clears |-> clears,
                  live |-> now # {} \/ (mount.live /\ clears < CloseMount)]
     /\ Persisted("mount", mount.live, mount'.live, now # {})
     /\ Heard("mount", CASE now # {} -> "open" [] ill \cup well = {} -> "silent" [] OTHER -> "clear",
              CloseMount)
     /\ UNCHANGED <<track, volume>>

\* observe_snapshot_count; a collection without a count changes nothing.
ObserveSnapshots(count) ==
  /\ volume' = [known |-> TRUE, count |-> count,
                live |-> volume.live \/ (volume.known /\ count < volume.count)]
  /\ Persisted("snapshots", volume.live, volume'.live, volume.known /\ count < volume.count)
  /\ UNCHANGED <<track, mount, runs>>

InitSecurity ==
  /\ track = NewTrack
  /\ mount = [ill |-> {}, clears |-> 0, live |-> FALSE]
  /\ volume = [known |-> FALSE, count |-> 0, live |-> FALSE]
  /\ ruleRows = [r \in SecurityRule |-> 0]
  /\ alarms = {} /\ unlisted = {}
  /\ runs = [r \in SecurityRule |-> <<>>]

NextSecurity ==
  \/ \E clock \in 1..MaxRuleClocks, n \in 1..(MaxGap + 1), c \in CounterReadings :
       ObserveActivity(clock, n, c)
  \/ \E ill, well \in SUBSET Features : ObserveMount(ill, well)
  \/ \E count \in 0..MaxSnapshots : ObserveSnapshots(count)

-----------------------------------------------------------------------------
(* Properties                                                              *)

AllLast(r, n, said) ==
  /\ Len(runs'[r]) >= n
  /\ \A i \in (Len(runs'[r]) - n + 1)..Len(runs'[r]) : runs'[r][i] \in said

\* A rule raises its alarm after a whole run of intervals that qualify, and the
\* alarm ends after a whole run of observations that do not, whether they read
\* anything or not; that of a mount only when the first of them reported something.
RuleOpensOnRun ==
  [][/\ track'.live /\ ~track.live => AllLast("activity", OpenIntervals, {"open"})
     /\ track.live /\ ~track'.live => AllLast("activity", CloseIntervals, {"clear", "silent"})
     /\ mount.live /\ ~mount'.live => /\ AllLast("mount", CloseMount, {"clear", "silent"})
                                      /\ runs'["mount"][Len(runs'["mount"]) - 1] = "clear"
    ]_securityVars

\* "Missing observations never establish recovery" (attention.rs 1), and "missing, failed,
\* stale, or offline-owner observations keep an open concern unresolved"
\* (disconnection-alerts.md 70-71): every observation among those that end an alarm
\* reported something.  The code breaks both parts: a counter without a rate counts as
\* one that stood still, and a mount collection that reports nothing as one that is clear.
NoRecoveryUnread ==
  [][/\ track.live /\ ~track'.live => AllLast("activity", CloseIntervals, {"clear"})
     /\ mount.live /\ ~mount'.live => AllLast("mount", CloseMount, {"clear"})
    ]_securityVars

\* The open row of a rule is the finding it follows, and so is its episode, unless
\* there was no room for one when the finding was last saved as open.
RuleRowsAreLive ==
  LET live == [r \in SecurityRule |-> CASE r = "activity" -> track.live
                                        [] r = "mount" -> mount.live
                                        [] r = "snapshots" -> volume.live]
      findings == {r \in SecurityRule : live[r]}
  IN /\ alarms = findings \ unlisted /\ unlisted \subseteq findings
     /\ \A r \in SecurityRule : ruleRows[r] = IF live[r] THEN 1 ELSE 0
=============================================================================
