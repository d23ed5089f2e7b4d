-------------------------- MODULE AnalysersProofs --------------------------
(***************************************************************************)
(* Proofs about the analysers, for any devices, speeds, rates, drives,     *)
(* mounts and limits.                                                      *)
(*                                                                         *)
(* Each analyser counts how long something has been so, and acts on the    *)
(* count.  Its invariant says of every count what the observations were    *)
(* that it stands for; so a verdict rests on them.                         *)
(***************************************************************************)
EXTENDS Analysers, FiniteSetTheorems, TLAPS

-----------------------------------------------------------------------------
(* The ends of rows.                                                       *)

\* The last n elements of a row are there, and each is in S.
Ends(s, n, S) == n <= Len(s) /\ \A i \in (Len(s) - n + 1)..Len(s) : s[i] \in S

\* A row with one more element, cut to the last most.
Longer(s, x, most) ==
  LET longer == Append(s, x) IN IF Len(longer) > most THEN Tail(longer) ELSE longer

\* One more element of S makes the end longer by one.
LEMMA LongerEnds ==
  ASSUME NEW T, NEW s \in Seq(T), NEW x \in T, NEW most \in Nat \ {0}, NEW S,
         NEW n \in Nat, Ends(s, n, S), x \in S, NEW m \in Nat, m <= n + 1, m <= most
  PROVE  Longer(s, x, most) \in Seq(T) /\ Ends(Longer(s, x, most), m, S)
<1> DEFINE longer == Append(s, x)
<1>1. /\ longer \in Seq(T) /\ Len(longer) = Len(s) + 1 /\ longer[Len(s) + 1] = x
      /\ \A i \in 1..Len(s) : longer[i] = s[i]
      /\ Len(s) \in Nat
  OBVIOUS
<1>2. n <= Len(s) /\ \A i \in (Len(s) - n + 1)..Len(s) : s[i] \in S
  BY DEF Ends
<1> HIDE DEF longer
<1>3. \A i \in (Len(longer) - m + 1)..Len(longer) : longer[i] \in S
  <2>1. SUFFICES ASSUME NEW i \in (Len(longer) - m + 1)..Len(longer) PROVE longer[i] \in S
    OBVIOUS
  <2>2. CASE i = Len(s) + 1
    BY <1>1, <2>2
  <2>3. CASE i # Len(s) + 1
    <3>1. i \in (Len(s) - n + 1)..Len(s) /\ i \in 1..Len(s)
      BY <1>1, <1>2, <2>3
    <3> QED
      BY <1>1, <1>2, <3>1
  <2> QED
    BY <2>2, <2>3
<1>4. CASE Len(longer) > most
  <2> DEFINE t == Tail(longer)
  <2>1. t \in Seq(T) /\ Len(t) = Len(s) /\ \A i \in 1..Len(t) : t[i] = longer[i + 1]
    BY <1>1
  <2> HIDE DEF t
  <2>2. ASSUME NEW i \in (Len(t) - m + 1)..Len(t) PROVE t[i] \in S
    <3>1. i \in 1..Len(t) /\ i + 1 \in (Len(longer) - m + 1)..Len(longer)
      BY <1>1, <1>4, <2>1
    <3> QED
      BY <1>3, <2>1, <3>1
  <2>3. m <= Len(t)
    BY <1>1, <1>4, <2>1
  <2> QED
    BY <1>4, <2>1, <2>2, <2>3 DEF Ends, Longer, t, longer
<1>5. CASE ~(Len(longer) > most)
  <2>1. m <= Len(longer)
    BY <1>1, <1>2
  <2> QED
    BY <1>1, <1>3, <1>5, <2>1 DEF Ends, Longer, longer
<1> QED
  BY <1>4, <1>5

-----------------------------------------------------------------------------
(* The filesystem rules.                                                   *)

\* What the rules keep of the counters of a volume, of a mount and of its snapshots.
Tracks == [clock : Nat, epoch : Nat, owed : Nat, hits : 0..OpenIntervals,
           clears : 0..CloseIntervals, live : BOOLEAN]
Mounts == [ill : SUBSET Features, clears : 0..CloseMount, live : BOOLEAN]
Volumes == [known : BOOLEAN, count : Nat, live : BOOLEAN]

\* The states that the rules can be in.
RulesType ==
  /\ track \in Tracks /\ mount \in Mounts /\ volume \in Volumes
  /\ runs \in [SecurityRule -> Seq(RuleVerdicts)]
  /\ ruleRows \in [SecurityRule -> {0, 1}]
  /\ alarms \in SUBSET SecurityRule /\ unlisted \in SUBSET SecurityRule

\* What counts towards recovery.
Clearing == {"clear", "silent"}

\* A count stands for the last so many observations.
RunsCounted ==
  /\ Ends(runs["activity"], track.hits, {"open"})
  /\ Ends(runs["activity"], track.clears, Clearing)
  /\ Ends(runs["mount"], mount.clears, Clearing)

\* A mount that is an open finding ails until a collection reports that it does not.
MountHeard ==
  mount.live => \/ mount.clears = 0 /\ mount.ill # {}
                \/ mount.clears = 1 /\ Ends(runs["mount"], 1, {"clear"})

\* What the rules have counted is in their runs, and their open rows are live.
RulesInv == RulesType /\ RunsCounted /\ MountHeard /\ RuleRowsAreLive

\* Whether a rule is shown: its finding has an episode, unless it found no room.
Shown(r, is) == (r \in alarms <=> (is /\ r \notin unlisted)) /\ (r \in unlisted => is)

\* A finding, its row and its episode begin and end together, but for the room.
LEMMA PersistedAgrees ==
  ASSUME RulesType, NEW r \in SecurityRule, NEW was \in BOOLEAN, NEW is \in BOOLEAN,
         NEW active \in BOOLEAN, is /\ ~was => active,
         Persisted(r, was, is, active), Shown(r, was), ruleRows[r] = IF was THEN 1 ELSE 0
  PROVE  /\ ruleRows' \in [SecurityRule -> {0, 1}]
         /\ alarms' \in SUBSET SecurityRule /\ unlisted' \in SUBSET SecurityRule
         /\ (r \in alarms' <=> (is /\ r \notin unlisted')) /\ (r \in unlisted' => is)
         /\ ruleRows'[r] = IF is THEN 1 ELSE 0
         /\ \A q \in SecurityRule : q # r => /\ ruleRows'[q] = ruleRows[q]
                                             /\ (q \in alarms' <=> q \in alarms)
                                             /\ (q \in unlisted' <=> q \in unlisted)
<1>1. ruleRows' = [ruleRows EXCEPT ![r] = @ + (IF is /\ ~was THEN 1 ELSE 0)
                                            - (IF was /\ ~is THEN 1 ELSE 0)]
  BY DEF Persisted
<1>2. ruleRows'[r] = IF is THEN 1 ELSE 0
  BY <1>1 DEF RulesType
<1>3. \A q \in SecurityRule : q # r => ruleRows'[q] = ruleRows[q]
  BY <1>1 DEF RulesType
<1>4. ruleRows' \in [SecurityRule -> {0, 1}]
  BY <1>1, <1>2, <1>3 DEF RulesType
<1>5. \/ is /\ active /\ alarms' = alarms \cup {r} /\ unlisted' = unlisted \ {r}
      \/ is /\ active /\ r \notin alarms /\ unlisted' = unlisted \cup {r} /\ alarms' = alarms
      \/ was /\ ~is /\ alarms' = alarms \ {r} /\ unlisted' = unlisted \ {r}
      \/ ~(is /\ active) /\ ~(was /\ ~is) /\ alarms' = alarms /\ unlisted' = unlisted
  BY DEF Persisted, Told
<1>6. /\ alarms' \in SUBSET SecurityRule /\ unlisted' \in SUBSET SecurityRule
      /\ \A q \in SecurityRule : q # r => /\ (q \in alarms' <=> q \in alarms)
                                          /\ (q \in unlisted' <=> q \in unlisted)
  BY <1>5 DEF RulesType
<1>7. (r \in alarms' <=> (is /\ r \notin unlisted')) /\ (r \in unlisted' => is)
  BY <1>5 DEF Shown
<1> QED
  BY <1>2, <1>3, <1>4, <1>6, <1>7

\* A run is kept to its length.
LEMMA HeardIs ==
  ASSUME RulesType, NEW r \in SecurityRule, NEW said \in RuleVerdicts, NEW most \in Nat,
         Heard(r, said, most)
  PROVE  /\ runs'[r] = Longer(runs[r], said, most)
         /\ \A q \in SecurityRule : q # r => runs'[q] = runs[q]
BY DEF Heard, Longer, RulesType

\* Zero elements are always of a set.
LEMMA EmptyEnd ==
  ASSUME NEW T, NEW s \in Seq(T), NEW S
  PROVE  Ends(s, 0, S)
BY DEF Ends

\* The next evaluation of the activity rule counts one more of what was said.
LEMMA ActivityCounted ==
  ASSUME RulesType, NEW t \in Tracks, t.hits = track.hits, t.clears = track.clears,
         Ends(runs["activity"], track.hits, {"open"}),
         Ends(runs["activity"], track.clears, Clearing),
         NEW active \in BOOLEAN, NEW said \in RuleVerdicts, active <=> said = "open",
         Heard("activity", said, LongestRun)
  PROVE  LET u == RuleEvaluated(t, active)
         IN /\ u \in Tracks
            /\ Ends(runs'["activity"], u.hits, {"open"})
            /\ Ends(runs'["activity"], u.clears, Clearing)
            /\ runs' \in [SecurityRule -> Seq(RuleVerdicts)]
            /\ runs'["mount"] = runs["mount"]
            /\ u.live /\ ~t.live => u.hits = OpenIntervals /\ active
            /\ t.live /\ ~u.live => u.clears = CloseIntervals
<1> DEFINE most == LongestRun
           s == runs["activity"]
           hits == IF active THEN Capped(t.hits + 1, OpenIntervals) ELSE 0
           clears == IF active THEN 0 ELSE Capped(t.clears + 1, CloseIntervals)
           live == IF t.live THEN active \/ clears < CloseIntervals ELSE hits >= OpenIntervals
           u == RuleEvaluated(t, active)
<1>1. OpenIntervals \in Nat \ {0} /\ CloseIntervals \in Nat \ {0}
  BY SecurityAssumption
<1>2. most \in Nat \ {0} /\ OpenIntervals <= most /\ CloseIntervals <= most
  BY <1>1 DEF LongestRun
<1>3. s \in Seq(RuleVerdicts) /\ "activity" \in SecurityRule /\ "mount" \in SecurityRule
  BY DEF RulesType, SecurityRule
<1>4. /\ runs'["activity"] = Longer(s, said, most)
      /\ runs'["mount"] = runs["mount"]
  BY <1>2, <1>3, HeardIs
<1>5. /\ t.hits \in 0..OpenIntervals /\ t.clears \in 0..CloseIntervals /\ t.live \in BOOLEAN
  BY DEF Tracks
<1>6. hits \in 0..OpenIntervals /\ clears \in 0..CloseIntervals /\ live \in BOOLEAN
  BY <1>1, <1>5 DEF Capped
<1>7. u = [t EXCEPT !.hits = hits, !.clears = clears, !.live = live]
  BY DEF RuleEvaluated, Tracks
<1> HIDE DEF most, s, u
<1>8. Longer(s, said, most) \in Seq(RuleVerdicts)
  BY SMTT(30), <1>2, <1>3, EmptyEnd, LongerEnds
<1>9. Ends(Longer(s, said, most), hits, {"open"})
  <2>1. CASE active
    <3>1. /\ t.hits \in Nat /\ hits \in Nat /\ hits <= t.hits + 1 /\ hits <= most
          /\ Ends(s, t.hits, {"open"}) /\ said \in {"open"}
      BY <1>1, <1>2, <1>5, <1>6, <2>1 DEF Capped, s
    <3> HIDE DEF hits
    <3> QED
      BY <1>2, <1>3, <3>1, LongerEnds
  <2>2. CASE ~active
    BY <1>8, <2>2, EmptyEnd
  <2> QED
    BY <2>1, <2>2
<1>10. Ends(Longer(s, said, most), clears, Clearing)
  <2>1. CASE ~active
    <3>1. said \in Clearing
      BY <2>1 DEF RuleVerdicts, Clearing
    <3>2. /\ t.clears \in Nat /\ clears \in Nat /\ clears <= t.clears + 1 /\ clears <= most
          /\ Ends(s, t.clears, Clearing)
      BY <1>1, <1>2, <1>5, <1>6, <2>1 DEF Capped, s
    <3> HIDE DEF clears
    <3> QED
      BY <1>2, <1>3, <3>1, <3>2, LongerEnds
  <2>2. CASE active
    BY <1>8, <2>2, EmptyEnd
  <2> QED
    BY <2>1, <2>2
<1>11. live /\ ~t.live => hits = OpenIntervals /\ active
  BY <1>1, <1>5, <1>6
<1>12. t.live /\ ~live => clears = CloseIntervals
  BY <1>1, <1>5, <1>6
<1> HIDE DEF hits, clears, live
<1>13. u \in Tracks /\ u.hits = hits /\ u.clears = clears /\ u.live = live
  BY <1>6, <1>7 DEF Tracks
<1>14. runs' \in [SecurityRule -> Seq(RuleVerdicts)]
  <2>1. runs' = [runs EXCEPT !["activity"] = runs'["activity"]]
    BY <1>3 DEF Heard, RulesType
  <2> QED
    BY <1>3, <1>4, <1>8, <2>1 DEF RulesType
<1> QED
  BY <1>4, <1>9, <1>10, <1>11, <1>12, <1>13, <1>14 DEF u

\* A collection without a counter keeps what was counted for the next one.
LEMMA StoredKeeps ==
  ASSUME NEW t \in Tracks, NEW clock \in 1..MaxRuleClocks, NEW n \in 1..(MaxGap + 1),
         NEW c \in CounterReadings
  PROVE  LET u == Stored(t, clock, n, c)
         IN /\ u \in Tracks /\ u.hits = t.hits /\ u.clears = t.clears /\ u.live = t.live
<1>1. /\ MaxRuleClocks \in Nat /\ MaxGap \in Nat /\ Threshold \in Nat /\ MaxGrowth \in Nat
      /\ MaxRuleEpochs \in Nat
  BY SecurityAssumption
<1>2. c.growth \in Nat /\ c.epoch \in Nat /\ n \in Nat /\ clock \in Nat
  BY <1>1 DEF CounterReadings
<1>3. c.growth * n \in Nat /\ Threshold * MaxGap \in Nat
  BY <1>1, <1>2
<1>4. t.owed \in Nat /\ t.epoch \in Nat
  BY DEF Tracks
<1>5. Capped(t.owed + c.growth * n, Threshold * MaxGap) \in Nat
  BY <1>3, <1>4 DEF Capped
<1> QED
  BY <1>2, <1>4, <1>5 DEF Stored, Tracks

\* A successful collection.
LEMMA ActivityStep ==
  ASSUME RulesInv, NEW clock \in 1..MaxRuleClocks, NEW n \in 1..(MaxGap + 1),
         NEW c \in CounterReadings, ObserveActivity(clock, n, c)
  PROVE  /\ RulesInv'
         /\ track'.live /\ ~track.live => Ends(runs'["activity"], OpenIntervals, {"open"})
         /\ track.live /\ ~track'.live => Ends(runs'["activity"], CloseIntervals, Clearing)
<1> DEFINE compared == track.clock = clock /\ n <= MaxGap
           active == Qualifies(track, n, c)
           said == Said(track, n, c)
           stored == Stored(track, clock, n, c)
<1>1. /\ track' = IF compared THEN RuleEvaluated(stored, active) ELSE stored
      /\ Persisted("activity", track.live, track'.live, compared /\ active)
      /\ IF compared THEN Heard("activity", said, LongestRun)
         ELSE runs' = runs
      /\ mount' = mount /\ volume' = volume
  BY DEF ObserveActivity
<1>2. active \in BOOLEAN /\ said \in RuleVerdicts /\ (active <=> said = "open")
  BY DEF Qualifies, Said, Rated, RuleVerdicts
<1>3. /\ RulesType /\ track \in Tracks /\ Ends(runs["activity"], track.hits, {"open"})
      /\ Ends(runs["activity"], track.clears, Clearing) /\ Ends(runs["mount"], mount.clears, Clearing)
  BY DEF RulesInv, RulesType, RunsCounted
<1>4. /\ stored \in Tracks /\ stored.hits = track.hits /\ stored.clears = track.clears
      /\ stored.live = track.live
  BY <1>3, StoredKeeps
<1> HIDE DEF compared, active, said, stored
<1>5. /\ track' \in Tracks
      /\ Ends(runs'["activity"], track'.hits, {"open"})
      /\ Ends(runs'["activity"], track'.clears, Clearing)
      /\ runs' \in [SecurityRule -> Seq(RuleVerdicts)] /\ runs'["mount"] = runs["mount"]
      /\ track'.live /\ ~track.live => track'.hits = OpenIntervals /\ compared /\ active
      /\ track.live /\ ~track'.live => track'.clears = CloseIntervals
  <2>1. CASE compared
    <3>1. /\ track' = RuleEvaluated(stored, active)
          /\ Heard("activity", said, LongestRun)
      BY <1>1, <2>1
    <3> QED
      BY <1>2, <1>3, <1>4, <2>1, <3>1, ActivityCounted
  <2>2. CASE ~compared
    BY <1>1, <1>3, <1>4, <2>2 DEF RulesType
  <2> QED
    BY <2>1, <2>2
<1>6. "activity" \in SecurityRule /\ track.live \in BOOLEAN /\ track'.live \in BOOLEAN
  BY <1>3, <1>5 DEF SecurityRule, Tracks
<1>7. Shown("activity", track.live) /\ ruleRows["activity"] = IF track.live THEN 1 ELSE 0
  BY <1>6 DEF RulesInv, RuleRowsAreLive, Shown
<1> DEFINE told == compared /\ active
<1>8. told \in BOOLEAN /\ (track'.live /\ ~track.live => told)
      /\ Persisted("activity", track.live, track'.live, told)
  BY <1>1, <1>5
<1> HIDE DEF told
<1>9. /\ ruleRows' \in [SecurityRule -> {0, 1}]
      /\ alarms' \in SUBSET SecurityRule /\ unlisted' \in SUBSET SecurityRule
      /\ ("activity" \in alarms' <=> (track'.live /\ "activity" \notin unlisted'))
      /\ ("activity" \in unlisted' => track'.live)
      /\ ruleRows'["activity"] = IF track'.live THEN 1 ELSE 0
      /\ \A q \in SecurityRule : q # "activity" => /\ ruleRows'[q] = ruleRows[q]
                                                   /\ (q \in alarms' <=> q \in alarms)
                                                   /\ (q \in unlisted' <=> q \in unlisted)
  BY <1>3, <1>6, <1>7, <1>8, PersistedAgrees
<1>10. RulesType'
  BY <1>1, <1>3, <1>5, <1>9 DEF RulesType
<1>11. RunsCounted'
  BY <1>1, <1>3, <1>5 DEF RunsCounted
<1>12. MountHeard'
  <2>1. mount' = mount /\ runs'["mount"] = runs["mount"] /\ MountHeard
    BY <1>1, <1>5 DEF RulesInv
  <2> QED
    BY <2>1 DEF MountHeard
<1>13. RuleRowsAreLive'
  <2>1. /\ "mount" \in alarms <=> (mount.live /\ "mount" \notin unlisted)
        /\ "mount" \in unlisted => mount.live
        /\ ruleRows["mount"] = IF mount.live THEN 1 ELSE 0
        /\ "snapshots" \in alarms <=> (volume.live /\ "snapshots" \notin unlisted)
        /\ "snapshots" \in unlisted => volume.live
        /\ ruleRows["snapshots"] = IF volume.live THEN 1 ELSE 0
    BY DEF RulesInv, RuleRowsAreLive, SecurityRule
  <2>2. /\ "mount" \in alarms' <=> (mount'.live /\ "mount" \notin unlisted')
        /\ "mount" \in unlisted' => mount'.live
        /\ ruleRows'["mount"] = IF mount'.live THEN 1 ELSE 0
        /\ "snapshots" \in alarms' <=> (volume'.live /\ "snapshots" \notin unlisted')
        /\ "snapshots" \in unlisted' => volume'.live
        /\ ruleRows'["snapshots"] = IF volume'.live THEN 1 ELSE 0
    BY <1>1, <1>9, <2>1 DEF SecurityRule
  <2>3. /\ "activity" \in alarms' <=> (track'.live /\ "activity" \notin unlisted')
        /\ "activity" \in unlisted' => track'.live
        /\ ruleRows'["activity"] = IF track'.live THEN 1 ELSE 0
    BY <1>9
  <2> QED
    BY <1>9, <2>2, <2>3 DEF RuleRowsAreLive, SecurityRule
<1> QED
  BY <1>5, <1>10, <1>11, <1>12, <1>13 DEF RulesInv

\* A collection of a mount.
LEMMA MountStep ==
  ASSUME RulesInv, NEW ill \in SUBSET Features, NEW well \in SUBSET Features,
         ObserveMount(ill, well)
  PROVE  /\ RulesInv'
         /\ mount.live /\ ~mount'.live => /\ Ends(runs'["mount"], CloseMount, Clearing)
                                          /\ runs'["mount"][Len(runs'["mount"]) - 1] = "clear"
<1> DEFINE now == (mount.ill \cup ill) \ well
           ails == now # {}
           said == CASE ails -> "open" [] ill \cup well = {} -> "silent" [] OTHER -> "clear"
           clears == IF ails THEN 0 ELSE Capped(mount.clears + 1, CloseMount)
           live == ails \/ (mount.live /\ clears < CloseMount)
           s == runs["mount"]
<1>1. /\ mount' = [ill |-> now, clears |-> clears, live |-> live]
      /\ Persisted("mount", mount.live, mount'.live, ails) /\ Heard("mount", said, CloseMount)
      /\ track' = track /\ volume' = volume
  BY DEF ObserveMount
<1>2. /\ RulesType /\ mount \in Mounts /\ Ends(runs["activity"], track.hits, {"open"})
      /\ Ends(runs["activity"], track.clears, Clearing) /\ Ends(s, mount.clears, Clearing)
      /\ s \in Seq(RuleVerdicts) /\ "mount" \in SecurityRule /\ "activity" \in SecurityRule
  BY DEF RulesInv, RulesType, RunsCounted, SecurityRule
<1>3. mount.clears \in 0..2 /\ CloseMount = 2 /\ mount.ill \in SUBSET Features
      /\ mount.live \in BOOLEAN
  BY <1>2 DEF Mounts, CloseMount
<1>4. /\ now \in SUBSET Features /\ ails \in BOOLEAN /\ clears \in 0..2 /\ live \in BOOLEAN
      /\ mount.live /\ ~live => clears = 2
      /\ live /\ ~mount.live => ails
  BY <1>3 DEF Capped
<1>5. /\ said \in RuleVerdicts /\ (~ails => said \in Clearing)
      /\ ~ails /\ mount.ill # {} => said = "clear"
  BY DEF RuleVerdicts, Clearing
<1>6. /\ mount.clears \in Nat /\ clears \in Nat /\ CloseMount \in Nat \ {0}
      /\ clears <= CloseMount
      /\ ~ails => clears <= mount.clears + 1
      /\ ails => clears = 0
      /\ ~ails /\ mount.clears = 0 => clears = 1
      /\ ~ails /\ mount.clears = 1 => clears = 2
  BY <1>3, <1>4 DEF Capped
<1>7. ails => now # {}
  OBVIOUS
<1> HIDE DEF said, now, ails, clears, s
<1>8. /\ runs'["mount"] = Longer(s, said, CloseMount)
      /\ runs'["activity"] = runs["activity"]
  BY <1>1, <1>2, <1>5, <1>6, HeardIs, "activity" # "mount" DEF s
<1>9. Longer(s, said, CloseMount) \in Seq(RuleVerdicts) /\ Ends(Longer(s, said, CloseMount), 1, {said})
  <2>1. said \in {said} /\ Ends(s, 0, {said})
    BY <1>2, EmptyEnd
  <2> QED
    BY <1>2, <1>5, <1>6, <2>1, LongerEnds
<1>10. Ends(Longer(s, said, CloseMount), clears, Clearing)
  <2>1. CASE ~ails
    BY <1>2, <1>5, <1>6, <2>1, LongerEnds
  <2>2. CASE ails
    BY <1>9, <1>6, <2>2, EmptyEnd
  <2> QED
    BY <2>1, <2>2
<1> HIDE DEF live
<1>11. mount' \in Mounts /\ mount'.clears = clears /\ mount'.live = live /\ mount'.ill = now
  BY <1>1, <1>3, <1>4 DEF Mounts
<1>12. runs' \in [SecurityRule -> Seq(RuleVerdicts)]
  <2>1. runs' = [runs EXCEPT !["mount"] = runs'["mount"]]
    BY <1>1, <1>2 DEF Heard, RulesType
  <2>2. runs'["mount"] \in Seq(RuleVerdicts)
    BY <1>8, <1>9
  <2> QED
    BY <1>2, <2>1, <2>2 DEF RulesType
<1>13. Shown("mount", mount.live) /\ ruleRows["mount"] = IF mount.live THEN 1 ELSE 0
  BY <1>2, <1>3 DEF RulesInv, RuleRowsAreLive, Shown
<1>14. /\ ruleRows' \in [SecurityRule -> {0, 1}]
       /\ alarms' \in SUBSET SecurityRule /\ unlisted' \in SUBSET SecurityRule
       /\ ("mount" \in alarms' <=> (mount'.live /\ "mount" \notin unlisted'))
       /\ ("mount" \in unlisted' => mount'.live)
       /\ ruleRows'["mount"] = IF mount'.live THEN 1 ELSE 0
       /\ \A q \in SecurityRule : q # "mount" => /\ ruleRows'[q] = ruleRows[q]
                                                 /\ (q \in alarms' <=> q \in alarms)
                                                 /\ (q \in unlisted' <=> q \in unlisted)
  <2>1. mount'.live \in BOOLEAN /\ (mount'.live /\ ~mount.live => ails)
    BY <1>4, <1>11
  <2> QED
    BY <1>1, <1>2, <1>3, <1>4, <1>13, <2>1, PersistedAgrees
<1>15. RulesType'
  BY <1>1, <1>2, <1>11, <1>12, <1>14 DEF RulesType
<1>16. RunsCounted'
  BY <1>1, <1>2, <1>8, <1>10, <1>11 DEF RunsCounted
<1>17. mount.live => \/ mount.clears = 0 /\ mount.ill # {}
                     \/ mount.clears = 1 /\ Ends(s, 1, {"clear"})
  BY DEF RulesInv, MountHeard, s
<1>18. MountHeard'
  <2> SUFFICES ASSUME live
               PROVE  \/ clears = 0 /\ now # {}
                      \/ clears = 1 /\ Ends(Longer(s, said, CloseMount), 1, {"clear"})
    BY <1>8, <1>11 DEF MountHeard
  <2>1. CASE ails
    BY <1>6, <1>7, <2>1
  <2>2. CASE ~ails
    <3>1. mount.live /\ clears # 2
      BY <1>3, <2>2 DEF live
    <3>2. mount.clears = 0 /\ mount.ill # {}
      BY <1>6, <1>17, <2>2, <3>1
    <3> QED
      BY <1>5, <1>6, <1>9, <2>2, <3>2
  <2> QED
    BY <2>1, <2>2
<1>19. ASSUME mount.live, ~live
       PROVE  LET m == Longer(s, said, CloseMount) IN m[Len(m) - 1] = "clear"
  <2>1. ~ails /\ clears = 2
    BY <1>4, <1>19 DEF live
  <2>2. mount.clears = 1 /\ Ends(s, 1, {"clear"})
    BY <1>6, <1>17, <1>19, <2>1
  <2>3. Len(s) \in Nat \ {0} /\ s[Len(s)] = "clear"
    <3>1. Len(s) \in Nat
      BY <1>2
    <3>2. 1 <= Len(s) /\ \A i \in (Len(s) - 1 + 1)..Len(s) : s[i] \in {"clear"}
      BY <2>2 DEF Ends
    <3> QED
      BY <3>1, <3>2
  <2> DEFINE longer == Append(s, said)
  <2>4. /\ longer \in Seq(RuleVerdicts) /\ Len(longer) = Len(s) + 1
        /\ longer[Len(s)] = "clear"
    BY <1>2, <1>5, <2>3
  <2> HIDE DEF longer
  <2>5. CASE Len(longer) > CloseMount
    <3>1. Len(Tail(longer)) = Len(s) /\ Tail(longer)[Len(s) - 1] = longer[Len(s)]
      BY <1>3, <2>3, <2>4, <2>5
    <3> QED
      BY <2>4, <2>5, <3>1 DEF Longer, longer
  <2>6. CASE ~(Len(longer) > CloseMount)
    <3>1. (Len(s) + 1) - 1 = Len(s)
      BY <2>3
    <3> QED
      BY <2>4, <2>6, <3>1 DEF Longer, longer
  <2> QED
    BY <2>5, <2>6
<1>20. RuleRowsAreLive'
  <2>1. /\ "activity" \in alarms <=> (track.live /\ "activity" \notin unlisted)
        /\ "activity" \in unlisted => track.live
        /\ ruleRows["activity"] = IF track.live THEN 1 ELSE 0
        /\ "snapshots" \in alarms <=> (volume.live /\ "snapshots" \notin unlisted)
        /\ "snapshots" \in unlisted => volume.live
        /\ ruleRows["snapshots"] = IF volume.live THEN 1 ELSE 0
    BY DEF RulesInv, RuleRowsAreLive, SecurityRule
  <2>2. /\ "activity" \in alarms' <=> (track'.live /\ "activity" \notin unlisted')
        /\ "activity" \in unlisted' => track'.live
        /\ ruleRows'["activity"] = IF track'.live THEN 1 ELSE 0
        /\ "snapshots" \in alarms' <=> (volume'.live /\ "snapshots" \notin unlisted')
        /\ "snapshots" \in unlisted' => volume'.live
        /\ ruleRows'["snapshots"] = IF volume'.live THEN 1 ELSE 0
    BY <1>1, <1>14, <2>1 DEF SecurityRule
  <2>3. /\ "mount" \in alarms' <=> (mount'.live /\ "mount" \notin unlisted')
        /\ "mount" \in unlisted' => mount'.live
        /\ ruleRows'["mount"] = IF mount'.live THEN 1 ELSE 0
    BY <1>14
  <2> QED
    BY <1>14, <2>2, <2>3 DEF RuleRowsAreLive, SecurityRule
<1> QED
  BY <1>3, <1>4, <1>8, <1>10, <1>11, <1>15, <1>16, <1>18, <1>19, <1>20 DEF RulesInv

\* A count of snapshots.
LEMMA SnapshotsStep ==
  ASSUME RulesInv, NEW count \in 0..MaxSnapshots, ObserveSnapshots(count)
  PROVE  RulesInv'
<1>1. /\ volume' = [known |-> TRUE, count |-> count,
                    live |-> volume.live \/ (volume.known /\ count < volume.count)]
      /\ Persisted("snapshots", volume.live, volume'.live, volume.known /\ count < volume.count)
      /\ track' = track /\ mount' = mount /\ runs' = runs
  BY DEF ObserveSnapshots
<1>2. RulesType /\ volume \in Volumes /\ "snapshots" \in SecurityRule
  BY DEF RulesInv, RulesType, SecurityRule
<1>3. volume' \in Volumes
  BY <1>1, <1>2, SecurityAssumption DEF Volumes
<1>4. volume.live \in BOOLEAN /\ volume'.live \in BOOLEAN
  BY <1>2, <1>3 DEF Volumes
<1>5. Shown("snapshots", volume.live) /\ ruleRows["snapshots"] = IF volume.live THEN 1 ELSE 0
  BY <1>2, <1>4 DEF RulesInv, RuleRowsAreLive, Shown
<1> DEFINE fewer == volume.known /\ count < volume.count
<1>6. /\ fewer \in BOOLEAN /\ (volume'.live /\ ~volume.live => fewer)
      /\ Persisted("snapshots", volume.live, volume'.live, fewer)
  BY <1>1, <1>2 DEF Volumes
<1> HIDE DEF fewer
<1>7. /\ ruleRows' \in [SecurityRule -> {0, 1}]
      /\ alarms' \in SUBSET SecurityRule /\ unlisted' \in SUBSET SecurityRule
      /\ ("snapshots" \in alarms' <=> (volume'.live /\ "snapshots" \notin unlisted'))
      /\ ("snapshots" \in unlisted' => volume'.live)
      /\ ruleRows'["snapshots"] = IF volume'.live THEN 1 ELSE 0
      /\ \A q \in SecurityRule : q # "snapshots" => /\ ruleRows'[q] = ruleRows[q]
                                                    /\ (q \in alarms' <=> q \in alarms)
                                                    /\ (q \in unlisted' <=> q \in unlisted)
  BY <1>2, <1>4, <1>5, <1>6, PersistedAgrees
<1>8. RulesType'
  BY <1>1, <1>2, <1>3, <1>7 DEF RulesType
<1>9. RunsCounted' /\ MountHeard'
  BY <1>1 DEF RulesInv, RunsCounted, MountHeard
<1>10. RuleRowsAreLive'
  <2>1. /\ "activity" \in alarms <=> (track.live /\ "activity" \notin unlisted)
        /\ "activity" \in unlisted => track.live
        /\ ruleRows["activity"] = IF track.live THEN 1 ELSE 0
        /\ "mount" \in alarms <=> (mount.live /\ "mount" \notin unlisted)
        /\ "mount" \in unlisted => mount.live
        /\ ruleRows["mount"] = IF mount.live THEN 1 ELSE 0
    BY DEF RulesInv, RuleRowsAreLive, SecurityRule
  <2>2. /\ "activity" \in alarms' <=> (track'.live /\ "activity" \notin unlisted')
        /\ "activity" \in unlisted' => track'.live
        /\ ruleRows'["activity"] = IF track'.live THEN 1 ELSE 0
        /\ "mount" \in alarms' <=> (mount'.live /\ "mount" \notin unlisted')
        /\ "mount" \in unlisted' => mount'.live
        /\ ruleRows'["mount"] = IF mount'.live THEN 1 ELSE 0
    BY <1>1, <1>7, <2>1 DEF SecurityRule
  <2>3. /\ "snapshots" \in alarms' <=> (volume'.live /\ "snapshots" \notin unlisted')
        /\ "snapshots" \in unlisted' => volume'.live
        /\ ruleRows'["snapshots"] = IF volume'.live THEN 1 ELSE 0
    BY <1>7
  <2> QED
    BY <1>7, <2>2, <2>3 DEF RuleRowsAreLive, SecurityRule
<1> QED
  BY <1>8, <1>9, <1>10 DEF RulesInv

\* What an alarm that is raised or ends rests on.
RuleStep ==
  /\ track'.live /\ ~track.live => Ends(runs'["activity"], OpenIntervals, {"open"})
  /\ track.live /\ ~track'.live => Ends(runs'["activity"], CloseIntervals, Clearing)
  /\ mount.live /\ ~mount'.live => /\ Ends(runs'["mount"], CloseMount, Clearing)
                                   /\ runs'["mount"][Len(runs'["mount"]) - 1] = "clear"

\* Each step of the rules keeps their invariant, and opens only on a run.
LEMMA RulesNext == RulesInv /\ [NextSecurity]_securityVars => RulesInv' /\ RuleStep
<1> SUFFICES ASSUME RulesInv, [NextSecurity]_securityVars PROVE RulesInv' /\ RuleStep
  OBVIOUS
<1>1. ASSUME NEW clock \in 1..MaxRuleClocks, NEW n \in 1..(MaxGap + 1),
             NEW c \in CounterReadings, ObserveActivity(clock, n, c)
      PROVE  RulesInv' /\ RuleStep
  <2>1. mount' = mount
    BY <1>1 DEF ObserveActivity
  <2> QED
    BY <1>1, <2>1, ActivityStep DEF RuleStep
<1>2. ASSUME NEW ill \in SUBSET Features, NEW well \in SUBSET Features, ObserveMount(ill, well)
      PROVE  RulesInv' /\ RuleStep
  <2>1. track' = track
    BY <1>2 DEF ObserveMount
  <2> QED
    BY <1>2, <2>1, MountStep DEF RuleStep
<1>3. ASSUME NEW count \in 0..MaxSnapshots, ObserveSnapshots(count)
      PROVE  RulesInv' /\ RuleStep
  <2>1. track' = track /\ mount' = mount
    BY <1>3 DEF ObserveSnapshots
  <2> QED
    BY <1>3, <2>1, SnapshotsStep DEF RuleStep
<1>4. CASE UNCHANGED securityVars
  BY <1>4 DEF securityVars, RulesInv, RulesType, RunsCounted, MountHeard, RuleRowsAreLive, RuleStep
<1> QED
  BY <1>1, <1>2, <1>3, <1>4 DEF NextSecurity

\* Nothing is observed, and nothing is open.
LEMMA RulesInit == InitSecurity => RulesInv
<1> SUFFICES ASSUME InitSecurity PROVE RulesInv
  OBVIOUS
<1>1. RulesType
  BY SecurityAssumption DEF InitSecurity, RulesType, Tracks, Mounts, Volumes, NewTrack, CloseMount
<1>2. RunsCounted
  <2>1. /\ runs["activity"] \in Seq(RuleVerdicts) /\ runs["mount"] \in Seq(RuleVerdicts)
        /\ track.hits = 0 /\ track.clears = 0 /\ mount.clears = 0
    BY DEF InitSecurity, NewTrack, SecurityRule
  <2> QED
    BY <2>1, EmptyEnd DEF RunsCounted
<1>3. RuleRowsAreLive
  BY DEF InitSecurity, RuleRowsAreLive, NewTrack, SecurityRule
<1>4. MountHeard
  BY DEF InitSecurity, MountHeard
<1> QED
  BY <1>1, <1>2, <1>3, <1>4 DEF RulesInv

\* A step of the four is a step, or none, of each.
LEMMA StepOfEach ==
  [Next]_vars => /\ [NextSecurity]_securityVars /\ [NextDetection]_detectionVars
                 /\ [NextReliability]_reliabilityVars /\ [NextWatch]_watchVars
<1> SUFFICES ASSUME [Next]_vars
             PROVE  /\ NextSecurity \/ UNCHANGED securityVars
                    /\ NextDetection \/ UNCHANGED detectionVars
                    /\ NextReliability \/ UNCHANGED reliabilityVars
                    /\ NextWatch \/ UNCHANGED watchVars
  OBVIOUS
<1>1. CASE UNCHANGED vars
  BY <1>1 DEF vars
<1>2. CASE Next
  BY <1>2 DEF Next
<1> QED
  BY <1>1, <1>2

\* The rules never leave their invariant.
LEMMA RulesInvariance == Spec => []RulesInv
<1>1. Init => RulesInv
  BY RulesInit DEF Init
<1>2. RulesInv /\ [Next]_vars => RulesInv'
  BY StepOfEach, RulesNext
<1> QED
  BY <1>1, <1>2, PTL DEF Spec

\* A rule raises its alarm after a whole run of intervals that qualify, and the alarm ends
\* after a whole run of observations that do not, read or not (security_rules.rs,
\* evaluate_rules and observe_mount); one about a mount only once what ailed it was reported
\* well: RuleOpensOnRun, for any numbers of intervals, thresholds and features.
THEOREM AlarmsRestOnRuns == Spec => RuleOpensOnRun
<1> DEFINE Opens ==
      /\ track'.live /\ ~track.live => AllLast("activity", OpenIntervals, {"open"})
      /\ track.live /\ ~track'.live => AllLast("activity", CloseIntervals, {"clear", "silent"})
      /\ mount.live /\ ~mount'.live => /\ AllLast("mount", CloseMount, {"clear", "silent"})
                                       /\ runs'["mount"][Len(runs'["mount"]) - 1] = "clear"
<1>1. RulesInv /\ [NextSecurity]_securityVars => Opens
  <2>1. RuleStep => Opens
    BY DEF RuleStep, AllLast, Ends, Clearing
  <2> QED
    BY <2>1, RulesNext
<1>2. RulesInv /\ [Next]_vars => [Opens]_securityVars
  BY <1>1, StepOfEach
<1>3. Spec => [][Opens]_securityVars
  BY <1>2, RulesInvariance, PTL DEF Spec
<1> QED
  BY <1>3 DEF RuleOpensOnRun

-----------------------------------------------------------------------------
(* The activity detector.                                                  *)

\* What an observation can tell of a finding, and the fields of a source.
ActivityStatuses == {"open", "resolved", "interrupted"}
SourceFields == {"revision", "active", "support", "context", "mark", "previous", "ring", "episode"}
EpisodeFields == {"elevated", "recovery", "high", "low", "open"}

\* Rates on either side of a threshold.
Above(level) == {r \in ActivityRates : r > level}
Below(level) == {r \in ActivityRates : r <= level}

\* The unbroken rates with one more interval of n ticks.
More(s, x, n, most) == LastOf(s \o [i \in 1..n |-> x], most)
Most == Max({Opening, Recovery})

\* What an episode has counted is in the unbroken rates.
EpisodeCounted(e, row) ==
  /\ EpisodeFields \subseteq DOMAIN e
  /\ e.elevated \in Nat /\ e.recovery \in Nat /\ e.open \in BOOLEAN
  /\ ~e.open => Ends(row, e.elevated, Above(e.high))
  /\ Ends(row, e.recovery, Below(e.low))

\* An observation tells what became of the finding, and what it rests on.
Follows(s, o, row) ==
  /\ DOMAIN o = {"next", "told"}
  /\ SourceFields \subseteq DOMAIN o.next
  /\ EpisodeCounted(o.next.episode, row)
  /\ o.told \subseteq ActivityStatuses
  /\ ("open" \in o.told) <=> o.next.episode.open
  /\ s.episode.open =>
       ((o.told \cap {"resolved", "interrupted"} # {}) <=> ~o.next.episode.open)
  /\ "resolved" \in o.told => Ends(row, Recovery, Below(s.episode.low))
  /\ (o.next.episode.open /\ ~s.episode.open) => Ends(row, Opening, Above(o.next.episode.high))

\* The greater of two numbers.
LEMMA MaxOfTwo ==
  ASSUME NEW a \in Nat, NEW b \in Nat
  PROVE  Max({a, b}) \in Nat /\ Max({a, b}) >= a /\ Max({a, b}) >= b
<1>1. \E x \in {a, b} : \A y \in {a, b} : x >= y
  <2>1. CASE a >= b
    BY <2>1
  <2>2. CASE ~(a >= b)
    BY <2>2
  <2> QED
    BY <2>1, <2>2
<1>2. Max({a, b}) \in {a, b} /\ \A y \in {a, b} : Max({a, b}) >= y
  BY <1>1 DEF Max
<1> QED
  BY <1>2

\* The last elements of a row, and that they are its end.
LEMMA LastEnds ==
  ASSUME NEW T, NEW s \in Seq(T), NEW most \in Nat, NEW S, NEW m \in Nat, m <= most,
         Ends(s, m, S)
  PROVE  LastOf(s, most) \in Seq(T) /\ Ends(LastOf(s, most), m, S)
<1> DEFINE t == SubSeq(s, Len(s) - most + 1, Len(s))
<1>1. CASE Len(s) <= most
  BY <1>1 DEF LastOf
<1>2. CASE ~(Len(s) <= most)
  <2>1. /\ t \in Seq(T) /\ Len(t) = most
        /\ \A i \in 1..most : t[i] = s[Len(s) - most + i]
    BY <1>2
  <2> HIDE DEF t
  <2>2. ASSUME NEW i \in (Len(t) - m + 1)..Len(t) PROVE t[i] \in S
    <3>1. i \in 1..most /\ Len(s) - most + i \in (Len(s) - m + 1)..Len(s)
      BY <1>2, <2>1
    <3> QED
      BY <2>1, <3>1 DEF Ends
  <2>3. LastOf(s, most) = t
    BY <1>2 DEF LastOf, t
  <2> QED
    BY <2>1, <2>2, <2>3 DEF Ends
<1> QED
  BY <1>1, <1>2

\* n more elements of S make the end longer by n.
LEMMA MoreEnds ==
  ASSUME NEW T, NEW s \in Seq(T), NEW x \in T, NEW n \in Nat, NEW most \in Nat, NEW S,
         NEW k \in Nat, Ends(s, k, S), x \in S, NEW m \in Nat, m <= k + n, m <= most
  PROVE  More(s, x, n, most) \in Seq(T) /\ Ends(More(s, x, n, most), m, S)
<1> DEFINE t == s \o [i \in 1..n |-> x]
<1>1. [i \in 1..n |-> x] \in Seq(T) /\ Len([i \in 1..n |-> x]) = n
  OBVIOUS
<1>2. /\ t \in Seq(T) /\ Len(t) = Len(s) + n
      /\ \A i \in 1..Len(s) : t[i] = s[i]
      /\ \A i \in (Len(s) + 1)..Len(t) : t[i] = x
  BY <1>1
<1> HIDE DEF t
<1>3. k <= Len(s) /\ \A i \in (Len(s) - k + 1)..Len(s) : s[i] \in S
  BY DEF Ends
<1>4. ASSUME NEW i \in (Len(t) - m + 1)..Len(t) PROVE t[i] \in S
  <2>1. CASE i > Len(s)
    <3>1. i \in (Len(s) + 1)..Len(t)
      BY <1>2, <2>1
    <3> QED
      BY <1>2, <3>1
  <2>2. CASE ~(i > Len(s))
    <3>1. i \in 1..Len(s) /\ i \in (Len(s) - k + 1)..Len(s)
      BY <1>2, <1>3, <2>2
    <3> QED
      BY <1>2, <1>3, <3>1
  <2> QED
    BY <2>1, <2>2
<1>5. m <= Len(t)
  BY <1>2, <1>3
<1>6. Ends(t, m, S)
  BY <1>4, <1>5 DEF Ends
<1>7. LastOf(t, most) \in Seq(T) /\ Ends(LastOf(t, most), m, S)
  BY <1>2, <1>6, LastEnds
<1> QED
  BY <1>7 DEF More, t

\* Above and below, the rates that count keep their kind.
LEMMA KindsOfRates ==
  ASSUME NEW row \in Seq(ActivityRates), NEW row2, NEW rate \in ActivityRates,
         NEW n \in Nat \ {0}, row2 = More(row, rate, n, Most)
  PROVE  /\ row2 \in Seq(ActivityRates)
         /\ \A h : \A k, m \in Nat : Ends(row, k, Above(h)) /\ rate > h /\ m <= k + n /\ m <= Opening
                                   => Ends(row2, m, Above(h))
         /\ \A l : \A k, m \in Nat : Ends(row, k, Below(l)) /\ rate <= l /\ m <= k + n /\ m <= Recovery
                                   => Ends(row2, m, Below(l))
<1>1. Most \in Nat /\ Most >= Opening /\ Most >= Recovery /\ Opening \in Nat /\ Recovery \in Nat
  BY BaselineAssumption, MaxOfTwo DEF Most
<1>2. row2 \in Seq(ActivityRates)
  <2>1. rate \in {rate} /\ 0 \in Nat /\ 0 <= 0 + n /\ 0 <= Most /\ n \in Nat
    BY <1>1
  <2>2. Ends(row, 0, {rate})
    BY EmptyEnd
  <2> QED
    BY <1>1, <2>1, <2>2, MoreEnds
<1>3. ASSUME NEW k \in Nat, NEW m \in Nat, NEW h, Ends(row, k, Above(h)), rate > h,
             m <= k + n, m <= Opening
      PROVE  Ends(row2, m, Above(h))
  <2>1. rate \in Above(h) /\ m <= Most /\ n \in Nat
    BY <1>1, <1>3 DEF Above
  <2> QED
    BY <1>1, <1>3, <2>1, MoreEnds
<1>4. ASSUME NEW k \in Nat, NEW m \in Nat, NEW l, Ends(row, k, Below(l)), rate <= l,
             m <= k + n, m <= Recovery
      PROVE  Ends(row2, m, Below(l))
  <2>1. rate \in Below(l) /\ m <= Most /\ n \in Nat
    BY <1>1, <1>4 DEF Below
  <2> QED
    BY <1>1, <1>4, <2>1, MoreEnds
<1> QED
  BY <1>2, <1>3, <1>4

\* What is broken off counts nothing; an open finding waits.
LEMMA BrokenFollows ==
  ASSUME NEW s, SourceFields \subseteq DOMAIN s, NEW row, EpisodeCounted(s.episode, row),
         NEW row2 \in Seq(ActivityRates)
  PROVE  Follows(s, Broken(s), row2) /\ Broken(s).next.ring = s.ring
         /\ Broken(s).next.mark = s.mark /\ Broken(s).next.previous = s.previous
<1>1. \A S : Ends(row2, 0, S)
  BY EmptyEnd
<1>2. s.episode.open \in BOOLEAN
  BY DEF EpisodeCounted
<1> DEFINE e == IF s.episode.open THEN [s.episode EXCEPT !.recovery = 0] ELSE NoEpisode
           t == [s EXCEPT !.episode = e]
<1>3. Broken(s) = [next |-> t, told |-> IF s.episode.open THEN {"open"} ELSE {}]
  BY DEF Broken, Outcome
<1>4. /\ SourceFields \subseteq DOMAIN t /\ t.episode = e /\ t.ring = s.ring /\ t.mark = s.mark
      /\ t.previous = s.previous
  BY DEF SourceFields
<1>5. EpisodeCounted(e, row2) /\ (e.open <=> s.episode.open)
  <2>1. CASE s.episode.open
    <3>1. /\ EpisodeFields \subseteq DOMAIN e /\ e.elevated = s.episode.elevated
          /\ e.recovery = 0 /\ e.open = s.episode.open
      BY <2>1 DEF EpisodeCounted, EpisodeFields
    <3> HIDE DEF e
    <3>2. e.elevated \in Nat
      BY <3>1 DEF EpisodeCounted
    <3> QED
      BY <1>1, <1>2, <2>1, <3>1, <3>2 DEF EpisodeCounted
  <2>2. CASE ~s.episode.open
    BY <1>1, <2>2 DEF EpisodeCounted, EpisodeFields, NoEpisode
  <2> QED
    BY <2>1, <2>2
<1> HIDE DEF e, t
<1> QED
  BY <1>2, <1>3, <1>4, <1>5 DEF Follows, ActivityStatuses

\* What is interrupted ends, with its baseline.
LEMMA InterruptedFollows ==
  ASSUME NEW s, SourceFields \subseteq DOMAIN s, NEW row, EpisodeCounted(s.episode, row),
         NEW row2 \in Seq(ActivityRates)
  PROVE  Follows(s, ActivityInterrupted(s), row2) /\ ActivityInterrupted(s).next.ring = <<>>
         /\ ActivityInterrupted(s).next.mark = s.mark
         /\ ActivityInterrupted(s).next.episode = NoEpisode
<1>1. \A S : Ends(row2, 0, S)
  BY EmptyEnd
<1>2. s.episode.open \in BOOLEAN
  BY DEF EpisodeCounted
<1> DEFINE t == [s EXCEPT !.active = FALSE, !.previous = FALSE, !.ring = <<>>,
                          !.episode = NoEpisode]
<1>3. ActivityInterrupted(s) = [next |-> t, told |-> IF s.episode.open THEN {"interrupted"} ELSE {}]
  BY DEF ActivityInterrupted, Outcome
<1>4. /\ SourceFields \subseteq DOMAIN t /\ t.episode = NoEpisode /\ t.ring = <<>>
      /\ t.mark = s.mark
  BY DEF SourceFields
<1>5. EpisodeCounted(NoEpisode, row2) /\ ~NoEpisode.open
  BY <1>1 DEF EpisodeCounted, EpisodeFields, NoEpisode
<1> HIDE DEF t
<1> QED
  BY <1>2, <1>3, <1>4, <1>5 DEF Follows, ActivityStatuses

\* A candidate, or training.
LEMMA QuietFollows ==
  ASSUME NEW s, SourceFields \subseteq DOMAIN s, NEW row \in Seq(ActivityRates),
         s.episode = NoEpisode, NEW rate \in ActivityRates, NEW n \in Nat \ {0},
         NEW row2, row2 = More(row, rate, n, Most)
  PROVE  /\ Follows(s, Quiet(s, n, rate), row2)
         /\ Quiet(s, n, rate).next.mark = s.mark
         /\ \/ Quiet(s, n, rate).next.ring = s.ring
            \/ Quiet(s, n, rate).next.ring
                 = Trained(s.ring, [from |-> n, to |-> 0, value |-> rate])
<1> DEFINE b == Reference(s.ring)
           o == Quiet(s, n, rate)
           e == [NoEpisode EXCEPT !.elevated = Upto(n, Opening), !.high = High(b), !.low = Low(b)]
<1>1. Opening \in Nat
  BY BaselineAssumption
<1>2. /\ row2 \in Seq(ActivityRates)
      /\ \A h : \A k, m \in Nat : Ends(row, k, Above(h)) /\ rate > h /\ m <= k + n /\ m <= Opening
                                => Ends(row2, m, Above(h))
  BY KindsOfRates
<1>3. \A S : Ends(row, 0, S) /\ Ends(row2, 0, S)
  BY <1>2, EmptyEnd
<1>4. ~NoEpisode.open /\ EpisodeCounted(NoEpisode, row2)
  BY <1>3 DEF EpisodeCounted, EpisodeFields, NoEpisode
<1>5. CASE Ready(s.ring) /\ rate > High(Reference(s.ring))
  <2>1. o = [next |-> [s EXCEPT !.episode = e], told |-> {}]
    BY <1>5 DEF Quiet, Outcome
  <2>2. /\ EpisodeFields \subseteq DOMAIN e /\ e.elevated = Upto(n, Opening) /\ e.recovery = 0
        /\ e.open = FALSE /\ e.high = High(b) /\ e.low = Low(b)
    BY DEF NoEpisode, EpisodeFields
  <2> HIDE DEF e
  <2>3. Upto(n, Opening) \in Nat /\ Upto(n, Opening) <= 0 + n /\ Upto(n, Opening) <= Opening
    BY <1>1 DEF Upto
  <2>4. Ends(row2, e.elevated, Above(e.high))
    BY <1>2, <1>3, <1>5, <2>2, <2>3
  <2>5. EpisodeCounted(e, row2)
    <3>1. e.elevated \in Nat /\ e.recovery \in Nat
      BY <2>2, <2>3
    <3>2. e.open \in BOOLEAN
      BY <2>2
    <3>3. Ends(row2, e.recovery, Below(e.low))
      BY <1>3, <2>2
    <3> QED
      BY <2>2, <2>4, <3>1, <3>2, <3>3 DEF EpisodeCounted
  <2>6. /\ DOMAIN o = {"next", "told"}
        /\ o.next.episode = e /\ SourceFields \subseteq DOMAIN o.next /\ o.told = {}
        /\ o.next.mark = s.mark /\ o.next.ring = s.ring
    BY <2>1 DEF SourceFields
  <2> QED
    BY <1>4, <2>2, <2>5, <2>6 DEF Follows
<1>6. CASE ~(Ready(s.ring) /\ rate > High(Reference(s.ring)))
  <2> DEFINE r == Trained(s.ring, [from |-> n, to |-> 0, value |-> rate])
  <2>1. o = [next |-> [s EXCEPT !.ring = r], told |-> {}]
    BY <1>6 DEF Quiet, Outcome
  <2> HIDE DEF r
  <2>2. /\ DOMAIN o = {"next", "told"}
        /\ o.next.episode = NoEpisode /\ SourceFields \subseteq DOMAIN o.next /\ o.told = {}
        /\ o.next.mark = s.mark /\ o.next.ring = r
    BY <2>1 DEF SourceFields
  <2> QED
    BY <1>4, <2>2 DEF Follows, r
<1> QED
  BY <1>5, <1>6

\* What an outcome that ends with another episode has to show.
LEMMA FollowsFrom ==
  ASSUME NEW s, SourceFields \subseteq DOMAIN s, NEW row2, NEW x, EpisodeCounted(x, row2),
         NEW told \in SUBSET ActivityStatuses, NEW o, o = Outcome([s EXCEPT !.episode = x], told),
         ("open" \in told) <=> x.open,
         (told \cap {"resolved", "interrupted"} # {}) <=> (s.episode.open /\ ~x.open),
         "resolved" \in told => Ends(row2, Recovery, Below(s.episode.low)),
         (x.open /\ ~s.episode.open) => Ends(row2, Opening, Above(x.high))
  PROVE  Follows(s, o, row2) /\ o.next.mark = s.mark /\ o.next.ring = s.ring
<1>1. /\ DOMAIN o = {"next", "told"}
      /\ SourceFields \subseteq DOMAIN o.next /\ o.next.episode = x /\ o.told = told
      /\ o.next.mark = s.mark /\ o.next.ring = s.ring
  BY DEF Outcome, SourceFields
<1> QED
  BY <1>1 DEF Follows

\* A usable interval of an episode.
LEMMA InEpisodeFollows ==
  ASSUME NEW s, SourceFields \subseteq DOMAIN s, NEW row \in Seq(ActivityRates),
         EpisodeCounted(s.episode, row), NEW rate \in ActivityRates, NEW n \in Nat \ {0},
         NEW row2, row2 = More(row, rate, n, Most)
  PROVE  /\ Follows(s, InEpisode(s, n, rate), row2)
         /\ InEpisode(s, n, rate).next.mark = s.mark /\ InEpisode(s, n, rate).next.ring = s.ring
<1> DEFINE e == s.episode
           elevated == IF rate > e.high THEN Upto(e.elevated + n, Opening) ELSE e.elevated
           recovery == IF e.open /\ rate <= e.low THEN e.recovery + n ELSE 0
           f == [e EXCEPT !.elevated = elevated, !.recovery = recovery]
           g == [f EXCEPT !.open = TRUE]
           o == InEpisode(s, n, rate)
<1>1. Opening \in Nat \ {0} /\ Recovery \in Nat \ {0}
  BY BaselineAssumption
<1>2. /\ row2 \in Seq(ActivityRates)
      /\ \A h : \A k, m \in Nat : Ends(row, k, Above(h)) /\ rate > h /\ m <= k + n /\ m <= Opening
                                => Ends(row2, m, Above(h))
      /\ \A l : \A k, m \in Nat : Ends(row, k, Below(l)) /\ rate <= l /\ m <= k + n /\ m <= Recovery
                                => Ends(row2, m, Below(l))
  BY KindsOfRates
<1>3. \A S : Ends(row2, 0, S)
  BY <1>2, EmptyEnd
<1>4. ~NoEpisode.open /\ EpisodeCounted(NoEpisode, row2)
  BY <1>3 DEF EpisodeCounted, EpisodeFields, NoEpisode
<1>5. /\ EpisodeFields \subseteq DOMAIN e /\ e.elevated \in Nat /\ e.recovery \in Nat
      /\ ~e.open => Ends(row, e.elevated, Above(e.high))
      /\ Ends(row, e.recovery, Below(e.low))
  BY DEF EpisodeCounted
<1>6. e.open \in BOOLEAN
  BY DEF EpisodeCounted
<1>7. elevated \in Nat /\ recovery \in Nat
  BY <1>1, <1>5 DEF Upto
<1>8. /\ EpisodeFields \subseteq DOMAIN f /\ f.elevated = elevated /\ f.recovery = recovery
      /\ f.high = e.high /\ f.low = e.low /\ f.open = e.open
  BY <1>5 DEF EpisodeFields
<1>9. /\ EpisodeFields \subseteq DOMAIN g /\ g.elevated = elevated /\ g.recovery = recovery
      /\ g.high = e.high /\ g.low = e.low /\ g.open = TRUE
  BY <1>8 DEF EpisodeFields
<1>10. /\ ~(e.open \/ rate > e.high) => o = Outcome([s EXCEPT !.episode = NoEpisode], {})
       /\ (e.open /\ f.recovery >= Recovery) =>
            o = Outcome([s EXCEPT !.episode = NoEpisode], {"resolved"})
       /\ (e.open /\ f.recovery < Recovery /\ ~(f.recovery >= Recovery)) =>
            o = Outcome([s EXCEPT !.episode = f], {"open"})
       /\ (~e.open /\ rate > e.high) =>
            o = IF f.elevated >= Opening THEN Outcome([s EXCEPT !.episode = g], {"open"})
                ELSE Outcome([s EXCEPT !.episode = f], {})
  <2> DEFINE quiet == ~(e.open \/ rate > e.high)
             ends == e.open /\ f.recovery >= Recovery
             stays == e.open /\ f.recovery < Recovery
             told(x, st) == Outcome([s EXCEPT !.episode = x], st)
             rest == IF f.elevated >= Opening THEN told(g, {"open"}) ELSE told(f, {})
  <2>1. o = CASE quiet -> told(NoEpisode, {})
              [] ends -> told(NoEpisode, {"resolved"})
              [] stays -> told(f, {"open"})
              [] OTHER -> rest
    BY DEF InEpisode
  <2> HIDE DEF rest, told
  <2>2. quiet => o = told(NoEpisode, {})
    <3>1. SUFFICES ASSUME quiet PROVE o = told(NoEpisode, {})
      OBVIOUS
    <3>2. ~ends /\ ~stays
      BY <3>1
    <3> HIDE DEF quiet, ends, stays
    <3> QED
      BY <2>1, <3>1, <3>2
  <2>3. ends => o = told(NoEpisode, {"resolved"})
    <3>1. SUFFICES ASSUME ends PROVE o = told(NoEpisode, {"resolved"})
      OBVIOUS
    <3>2. ~quiet /\ ~stays
      BY <1>1, <1>7, <1>8, <3>1
    <3> HIDE DEF quiet, ends, stays
    <3> QED
      BY <2>1, <3>1, <3>2
  <2>4. (stays /\ ~(f.recovery >= Recovery)) => o = told(f, {"open"})
    <3>1. SUFFICES ASSUME stays, ~(f.recovery >= Recovery) PROVE o = told(f, {"open"})
      OBVIOUS
    <3>2. ~quiet /\ ~ends
      BY <3>1
    <3> HIDE DEF quiet, ends, stays
    <3> QED
      BY <2>1, <3>1, <3>2
  <2>5. (~e.open /\ rate > e.high) => o = rest
    <3>1. SUFFICES ASSUME ~e.open, rate > e.high PROVE o = rest
      OBVIOUS
    <3>2. ~quiet /\ ~ends /\ ~stays
      BY <3>1
    <3> HIDE DEF quiet, ends, stays
    <3> QED
      BY <2>1, <3>2
  <2> QED
    BY <2>2, <2>3, <2>4, <2>5 DEF rest, told
<1> HIDE DEF f, g, o, e
<1>11. SUFFICES Follows(s, o, row2) /\ o.next.mark = s.mark /\ o.next.ring = s.ring
  BY DEF o
<1>12. CASE ~(e.open \/ rate > e.high)
  <2>1. o = Outcome([s EXCEPT !.episode = NoEpisode], {}) /\ ~s.episode.open
    BY <1>10, <1>12 DEF e
  <2> QED
    BY <1>4, <2>1, FollowsFrom
<1>13. CASE e.open /\ recovery >= Recovery
  <2>1. o = Outcome([s EXCEPT !.episode = NoEpisode], {"resolved"}) /\ s.episode.open
    BY <1>8, <1>10, <1>13 DEF e
  <2>2. rate <= e.low /\ Recovery <= e.recovery + n
    BY <1>1, <1>13
  <2>3. Ends(row2, Recovery, Below(e.low))
    BY <1>1, <1>2, <1>5, <2>2
  <2>4. Ends(row2, Recovery, Below(s.episode.low)) /\ {"resolved"} \in SUBSET ActivityStatuses
    BY <2>3 DEF e, ActivityStatuses
  <2>5. "open" \notin {"resolved"} /\ {"resolved"} \cap {"resolved", "interrupted"} # {}
    OBVIOUS
  <2> QED
    BY <1>4, <2>1, <2>4, <2>5, FollowsFrom
<1>14. CASE e.open /\ ~(recovery >= Recovery)
  <2>1. recovery < Recovery
    BY <1>1, <1>7, <1>14
  <2>2. o = Outcome([s EXCEPT !.episode = f], {"open"}) /\ s.episode.open
    BY <1>8, <1>10, <1>14, <2>1 DEF e
  <2>3. Ends(row2, recovery, Below(e.low))
    <3>1. CASE e.open /\ rate <= e.low
      <4>1. recovery = e.recovery + n /\ recovery <= Recovery
        BY <1>1, <1>7, <2>1, <3>1
      <4> QED
        BY <1>2, <1>5, <1>7, <3>1, <4>1
    <3>2. CASE ~(e.open /\ rate <= e.low)
      BY <1>3, <3>2
    <3> QED
      BY <3>1, <3>2
  <2> HIDE DEF elevated, recovery
  <2>4. EpisodeCounted(f, row2) /\ f.open
    <3>1. f.elevated \in Nat /\ f.recovery \in Nat /\ Ends(row2, f.recovery, Below(f.low))
      BY <1>7, <1>8, <2>3
    <3>2. f.open \in BOOLEAN /\ f.open
      BY <1>6, <1>8, <1>14
    <3> QED
      BY <1>8, <3>1, <3>2 DEF EpisodeCounted
  <2>5. /\ {"open"} \in SUBSET ActivityStatuses /\ "resolved" \notin {"open"}
        /\ {"open"} \cap {"resolved", "interrupted"} = {}
    BY DEF ActivityStatuses
  <2> QED
    BY <2>2, <2>4, <2>5, FollowsFrom
<1>15. CASE ~e.open /\ rate > e.high
  <2>1. /\ o = IF elevated >= Opening THEN Outcome([s EXCEPT !.episode = g], {"open"})
              ELSE Outcome([s EXCEPT !.episode = f], {})
        /\ recovery = 0 /\ elevated = Upto(e.elevated + n, Opening)
    BY <1>8, <1>10, <1>15
  <2>2. elevated <= e.elevated + n /\ elevated <= Opening
    BY <1>1, <1>5, <2>1 DEF Upto
  <2>6. ~s.episode.open
    BY <1>15 DEF e
  <2> HIDE DEF elevated, recovery
  <2>3. Ends(row2, elevated, Above(e.high))
    BY <1>2, <1>5, <1>7, <1>15, <2>2
  <2>4. CASE elevated >= Opening
    <3>1. elevated = Opening
      BY <1>1, <1>7, <2>2, <2>4
    <3>2. o = Outcome([s EXCEPT !.episode = g], {"open"})
      BY <2>1, <2>4
    <3>3. EpisodeCounted(g, row2)
      <4>1. g.open \in BOOLEAN
        BY <1>9
      <4>2. g.elevated \in Nat /\ g.recovery \in Nat
        BY <1>7, <1>9, <2>1
      <4>3. Ends(row2, g.recovery, Below(g.low))
        BY <1>3, <1>9, <2>1
      <4> QED
        BY <1>9, <4>1, <4>2, <4>3 DEF EpisodeCounted
    <3>4. Ends(row2, Opening, Above(g.high))
      BY <1>9, <2>3, <3>1
    <3>5. /\ {"open"} \in SUBSET ActivityStatuses /\ "resolved" \notin {"open"}
          /\ {"open"} \cap {"resolved", "interrupted"} = {} /\ g.open
      BY <1>9 DEF ActivityStatuses
    <3> QED
      BY <2>6, <3>2, <3>3, <3>4, <3>5, FollowsFrom
  <2>5. CASE ~(elevated >= Opening)
    <3>1. o = Outcome([s EXCEPT !.episode = f], {})
      BY <2>1, <2>5
    <3>2. EpisodeCounted(f, row2)
      <4>1. f.open \in BOOLEAN
        BY <1>6, <1>8
      <4>2. f.elevated \in Nat /\ f.recovery \in Nat
        BY <1>7, <1>8, <2>1
      <4>3. Ends(row2, f.recovery, Below(f.low)) /\ Ends(row2, f.elevated, Above(f.high))
        BY <1>3, <1>8, <2>1, <2>3
      <4> QED
        BY <1>8, <4>1, <4>2, <4>3 DEF EpisodeCounted
    <3>3. ~f.open
      BY <1>8, <1>15
    <3> QED
      BY <2>6, <3>1, <3>2, <3>3, FollowsFrom
  <2> QED
    BY <2>4, <2>5
<1> QED
  BY <1>6, <1>12, <1>13, <1>14, <1>15

\* What the ring of a baseline holds.
Entries == [from : Nat, to : Nat, value : ActivityRates]

\* A ring whose intervals began in the last top ticks, one after the other.
InOrder(ring, top) ==
  /\ ring \in Seq(Entries)
  /\ \A i \in 1..Len(ring) : ring[i].from <= top /\ (i > 1 => ring[i - 1].to >= ring[i].from)

\* Time passes for all the intervals alike, and those left end before it.
LEMMA PrunedInOrder ==
  ASSUME NEW ring, NEW top \in Nat, InOrder(ring, top), NEW n \in Nat \ {0}
  PROVE  /\ InOrder(Pruned(ring, n), Upto(top + n, Horizon))
         /\ \A i \in 1..Len(Pruned(ring, n)) : Pruned(ring, n)[i].to >= n
<1> DEFINE Older(e) == [e EXCEPT !.from = Upto(@ + n, Horizon), !.to = @ + n]
           older == [i \in DOMAIN ring |-> Older(ring[i])]
           gone == {i \in DOMAIN ring : older[i].to >= Horizon}
           k == Cardinality(gone)
           r == SubSeq(older, k + 1, Len(older))
<1>1. Horizon \in Nat
  BY BaselineAssumption
<1>2. ring \in Seq(Entries) /\ DOMAIN ring = 1..Len(ring) /\ Len(ring) \in Nat
  BY DEF InOrder
<1>3. ASSUME NEW i \in 1..Len(ring)
      PROVE  /\ Older(ring[i]) \in Entries
             /\ Older(ring[i]).from = Upto(ring[i].from + n, Horizon)
             /\ Older(ring[i]).to = ring[i].to + n
             /\ ring[i].from \in Nat /\ ring[i].to \in Nat
  <2>1. ring[i] \in Entries
    BY <1>2
  <2>2. ring[i].from \in Nat /\ ring[i].to \in Nat /\ Upto(ring[i].from + n, Horizon) \in Nat
        /\ ring[i].to + n \in Nat
    BY <1>1, <2>1 DEF Entries, Upto
  <2> QED
    BY <2>1, <2>2 DEF Entries
<1> HIDE DEF Older
<1>4. older \in Seq(Entries) /\ Len(older) = Len(ring) /\ \A i \in 1..Len(ring) : older[i] = Older(ring[i])
  BY <1>2, <1>3
<1>5. k \in 0..Len(ring)
  <2>1. IsFiniteSet(1..Len(ring)) /\ Cardinality(1..Len(ring)) = Len(ring)
    <3>1. 1 \in Int /\ Len(ring) \in Int
      BY <1>2
    <3>2. /\ IsFiniteSet(1..Len(ring))
          /\ Cardinality(1..Len(ring)) = IF 1 > Len(ring) THEN 0 ELSE Len(ring) - 1 + 1
      BY <3>1, FS_Interval
    <3> QED
      BY <1>2, <3>2
  <2>2. gone \subseteq 1..Len(ring)
    BY <1>2
  <2> HIDE DEF gone
  <2>3. Cardinality(gone) \in Nat /\ Cardinality(gone) <= Len(ring)
    BY <2>1, <2>2, FS_Subset, FS_CardinalityType
  <2> QED
    BY <2>3
<1> HIDE DEF older, k
<1>6. /\ r \in Seq(Entries) /\ Len(r) = Len(ring) - k
      /\ \A i \in 1..Len(r) : r[i] = older[i + k]
  <2>1. k + 1 \in 1..(Len(older) + 1) /\ Len(older) \in Nat /\ k \in Nat
    BY <1>2, <1>4, <1>5
  <2>2. r \in Seq(Entries)
    BY <1>4, <2>1
  <2>3. Len(r) = Len(older) - k /\ \A i \in 1..(Len(older) - k) : r[i] = older[i + k]
    BY <1>4, <2>1
  <2> QED
    BY <1>4, <2>2, <2>3
<1>7. Pruned(ring, n) = r
  BY DEF Pruned, r, k, gone, older, Older
<1> HIDE DEF r
<1>8. ASSUME NEW i \in 1..Len(r)
      PROVE  /\ r[i].from <= Upto(top + n, Horizon) /\ r[i].to >= n
             /\ i > 1 => r[i - 1].to >= r[i].from
  <2>1. i + k \in 1..Len(ring) /\ r[i] = Older(ring[i + k]) /\ ring[i + k].from <= top
    BY <1>2, <1>4, <1>5, <1>6 DEF InOrder
  <2>2. r[i].from <= Upto(top + n, Horizon) /\ r[i].to >= n /\ r[i].from <= ring[i + k].from + n
    <3>1. /\ r[i].from = Upto(ring[i + k].from + n, Horizon) /\ r[i].to = ring[i + k].to + n
          /\ ring[i + k].from \in Nat /\ ring[i + k].to \in Nat
      BY <1>3, <2>1
    <3> QED
      BY SMTT(30), <1>1, <2>1, <3>1 DEF Upto
  <2>3. ASSUME i > 1 PROVE r[i - 1].to >= r[i].from
    <3>1. /\ i - 1 \in 1..Len(r) /\ (i - 1) + k \in 1..Len(ring)
          /\ r[i - 1] = Older(ring[(i - 1) + k]) /\ (i - 1) + k = (i + k) - 1
          /\ i + k > 1
      <4>1. k \in Nat /\ Len(r) \in Nat /\ Len(ring) \in Nat /\ Len(r) = Len(ring) - k
        BY <1>2, <1>4, <1>5, <1>6
      <4>2. /\ i - 1 \in 1..Len(r) /\ (i - 1) + k \in 1..Len(ring)
            /\ (i - 1) + k = (i + k) - 1 /\ i + k > 1
        BY <2>3, <4>1
      <4>3. r[i - 1] = older[(i - 1) + k]
        BY <1>6, <4>2
      <4>4. older[(i - 1) + k] = Older(ring[(i - 1) + k])
        BY <1>2, <1>4, <4>2
      <4> QED
        BY <4>2, <4>3, <4>4
    <3>2. ring[(i - 1) + k].to >= ring[i + k].from
      BY <2>1, <3>1 DEF InOrder
    <3>3. r[i - 1].to = ring[(i - 1) + k].to + n
      BY <1>3, <3>1
    <3>4. r[i].from = Upto(ring[i + k].from + n, Horizon) /\ ring[i + k].from \in Nat
          /\ ring[(i - 1) + k].to \in Nat
      BY <1>3, <2>1, <3>1
    <3> QED
      BY SMTT(30), <1>1, <3>2, <3>3, <3>4 DEF Upto
  <2> QED
    BY <2>2, <2>3
<1> QED
  BY <1>6, <1>7, <1>8 DEF InOrder

\* An interval that just ended comes after the others.
LEMMA TrainedInOrder ==
  ASSUME NEW ring, NEW top \in Nat, InOrder(ring, top), NEW n \in Nat \ {0}, n <= top,
         \A i \in 1..Len(ring) : ring[i].to >= n, NEW rate \in ActivityRates
  PROVE  InOrder(Trained(ring, [from |-> n, to |-> 0, value |-> rate]), top)
<1> DEFINE x == [from |-> n, to |-> 0, value |-> rate]
           s == Append(ring, x)
<1>1. ring \in Seq(Entries) /\ Len(ring) \in Nat
  BY DEF InOrder
<1>2. x \in Entries /\ x.from = n
  BY DEF Entries
<1> HIDE DEF x
<1>3. /\ s \in Seq(Entries) /\ Len(s) = Len(ring) + 1 /\ s[Len(ring) + 1] = x
      /\ \A i \in 1..Len(ring) : s[i] = ring[i]
  BY <1>1, <1>2
<1> HIDE DEF s
<1>4. InOrder(s, top)
  <2>1. ASSUME NEW i \in 1..Len(s)
        PROVE  s[i].from <= top /\ (i > 1 => s[i - 1].to >= s[i].from)
    <3>1. CASE i = Len(ring) + 1
      <4>1. s[i] = x /\ (i > 1 => i - 1 \in 1..Len(ring) /\ s[i - 1] = ring[i - 1])
        BY <1>1, <1>3, <3>1
      <4> QED
        BY <1>2, <4>1
    <3>2. CASE i # Len(ring) + 1
      <4>1. i \in 1..Len(ring) /\ (i > 1 => i - 1 \in 1..Len(ring))
        BY <1>1, <1>3, <3>2
      <4> QED
        BY <1>3, <4>1 DEF InOrder
    <3> QED
      BY <3>1, <3>2
  <2> QED
    BY <1>3, <2>1 DEF InOrder
<1>5. InOrder(Tail(s), top)
  <2> DEFINE t == Tail(s)
  <2>1. t \in Seq(Entries) /\ Len(t) = Len(ring) /\ \A i \in 1..Len(t) : t[i] = s[i + 1]
    BY <1>1, <1>3
  <2> HIDE DEF t
  <2>2. ASSUME NEW i \in 1..Len(t)
        PROVE  t[i].from <= top /\ (i > 1 => t[i - 1].to >= t[i].from)
    <3>1. /\ i + 1 \in 1..Len(s) /\ t[i] = s[i + 1] /\ i + 1 > 1 /\ (i + 1) - 1 = i
          /\ i > 1 => i - 1 \in 1..Len(t) /\ t[i - 1] = s[i]
      BY <1>1, <1>3, <2>1
    <3>2. s[i + 1].from <= top /\ s[i].to >= s[i + 1].from
      BY <1>4, <3>1 DEF InOrder
    <3> QED
      BY <3>1, <3>2
  <2> QED
    BY <2>1, <2>2 DEF InOrder, t
<1> QED
  BY <1>4, <1>5 DEF Trained, s, x

\* A source, the unbroken rates it has counted, and the ticks its ring is of.
SourceOK(s, row, top) ==
  /\ SourceFields \subseteq DOMAIN s
  /\ EpisodeCounted(s.episode, row)
  /\ InOrder(s.ring, top)
  /\ s.mark = NoMark => (~s.episode.open /\ s.ring = <<>>)

\* The rates that are unbroken after an observation.
RowAfter(s, c, n, given, row) ==
  IF s.mark = c /\ s.previous /\ n <= MaxInterval /\ given.kind = "usable"
  THEN More(row, given.rate, n, Most) ELSE <<>>

\* An observation of the same continuity.
LEMMA AdvancedFollows ==
  ASSUME NEW row \in Seq(ActivityRates), NEW top \in Nat, NEW s, SourceOK(s, row, top),
         NEW c, s.mark = c, c # NoMark, NEW n \in Nat \ {0}, NEW given \in ActivityReadings
  PROVE  /\ Follows(s, Advanced(s, n, given), RowAfter(s, c, n, given, row))
         /\ InOrder(Advanced(s, n, given).next.ring, Upto(top + n, Horizon))
         /\ Advanced(s, n, given).next.mark = c
         /\ RowAfter(s, c, n, given, row) \in Seq(ActivityRates)
<1> DEFINE r == Pruned(s.ring, n)
           t == [s EXCEPT !.ring = r, !.previous = given.kind \in {"usable", "decreased"}]
           well == s.previous /\ n <= MaxInterval /\ given.kind = "usable"
           row2 == RowAfter(s, c, n, given, row)
           o == Advanced(s, n, given)
           age2 == Upto(top + n, Horizon)
<1>1. Horizon \in Nat /\ MaxInterval \in Nat /\ MaxInterval < Horizon
  BY BaselineAssumption
<1>2. /\ SourceFields \subseteq DOMAIN s /\ EpisodeCounted(s.episode, row) /\ InOrder(s.ring, top)
  BY DEF SourceOK
<1>3. InOrder(r, age2) /\ \A i \in 1..Len(r) : r[i].to >= n
  BY <1>2, PrunedInOrder
<1>4. age2 \in Nat
  BY <1>1 DEF Upto
<1> HIDE DEF r
<1>5. /\ SourceFields \subseteq DOMAIN t /\ t.episode = s.episode /\ t.ring = r /\ t.mark = c
      /\ t.previous = (given.kind \in {"usable", "decreased"})
  BY <1>2 DEF SourceFields
<1>6. o = IF well THEN IF t.episode = NoEpisode THEN Quiet(t, n, given.rate)
                       ELSE InEpisode(t, n, given.rate)
          ELSE Broken(t)
  BY <1>5 DEF Advanced, r
<1>7. row2 = IF well THEN More(row, given.rate, n, Most) ELSE <<>>
  BY DEF RowAfter
<1>8. given.rate \in ActivityRates \/ given.kind # "usable"
  BY DEF ActivityReadings
<1>9. \A p, row3 : Follows(t, p, row3) => Follows(s, p, row3)
  BY <1>5 DEF Follows
<1> HIDE DEF t, o, row2
<1>10. SUFFICES /\ Follows(t, o, row2) /\ InOrder(o.next.ring, age2) /\ o.next.mark = c
                /\ row2 \in Seq(ActivityRates)
  BY <1>9 DEF o, row2
<1>11. CASE well
  <2>1. given.rate \in ActivityRates /\ row2 = More(row, given.rate, n, Most)
    BY <1>7, <1>8, <1>11
  <2>2. row2 \in Seq(ActivityRates)
    BY <2>1, KindsOfRates
  <2>3. CASE t.episode = NoEpisode
    <3>1. o = Quiet(t, n, given.rate)
      BY <1>6, <1>11, <2>3
    <3>2. /\ Follows(t, o, row2) /\ o.next.mark = t.mark
          /\ \/ o.next.ring = t.ring
             \/ o.next.ring = Trained(t.ring, [from |-> n, to |-> 0, value |-> given.rate])
      BY <1>5, <2>1, <2>3, <3>1, QuietFollows
    <3>3. n <= age2
      BY <1>1, <1>11 DEF Upto
    <3>4. InOrder(Trained(r, [from |-> n, to |-> 0, value |-> given.rate]), age2)
      BY <1>3, <1>4, <2>1, <3>3, TrainedInOrder
    <3> QED
      BY <1>3, <1>5, <2>2, <3>2, <3>4
  <2>4. CASE t.episode # NoEpisode
    <3>1. o = InEpisode(t, n, given.rate)
      BY <1>6, <1>11, <2>4
    <3>2. EpisodeCounted(t.episode, row)
      BY <1>2, <1>5
    <3>3. Follows(t, o, row2) /\ o.next.mark = t.mark /\ o.next.ring = t.ring
      BY <1>5, <2>1, <3>1, <3>2, InEpisodeFollows
    <3> QED
      BY <1>3, <1>5, <2>2, <3>3
  <2> QED
    BY <2>3, <2>4
<1>12. CASE ~well
  <2>1. o = Broken(t) /\ row2 = <<>> /\ row2 \in Seq(ActivityRates)
    BY <1>6, <1>7, <1>12
  <2>2. EpisodeCounted(t.episode, row)
    BY <1>2, <1>5
  <2>3. Follows(t, o, row2) /\ o.next.mark = t.mark /\ o.next.ring = t.ring
    BY <1>5, <2>1, <2>2, BrokenFollows
  <2> QED
    BY <1>3, <1>5, <2>1, <2>3
<1> QED
  BY <1>11, <1>12

\* An observation of another continuity, or the first one.
LEMMA EnteredFollows ==
  ASSUME NEW row \in Seq(ActivityRates), NEW top \in Nat, NEW s, SourceOK(s, row, top),
         NEW c, s.mark # c, c # NoMark, NEW given \in ActivityReadings
  PROVE  /\ Follows(s, Entered(s, c, given), <<>>)
         /\ \/ /\ Entered(s, c, given).next.mark = s.mark
               /\ InOrder(Entered(s, c, given).next.ring, top)
               /\ s.mark = NoMark => /\ ~Entered(s, c, given).next.episode.open
                                     /\ Entered(s, c, given).next.ring = <<>>
            \/ Entered(s, c, given).next.mark = c /\ Entered(s, c, given).next.ring = <<>>
<1> DEFINE o == Entered(s, c, given)
<1>1. /\ SourceFields \subseteq DOMAIN s /\ EpisodeCounted(s.episode, row) /\ InOrder(s.ring, top)
      /\ s.mark = NoMark => (~s.episode.open /\ s.ring = <<>>)
  BY DEF SourceOK
<1>2. <<>> \in Seq(ActivityRates)
  OBVIOUS
<1>3. CASE given.kind = "untimely"
  <2> DEFINE t == [s EXCEPT !.previous = FALSE]
  <2>1. o = Broken(t)
    BY <1>3 DEF Entered
  <2>2. /\ SourceFields \subseteq DOMAIN t /\ t.episode = s.episode /\ t.ring = s.ring
        /\ t.mark = s.mark
    BY <1>1 DEF SourceFields
  <2> HIDE DEF t, o
  <2>3. Follows(t, o, <<>>) /\ o.next.ring = t.ring /\ o.next.mark = t.mark
    BY <1>1, <1>2, <2>1, <2>2, BrokenFollows
  <2>4. Follows(s, o, <<>>)
    BY <2>2, <2>3 DEF Follows
  <2>5. ~s.episode.open => ~o.next.episode.open
    <3>1. SUFFICES ASSUME ~s.episode.open PROVE ~o.next.episode.open
      OBVIOUS
    <3>2. t.episode.open = s.episode.open
      BY <2>2
    <3>3. o = Outcome([t EXCEPT !.episode = NoEpisode], {})
      BY <2>1, <3>1, <3>2 DEF Broken
    <3>4. o.next.episode = NoEpisode
      BY <2>2, <3>3 DEF Outcome, SourceFields
    <3> QED
      BY <3>4 DEF NoEpisode
  <2> QED
    BY <1>1, <2>2, <2>3, <2>4, <2>5 DEF o
<1>4. CASE given.kind # "untimely"
  <2> DEFINE i == IF s.mark = NoMark THEN Outcome(s, {}) ELSE ActivityInterrupted(s)
             u == [i.next EXCEPT !.active = TRUE, !.mark = c, !.previous = given.kind # "failed",
                                 !.episode = NoEpisode,
                                 !.revision = IF s.mark = NoMark THEN @ ELSE @ + 1]
  <2>1. o = Outcome(u, i.told)
    BY <1>4 DEF Entered
  <2>2. SourceFields \subseteq DOMAIN i.next /\ i.next.ring = <<>>
        /\ i.told = IF s.episode.open THEN {"interrupted"} ELSE {}
    <3>1. CASE s.mark = NoMark
      BY <1>1, <3>1 DEF Outcome
    <3>2. CASE s.mark # NoMark
      <4>1. i = ActivityInterrupted(s)
        BY <3>2
      <4>2. i.told = IF s.episode.open THEN {"interrupted"} ELSE {}
        BY <4>1 DEF ActivityInterrupted, Outcome
      <4>3. Follows(s, i, <<>>) /\ i.next.ring = <<>>
        BY <1>1, <1>2, <4>1, InterruptedFollows
      <4> QED
        BY <4>2, <4>3 DEF Follows
    <3> QED
      BY <3>1, <3>2
  <2> HIDE DEF i
  <2>3. SourceFields \subseteq DOMAIN u /\ u.ring = <<>> /\ u.mark = c /\ u.episode = NoEpisode
    BY <2>2 DEF SourceFields
  <2> HIDE DEF u, o
  <2>4. o.next = u /\ o.told = i.told /\ DOMAIN o = {"next", "told"}
    BY <2>1 DEF Outcome
  <2>5. EpisodeCounted(NoEpisode, <<>>) /\ ~NoEpisode.open
    <3>1. \A S : Ends(<<>>, 0, S)
      BY <1>2, EmptyEnd
    <3> QED
      BY <3>1 DEF EpisodeCounted, EpisodeFields, NoEpisode
  <2>6. s.episode.open \in BOOLEAN
    BY <1>1 DEF EpisodeCounted
  <2>7. Follows(s, o, <<>>)
    BY <2>2, <2>3, <2>4, <2>5, <2>6 DEF Follows, ActivityStatuses
  <2> QED
    BY <2>3, <2>4, <2>7 DEF o
<1> QED
  BY <1>3, <1>4

\* An observation, whatever it is of.
LEMMA ObservedFollows ==
  ASSUME NEW row \in Seq(ActivityRates), NEW top \in Nat, NEW s, SourceOK(s, row, top),
         NEW c, c # NoMark, NEW n \in Nat \ {0}, NEW given \in ActivityReadings
  PROVE  LET o == ActivityObserved(s, c, n, given)
             row2 == RowAfter(s, c, n, given, row)
         IN /\ Follows(s, o, row2) /\ row2 \in Seq(ActivityRates)
            /\ SourceOK(o.next, row2, IF o.next.mark # s.mark THEN 0
                                      ELSE IF s.mark = c THEN Upto(top + n, Horizon) ELSE top)
            /\ o.next.mark = s.mark => s.mark # NoMark \/ o.next.ring = <<>>
<1> DEFINE o == ActivityObserved(s, c, n, given)
           row2 == RowAfter(s, c, n, given, row)
<1>1. CASE s.mark = c
  <2>1. o = Advanced(s, n, given)
    BY <1>1 DEF ActivityObserved
  <2> HIDE DEF o, row2
  <2>2. /\ Follows(s, o, row2) /\ InOrder(o.next.ring, Upto(top + n, Horizon)) /\ o.next.mark = c
        /\ row2 \in Seq(ActivityRates)
    BY <1>1, <2>1, AdvancedFollows DEF row2
  <2>3. SourceOK(o.next, row2, Upto(top + n, Horizon))
    BY <2>2 DEF SourceOK, Follows
  <2> QED
    BY <1>1, <2>2, <2>3 DEF o, row2
<1>2. CASE s.mark # c
  <2>1. o = Entered(s, c, given) /\ row2 = <<>> /\ row2 \in Seq(ActivityRates)
    BY <1>2 DEF ActivityObserved, RowAfter
  <2> HIDE DEF o, row2
  <2>2. /\ Follows(s, o, row2)
        /\ \/ /\ o.next.mark = s.mark /\ InOrder(o.next.ring, top)
              /\ s.mark = NoMark => ~o.next.episode.open /\ o.next.ring = <<>>
           \/ o.next.mark = c /\ o.next.ring = <<>>
    BY <1>2, <2>1, EnteredFollows
  <2>3. CASE o.next.mark = s.mark
    <3>1. SourceOK(o.next, row2, top)
      BY <1>2, <2>2, <2>3 DEF SourceOK, Follows
    <3> QED
      BY <1>2, <2>1, <2>2, <2>3, <3>1 DEF o, row2
  <2>4. CASE o.next.mark # s.mark
    <3>1. InOrder(<<>>, 0)
      BY DEF InOrder
    <3>2. SourceOK(o.next, row2, 0)
      BY <2>2, <2>4, <3>1 DEF SourceOK, Follows
    <3> QED
      BY <2>1, <2>2, <2>4, <3>2 DEF o, row2
  <2> QED
    BY <2>3, <2>4
<1> QED
  BY <1>1, <1>2

\* The source, its unbroken rates and its ring, and its row of the findings table.
ActivityInv ==
  /\ SourceOK(activity, unbroken, age)
  /\ unbroken \in Seq(ActivityRates) /\ age \in Nat
  /\ ActivityRowsAreLive

\* What a finding that opens or is resolved rests on.
ActivityVerdict ==
  /\ (activity'.episode.open /\ ~activity.episode.open) =>
       Ends(unbroken', Opening, Above(activity'.episode.high))
  /\ "resolved" \in activityTold' => Ends(unbroken', Recovery, Below(activity.episode.low))

\* A source that is saved with what it told keeps its row.
LEMMA SavedRows ==
  ASSUME ActivityRowsAreLive, activity.episode.open \in BOOLEAN, NEW row, NEW t,
         t.next.episode.open \in BOOLEAN, Follows(activity, t, row), ActivitySaved(activity, t)
  PROVE  ActivityRowsAreLive' /\ activity' = t.next /\ activityTold' = t.told
<1> DEFINE ends == t.told \cap {"resolved", "interrupted"} # {}
<1>1. /\ activity' = t.next /\ activityTold' = t.told
      /\ activityRows' = activityRows + (IF "open" \in t.told /\ ~activity.episode.open THEN 1 ELSE 0)
                                      - (IF ends /\ activity.episode.open THEN 1 ELSE 0)
  BY DEF ActivitySaved
<1>2. /\ ("open" \in t.told) <=> t.next.episode.open
      /\ activity.episode.open => (ends <=> ~t.next.episode.open)
  BY DEF Follows
<1> HIDE DEF ends
<1>3. activityRows = IF activity.episode.open THEN 1 ELSE 0
  BY DEF ActivityRowsAreLive
<1>4. CASE activity.episode.open
  BY <1>1, <1>2, <1>3, <1>4 DEF ActivityRowsAreLive
<1>5. CASE ~activity.episode.open
  BY <1>1, <1>2, <1>3, <1>5 DEF ActivityRowsAreLive
<1> QED
  BY <1>1, <1>4, <1>5

\* A source that ends or starts over.
LEMMA EndedStep ==
  ASSUME ActivityInv, NEW t, DOMAIN t = {"next", "told"}, t.told = ActivityInterrupted(activity).told,
         SourceFields \subseteq DOMAIN t.next, t.next.episode = NoEpisode, t.next.ring = <<>>,
         ActivitySaved(activity, t), unbroken' = <<>>, age' = 0
  PROVE  ActivityInv' /\ ActivityVerdict
<1> DEFINE i == ActivityInterrupted(activity)
<1>1. /\ SourceOK(activity, unbroken, age) /\ SourceFields \subseteq DOMAIN activity
      /\ EpisodeCounted(activity.episode, unbroken) /\ ActivityRowsAreLive
  BY DEF ActivityInv, SourceOK
<1>2. activity.episode.open \in BOOLEAN
  BY <1>1 DEF EpisodeCounted
<1>3. <<>> \in Seq(ActivityRates) /\ InOrder(<<>>, 0)
  BY DEF InOrder
<1>4. Follows(activity, i, <<>>) /\ i.next.episode = NoEpisode
  BY <1>1, <1>3, InterruptedFollows
<1>5. Follows(activity, t, <<>>)
  BY <1>4 DEF Follows
<1>6. ~NoEpisode.open /\ NoEpisode.open \in BOOLEAN
  BY DEF NoEpisode
<1>7. ActivityRowsAreLive' /\ activity' = t.next /\ activityTold' = t.told
  BY <1>1, <1>2, <1>5, <1>6, SavedRows
<1>8. SourceOK(t.next, <<>>, 0)
  BY <1>3, <1>5, <1>6 DEF SourceOK, Follows
<1>9. ActivityInv'
  BY <1>3, <1>7, <1>8 DEF ActivityInv
<1>10. ActivityVerdict
  BY <1>5, <1>7 DEF Follows, ActivityVerdict
<1> QED
  BY <1>9, <1>10

\* A collection of the driver.
LEMMA CollectStep ==
  ASSUME ActivityInv, NEW c \in Continuities, NEW n \in 1..(MaxInterval + 1),
         NEW read \in ActivityReadings, NEW admitted \in BOOLEAN, NEW oversized \in BOOLEAN,
         CollectActivity(c, n, read, admitted, oversized)
  PROVE  ActivityInv' /\ ActivityVerdict
<1> DEFINE heard == IF admitted \/ read.kind = "untimely" THEN read
                    ELSE [kind |-> "failed", rate |-> 0]
           s == [activity EXCEPT !.active = TRUE]
           t == ActivityObserved(s, c, n, heard)
           i == ActivityInterrupted(t.next)
           u == IF oversized THEN Outcome(i.next, i.told \cup (t.told \ {"open"})) ELSE t
           support == IF admitted /\ ~oversized THEN "supported" ELSE "capacity_limited"
           v == [u EXCEPT !.next.support = support, !.next.context = activitySession]
           row2 == RowAfter(s, c, n, heard, unbroken)
           age2 == IF t.next.mark # activity.mark \/ oversized THEN 0
                   ELSE IF activity.mark = c THEN Upto(age + n, Horizon) ELSE age
<1>1. ActivitySaved(activity, v) /\ unbroken' = Unbroken(activity, c, n, heard) /\ age' = age2
  BY DEF CollectActivity
<1>2. heard \in ActivityReadings
  BY DEF ActivityReadings
<1>3. c # NoMark
  BY DEF Continuities, NoMark
<1>4. n \in Nat \ {0}
  BY BaselineAssumption
<1>5. /\ SourceFields \subseteq DOMAIN activity /\ EpisodeCounted(activity.episode, unbroken)
      /\ InOrder(activity.ring, age) /\ unbroken \in Seq(ActivityRates) /\ age \in Nat
      /\ activity.mark = NoMark => (~activity.episode.open /\ activity.ring = <<>>)
      /\ ActivityRowsAreLive
  BY DEF ActivityInv, SourceOK
<1>6. /\ SourceFields \subseteq DOMAIN s /\ s.episode = activity.episode /\ s.ring = activity.ring
      /\ s.mark = activity.mark /\ s.previous = activity.previous
  BY <1>5 DEF SourceFields
<1> HIDE DEF heard, s
<1>7. SourceOK(s, unbroken, age)
  BY <1>5, <1>6 DEF SourceOK
<1>8. /\ Follows(s, t, row2) /\ row2 \in Seq(ActivityRates)
      /\ SourceOK(t.next, row2, IF t.next.mark # s.mark THEN 0
                                ELSE IF s.mark = c THEN Upto(age + n, Horizon) ELSE age)
  BY <1>2, <1>3, <1>4, <1>5, <1>7, ObservedFollows
<1>9. unbroken' = row2
  BY <1>1, <1>6 DEF Unbroken, RowAfter, More, Most
<1> HIDE DEF t, row2
<1>10. Follows(activity, t, row2)
  BY <1>6, <1>8 DEF Follows
<1>11. /\ Follows(activity, u, row2)
       /\ oversized => u.next.ring = <<>> /\ u.next.episode = NoEpisode
       /\ ~oversized => u = t
  <2>1. CASE oversized
    <3>1. /\ SourceFields \subseteq DOMAIN t.next /\ EpisodeCounted(t.next.episode, row2)
          /\ t.told \subseteq ActivityStatuses
          /\ activity.episode.open =>
               ((t.told \cap {"resolved", "interrupted"} # {}) <=> ~t.next.episode.open)
          /\ "resolved" \in t.told => Ends(row2, Recovery, Below(activity.episode.low))
      BY <1>10 DEF Follows
    <3>2. Follows(t.next, i, row2) /\ i.next.ring = <<>> /\ i.next.episode = NoEpisode
      BY <1>8, <3>1, InterruptedFollows
    <3>3. i.told = IF t.next.episode.open THEN {"interrupted"} ELSE {}
      BY DEF ActivityInterrupted, Outcome
    <3>4. u = Outcome(i.next, i.told \cup (t.told \ {"open"}))
      BY <2>1
    <3> HIDE DEF i, u
    <3>5. u.next = i.next /\ u.told = i.told \cup (t.told \ {"open"})
          /\ DOMAIN u = {"next", "told"}
      BY <3>4 DEF Outcome
    <3>6. ~NoEpisode.open /\ NoEpisode.open = FALSE
      BY DEF NoEpisode
    <3>7. /\ u.told \subseteq ActivityStatuses /\ "open" \notin u.told
          /\ activity.episode.open => u.told \cap {"resolved", "interrupted"} # {}
          /\ "resolved" \in u.told => "resolved" \in t.told
      BY <3>1, <3>3, <3>5 DEF ActivityStatuses
    <3>8. SourceFields \subseteq DOMAIN u.next /\ EpisodeCounted(u.next.episode, row2)
      BY <3>2, <3>5 DEF Follows
    <3> QED
      BY <2>1, <3>1, <3>2, <3>5, <3>6, <3>7, <3>8 DEF Follows
  <2>2. CASE ~oversized
    BY <1>10, <2>2
  <2> QED
    BY <2>1, <2>2
<1>12. SourceOK(u.next, row2, age2)
  <2>1. CASE oversized
    <3>1. InOrder(<<>>, 0) /\ ~NoEpisode.open
      BY DEF InOrder, NoEpisode
    <3> QED
      BY <1>11, <2>1, <3>1 DEF SourceOK, Follows
  <2>2. CASE ~oversized
    BY <1>6, <1>8, <1>11, <2>2
  <2> QED
    BY <2>1, <2>2
<1>13. v.told = u.told /\ DOMAIN v = DOMAIN u /\ SourceFields \subseteq DOMAIN v.next /\ v.next.episode = u.next.episode
       /\ v.next.ring = u.next.ring /\ v.next.mark = u.next.mark
  <2>1. SourceFields \subseteq DOMAIN u.next
    BY <1>11 DEF Follows
  <2>2. DOMAIN u = {"next", "told"}
    BY <1>11 DEF Follows
  <2> HIDE DEF u
  <2> QED
    BY <2>1, <2>2 DEF SourceFields
<1> HIDE DEF v, u, age2
<1>14. Follows(activity, v, row2)
  BY <1>11, <1>13 DEF Follows
<1>15. activity.episode.open \in BOOLEAN /\ v.next.episode.open \in BOOLEAN
  BY <1>5, <1>14 DEF Follows, EpisodeCounted
<1>16. ActivityRowsAreLive' /\ activity' = v.next /\ activityTold' = v.told
  BY <1>1, <1>5, <1>14, <1>15, SavedRows
<1>17. SourceOK(v.next, row2, age2)
  BY <1>12, <1>13 DEF SourceOK
<1>18. age2 \in Nat
  BY <1>4, <1>5, BaselineAssumption DEF age2, Upto
<1>19. ActivityInv'
  BY <1>1, <1>8, <1>9, <1>16, <1>17, <1>18 DEF ActivityInv
<1>20. ActivityVerdict
  BY <1>9, <1>14, <1>16 DEF Follows, ActivityVerdict
<1> QED
  BY <1>19, <1>20

\* Each step of the detector keeps its invariant, and what it tells is earned.
LEMMA ActivityNext ==
  ActivityInv /\ [NextDetection]_detectionVars
    => ActivityInv' /\ (ActivityVerdict \/ UNCHANGED detectionVars)
<1> SUFFICES ASSUME ActivityInv, [NextDetection]_detectionVars
             PROVE  ActivityInv' /\ (ActivityVerdict \/ UNCHANGED detectionVars)
  OBVIOUS
<1>1. /\ SourceFields \subseteq DOMAIN activity /\ EpisodeCounted(activity.episode, unbroken)
      /\ SourceOK(activity, unbroken, age) /\ ActivityRowsAreLive
  BY DEF ActivityInv, SourceOK
<1> DEFINE i == ActivityInterrupted(activity)
<1>2. /\ DOMAIN i = {"next", "told"} /\ SourceFields \subseteq DOMAIN i.next
      /\ i.next.episode = NoEpisode /\ i.next.ring = <<>>
  <2>1. <<>> \in Seq(ActivityRates)
    OBVIOUS
  <2>2. /\ Follows(activity, i, <<>>) /\ i.next.ring = <<>> /\ i.next.episode = NoEpisode
    BY <1>1, <2>1, InterruptedFollows
  <2> QED
    BY <2>2 DEF Follows
<1> HIDE DEF i
<1>3. ASSUME NEW c \in Continuities, NEW n \in 1..(MaxInterval + 1),
             NEW read \in ActivityReadings, NEW admitted \in BOOLEAN, NEW oversized \in BOOLEAN,
             CollectActivity(c, n, read, admitted, oversized)
      PROVE  ActivityInv' /\ ActivityVerdict
  BY <1>3, CollectStep
<1>4. ASSUME NEW admitted \in BOOLEAN, LateActivity(admitted)
      PROVE  ActivityInv' /\ ActivityVerdict
  <2> DEFINE support == IF admitted THEN "supported" ELSE "capacity_limited"
             s == [activity EXCEPT !.active = TRUE, !.context = activitySession, !.support = support]
  <2>1. /\ activity' = s /\ activityTold' = {} /\ activityRows' = activityRows
        /\ unbroken' = unbroken /\ age' = age
    BY <1>4 DEF LateActivity
  <2>2. /\ SourceFields \subseteq DOMAIN s /\ s.episode = activity.episode
        /\ s.ring = activity.ring /\ s.mark = activity.mark
    BY <1>1 DEF SourceFields
  <2> HIDE DEF s
  <2>3. SourceOK(s, unbroken, age)
    BY <1>1, <2>2 DEF SourceOK
  <2>4. ActivityRowsAreLive'
    BY <1>1, <2>1, <2>2 DEF ActivityRowsAreLive
  <2>5. ActivityInv'
    BY <2>1, <2>3, <2>4 DEF ActivityInv
  <2>6. ActivityVerdict
    BY <2>1, <2>2 DEF ActivityVerdict
  <2> QED
    BY <2>5, <2>6
<1>5. ASSUME NEW gone \in BOOLEAN, NEW current, ReconcileActivity(gone, current)
      PROVE  ActivityInv' /\ ActivityVerdict
  <2> DEFINE ends == activity.active /\ activity.support # "none"
                       /\ (gone \/ activity.context # current)
             t == [i EXCEPT !.next.context = current]
  <2>1. CASE ends
    <3>1. ActivitySaved(activity, t) /\ unbroken' = <<>> /\ age' = 0
      BY <1>5, <2>1 DEF ReconcileActivity, i
    <3>2. /\ DOMAIN t = {"next", "told"} /\ t.told = i.told
          /\ SourceFields \subseteq DOMAIN t.next /\ t.next.episode = NoEpisode
          /\ t.next.ring = <<>>
      BY <1>2 DEF SourceFields
    <3> HIDE DEF t
    <3> QED
      BY <3>1, <3>2, EndedStep DEF i
  <2>2. CASE ~ends
    <3>1. /\ activityTold' = {} /\ activity' = activity /\ activityRows' = activityRows
          /\ unbroken' = unbroken /\ age' = age
      BY <1>5, <2>2 DEF ReconcileActivity
    <3> QED
      BY <3>1 DEF ActivityInv, ActivityRowsAreLive, ActivityVerdict
  <2> QED
    BY <2>1, <2>2
<1>6. ASSUME Rebaseline PROVE ActivityInv' /\ ActivityVerdict
  <2> DEFINE t == [i EXCEPT !.next.revision = @ + 1, !.next.active = TRUE]
  <2>1. ActivitySaved(activity, t) /\ unbroken' = <<>> /\ age' = 0
    BY <1>6 DEF Rebaseline, i
  <2>2. /\ DOMAIN t = {"next", "told"} /\ t.told = i.told
        /\ SourceFields \subseteq DOMAIN t.next /\ t.next.episode = NoEpisode
        /\ t.next.ring = <<>>
    BY <1>2 DEF SourceFields
  <2> HIDE DEF t
  <2> QED
    BY <2>1, <2>2, EndedStep DEF i
<1>7. CASE UNCHANGED detectionVars
  <2>1. activity' = activity /\ activityTold' = activityTold /\ activityRows' = activityRows
        /\ unbroken' = unbroken /\ age' = age
    BY <1>7 DEF detectionVars
  <2>2. ActivityInv'
    BY <2>1 DEF ActivityInv, ActivityRowsAreLive
  <2> QED
    BY <1>7, <2>2
<1>8. \A b \in ActivityAdmissible : b \in BOOLEAN
  BY DEF ActivityAdmissible
<1> QED
  BY <1>3, <1>4, <1>5, <1>6, <1>7, <1>8 DEF NextDetection

\* Nothing is known of the driver, and nothing is open.
LEMMA ActivityInit == InitDetection => ActivityInv
<1> SUFFICES ASSUME InitDetection PROVE ActivityInv
  OBVIOUS
<1>1. /\ activity = NewActivity /\ activityRows = 0 /\ unbroken = <<>> /\ age = 0
  BY DEF InitDetection
<1>2. <<>> \in Seq(ActivityRates) /\ InOrder(<<>>, 0)
  BY DEF InOrder
<1>3. EpisodeCounted(NoEpisode, <<>>) /\ ~NoEpisode.open
  <2>1. \A S : Ends(<<>>, 0, S)
    BY <1>2, EmptyEnd
  <2> QED
    BY <2>1 DEF EpisodeCounted, EpisodeFields, NoEpisode
<1>4. SourceFields \subseteq DOMAIN activity /\ activity.episode = NoEpisode /\ activity.ring = <<>>
  BY <1>1 DEF NewActivity, SourceFields
<1>5. SourceOK(activity, unbroken, age)
  BY <1>1, <1>2, <1>3, <1>4 DEF SourceOK
<1> QED
  BY <1>1, <1>2, <1>3, <1>4, <1>5 DEF ActivityInv, ActivityRowsAreLive

\* The detector never leaves its invariant.
LEMMA ActivityInvariance == Spec => []ActivityInv
<1>1. Init => ActivityInv
  BY ActivityInit DEF Init
<1>2. ActivityInv /\ [Next]_vars => ActivityInv'
  BY StepOfEach, ActivityNext
<1> QED
  BY <1>1, <1>2, PTL DEF Spec

\* What the thresholds of the activity detector are computed from was measured in this
\* continuity, within the horizon and since the last rebaseline, and no moment of it counts
\* twice (detection.rs, prune and train): Unmixed.
THEOREM BaselinesAreUnmixed == Spec => []Unmixed
<1>1. ActivityInv => Unmixed
  <2>1. SUFFICES ASSUME InOrder(activity.ring, age) PROVE Unmixed
    BY DEF ActivityInv, SourceOK
  <2>2. DOMAIN activity.ring = 1..Len(activity.ring)
    BY <2>1 DEF InOrder
  <2> QED
    BY <2>1, <2>2 DEF InOrder, Unmixed
<1> QED
  BY <1>1, ActivityInvariance, PTL

\* A storage activity finding opens only after an unbroken opening time of rates above the
\* threshold frozen when it began, and is resolved only after an unbroken recovery time below
\* the other (detection.rs, observe): FindingEarned.
THEOREM FindingsAreEarned == Spec => FindingEarned
<1> DEFINE Earned ==
      /\ activity'.episode.open /\ ~activity.episode.open =>
           Lasted(Opening, LAMBDA r : r > activity'.episode.high)
      /\ "resolved" \in activityTold' => Lasted(Recovery, LAMBDA r : r <= activity.episode.low)
<1>1. ActivityInv /\ [NextDetection]_detectionVars => (Earned \/ UNCHANGED detectionVars)
  <2>1. ActivityVerdict => Earned
    BY DEF ActivityVerdict, Lasted, Ends, Above, Below
  <2> QED
    BY <2>1, ActivityNext
<1>2. ActivityInv /\ [Next]_vars => [Earned]_detectionVars
  BY <1>1, StepOfEach
<1>3. Spec => [][Earned]_detectionVars
  BY <1>2, ActivityInvariance, PTL DEF Spec
<1> QED
  BY <1>3 DEF FindingEarned

-----------------------------------------------------------------------------
(* The drive assessment.                                                   *)

\* The fields of a source, its signals, and what can be told of a rule.
DriveFields == {"active", "support", "context", "continuity", "identity", "counter",
                "performance", "signals"}
Signals == [live : BOOLEAN, clears : {0, 1}]
EndsOf(r) == {<<r, "resolved">>, <<r, "interrupted">>}
TellsOf(r) == EndsOf(r) \cup {<<r, "open">>}

\* A source with what it tells.
Shaped(a) ==
  /\ DOMAIN a = {"next", "told"} /\ DriveFields \subseteq DOMAIN a.next
  /\ a.next.signals \in [DriveRules -> Signals]

\* From a to b only the signal of r moves, and its end is told.
Moved(a, b, r) ==
  /\ Shaped(b)
  /\ a.told \subseteq b.told /\ b.told \subseteq a.told \cup TellsOf(r)
  /\ \A q \in DriveRules \ {r} : b.next.signals[q] = a.next.signals[q]
  /\ (Live(a, r) /\ ~Live(b, r)) => b.told \cap EndsOf(r) # {}
  /\ b.next.continuity = a.next.continuity /\ b.next.identity = a.next.identity

\* Neither the counter nor the service times are touched.
Untouched(a, b) ==
  b.next.counter = a.next.counter /\ b.next.performance = a.next.performance

\* b has the source of a, with signal x of rule r.
WithSignal(a, b, r, x) ==
  DOMAIN b = {"next", "told"} /\ b.next = [a.next EXCEPT !.signals[r] = x]

\* A source with another signal has all its other fields.
LEMMA SignalSet ==
  ASSUME NEW a, Shaped(a), NEW r \in DriveRules, NEW x \in Signals, NEW b,
         WithSignal(a, b, r, x)
  PROVE  /\ Shaped(b) /\ Untouched(a, b)
         /\ b.next.signals[r] = x
         /\ \A q \in DriveRules \ {r} : b.next.signals[q] = a.next.signals[q]
         /\ b.next.continuity = a.next.continuity /\ b.next.identity = a.next.identity
         /\ b.next.active = a.next.active
<1>1. b.next.signals = [a.next.signals EXCEPT ![r] = x]
  BY DEF Shaped, DriveFields, WithSignal
<1>2. b.next.signals \in [DriveRules -> Signals]
  BY <1>1 DEF Shaped
<1> QED
  BY <1>1, <1>2 DEF Shaped, DriveFields, Untouched, WithSignal

\* A finding that ends is told, and its signal is cleared.
LEMMA ClosedMoves ==
  ASSUME NEW a, Shaped(a), NEW r \in DriveRules, NEW status \in {"resolved", "interrupted"}
  PROVE  LET b == Closed(a, r, status)
         IN /\ Moved(a, b, r) /\ Untouched(a, b)
            /\ b.next.signals[r] = [live |-> FALSE, clears |-> 0]
            /\ b.told \subseteq a.told \cup {<<r, status>>}
<1> DEFINE b == Closed(a, r, status)
           x == [live |-> FALSE, clears |-> 0]
<1>1. /\ WithSignal(a, b, r, x)
      /\ b.told = IF Live(a, r) THEN a.told \cup {<<r, status>>} ELSE a.told
  BY DEF Closed, WithSignal
<1>2. x \in Signals /\ ~x.live
  BY DEF Signals
<1> HIDE DEF b, x
<1>3. /\ Shaped(b) /\ Untouched(a, b) /\ b.next.signals[r] = x
      /\ \A q \in DriveRules \ {r} : b.next.signals[q] = a.next.signals[q]
      /\ b.next.continuity = a.next.continuity /\ b.next.identity = a.next.identity
  BY <1>1, <1>2, SignalSet
<1>4. <<r, status>> \in EndsOf(r)
  BY DEF EndsOf
<1>5. Moved(a, b, r)
  BY <1>1, <1>3, <1>4 DEF Moved, TellsOf
<1> QED
  BY <1>1, <1>3, <1>5 DEF b, x

\* A finding that opens is told, and its signal is live.
LEMMA OpenedMoves ==
  ASSUME NEW a, Shaped(a), NEW r \in DriveRules
  PROVE  LET b == Opened(a, r)
         IN /\ Moved(a, b, r) /\ Untouched(a, b)
            /\ b.next.signals[r] = [live |-> TRUE, clears |-> 0]
            /\ b.told = a.told \cup {<<r, "open">>}
<1> DEFINE b == Opened(a, r)
           x == [live |-> TRUE, clears |-> 0]
<1>1. /\ WithSignal(a, b, r, x)
      /\ b.told = a.told \cup {<<r, "open">>}
  BY DEF Opened, WithSignal
<1>2. x \in Signals /\ x.live
  BY DEF Signals
<1> HIDE DEF b, x
<1>3. /\ Shaped(b) /\ Untouched(a, b) /\ b.next.signals[r] = x
      /\ \A q \in DriveRules \ {r} : b.next.signals[q] = a.next.signals[q]
      /\ b.next.continuity = a.next.continuity /\ b.next.identity = a.next.identity
  BY <1>1, <1>2, SignalSet
<1>4. Moved(a, b, r)
  BY <1>1, <1>2, <1>3 DEF Moved, TellsOf, Live
<1> QED
  BY <1>1, <1>3, <1>4 DEF b, x

\* A signal whose clear observations are counted anew.
Recounted(a, r, n) == [a EXCEPT !.next.signals[r].clears = n]

\* Only the count of a signal moves, and nothing is told.
LEMMA ClearsSet ==
  ASSUME NEW a, Shaped(a), NEW r \in DriveRules, NEW n \in {0, 1}
  PROVE  LET b == Recounted(a, r, n)
         IN /\ Moved(a, b, r) /\ Untouched(a, b) /\ b.told = a.told
            /\ b.next.signals[r].clears = n /\ Live(b, r) = Live(a, r)
<1> DEFINE b == Recounted(a, r, n)
           x == [a.next.signals[r] EXCEPT !.clears = n]
<1>1. a.next.signals[r] \in Signals
  BY DEF Shaped
<1>2. x \in Signals
  BY <1>1 DEF Signals
<1>3. x.clears = n /\ x.live = a.next.signals[r].live
  BY <1>1 DEF Signals
<1>4. WithSignal(a, b, r, x) /\ b.told = a.told
  BY DEF Shaped, WithSignal, Recounted
<1> HIDE DEF x, b
<1>5. /\ Shaped(b) /\ Untouched(a, b) /\ b.next.signals[r] = x
      /\ \A q \in DriveRules \ {r} : b.next.signals[q] = a.next.signals[q]
      /\ b.next.continuity = a.next.continuity /\ b.next.identity = a.next.identity
  BY <1>2, <1>4, SignalSet
<1>6. Live(b, r) = Live(a, r)
  BY <1>3, <1>5 DEF Live
<1> QED
  BY <1>3, <1>4, <1>5, <1>6 DEF Moved, b

\* A source that is left alone.
LEMMA SameMoves ==
  ASSUME NEW a, Shaped(a), NEW r \in DriveRules
  PROVE  Moved(a, a, r) /\ Untouched(a, a)
BY DEF Moved, Untouched

\* A rule that has judged an observation: what is told of it, and what it counts.
LEMMA AppliedMoves ==
  ASSUME NEW a, Shaped(a), NEW r \in DriveRules, NEW verdict \in {"bad", "clear", "unknown"}
  PROVE  LET b == Applied(a, r, verdict)
         IN /\ Moved(a, b, r) /\ Untouched(a, b)
            /\ <<r, "open">> \in b.told => <<r, "open">> \in a.told \/ verdict = "bad"
            /\ <<r, "resolved">> \in b.told =>
                 \/ <<r, "resolved">> \in a.told
                 \/ verdict = "clear" /\ a.next.signals[r].clears = 1
            /\ b.next.signals[r].clears = 1 => verdict = "clear"
<1> DEFINE b == Applied(a, r, verdict)
<1>1. a.next.signals[r] \in Signals
  BY DEF Shaped
<1>2. CASE verdict = "bad"
  <2>1. b = Opened(a, r)
    BY <1>2 DEF Applied
  <2>2. /\ Moved(a, b, r) /\ Untouched(a, b)
        /\ b.next.signals[r] = [live |-> TRUE, clears |-> 0]
        /\ b.told = a.told \cup {<<r, "open">>}
    BY <2>1, OpenedMoves
  <2> QED
    BY <1>2, <2>2
<1>3. CASE verdict = "clear"
  <2>1. b = Cleared(a, r)
    BY <1>3 DEF Applied
  <2>2. CASE ~Live(a, r)
    BY <1>3, <2>1, <2>2, SameMoves DEF Cleared
  <2>3. CASE Live(a, r) /\ a.next.signals[r].clears = 1
    <3>1. b = Closed(a, r, "resolved")
      BY <2>1, <2>3 DEF Cleared, Required
    <3>2. /\ Moved(a, b, r) /\ Untouched(a, b)
          /\ b.next.signals[r] = [live |-> FALSE, clears |-> 0]
          /\ b.told \subseteq a.told \cup {<<r, "resolved">>}
      BY <3>1, ClosedMoves
    <3> QED
      BY <1>3, <2>3, <3>2
  <2>4. CASE Live(a, r) /\ a.next.signals[r].clears = 0
    <3>1. b = Recounted(a, r, 1)
      <4>1. a.next.signals[r].clears + 1 = 1
        BY <2>4
      <4>2. b = [a EXCEPT !.next.signals[r].clears = @ + 1]
        BY <2>1, <2>4, <4>1 DEF Cleared, Required
      <4> QED
        BY <4>1, <4>2 DEF Recounted
    <3>2. Moved(a, b, r) /\ Untouched(a, b) /\ b.told = a.told
      BY <3>1, ClearsSet
    <3> QED
      BY <1>3, <3>2
  <2>5. a.next.signals[r].clears \in {0, 1}
    BY <1>1 DEF Signals
  <2> QED
    BY <2>2, <2>3, <2>4, <2>5
<1>4. CASE verdict = "unknown"
  <2>1. b = Recounted(a, r, 0)
    BY <1>4 DEF Applied, Unjudged, Recounted
  <2>2. Moved(a, b, r) /\ Untouched(a, b) /\ b.told = a.told /\ b.next.signals[r].clears = 0
    BY <2>1, ClearsSet
  <2> QED
    BY <1>4, <2>2
<1> QED
  BY <1>2, <1>3, <1>4

\* What is interrupted ends every finding, and forgets what was counted.
LEMMA InterruptedEnds ==
  ASSUME NEW a, Shaped(a)
  PROVE  LET b == Interrupted(a)
         IN /\ Shaped(b) /\ a.told \subseteq b.told
            /\ b.told \subseteq a.told \cup (DriveRules \X {"interrupted"})
            /\ \A r \in DriveRules : /\ b.next.signals[r] = [live |-> FALSE, clears |-> 0]
                                     /\ Live(a, r) => <<r, "interrupted">> \in b.told
            /\ b.next.counter = NoCounter /\ b.next.performance = NewPerformance
            /\ b.next.continuity = a.next.continuity /\ b.next.identity = a.next.identity
<1> DEFINE b == Interrupted(a)
           none == [r \in DriveRules |-> [live |-> FALSE, clears |-> 0]]
<1>1. /\ DOMAIN b = {"next", "told"}
      /\ b.next = [a.next EXCEPT !.signals = none, !.counter = NoCounter,
                                 !.performance = NewPerformance, !.active = FALSE]
      /\ b.told = a.told \cup {<<r, "interrupted">> : r \in {q \in DriveRules : Live(a, q)}}
  BY DEF Interrupted
<1>2. none \in [DriveRules -> Signals]
  BY DEF Signals
<1>3. \A r \in DriveRules : none[r] = [live |-> FALSE, clears |-> 0]
  OBVIOUS
<1> HIDE DEF b, none
<1>4. /\ b.next.signals = none /\ b.next.counter = NoCounter
      /\ b.next.performance = NewPerformance
      /\ b.next.continuity = a.next.continuity /\ b.next.identity = a.next.identity
      /\ DriveFields \subseteq DOMAIN b.next
  BY <1>1 DEF Shaped, DriveFields
<1>5. Shaped(b)
  BY <1>1, <1>2, <1>4 DEF Shaped
<1>6. /\ a.told \subseteq b.told
      /\ b.told \subseteq a.told \cup (DriveRules \X {"interrupted"})
      /\ \A r \in DriveRules : Live(a, r) => <<r, "interrupted">> \in b.told
  BY <1>1
<1> QED
  BY <1>3, <1>4, <1>5, <1>6 DEF b

\* A finding of the drive before that is no longer followed has been told.
Tells(d, a) ==
  \A r \in DriveRules : (d.signals[r].live /\ ~Live(a, r)) => a.told \cap EndsOf(r) # {}

\* What has been told stays told when another signal moves.
LEMMA MovedTells ==
  ASSUME NEW d, NEW a, NEW b, NEW r \in DriveRules, Tells(d, a), Moved(a, b, r)
  PROVE  Tells(d, b)
<1>1. SUFFICES ASSUME NEW q \in DriveRules, d.signals[q].live, ~Live(b, q)
               PROVE  b.told \cap EndsOf(q) # {}
  BY DEF Tells
<1>2. a.told \subseteq b.told /\ ((Live(a, r) /\ ~Live(b, r)) => b.told \cap EndsOf(r) # {})
  BY DEF Moved
<1>3. CASE Live(a, q)
  <2>1. q = r
    BY <1>1, <1>3 DEF Moved, Live
  <2> QED
    BY <1>1, <1>2, <1>3, <2>1
<1>4. CASE ~Live(a, q)
  BY <1>1, <1>2, <1>4 DEF Tells
<1> QED
  BY <1>3, <1>4

\* A drive that is not followed has nothing open and nothing counted.
Idle(s) ==
  /\ \A r \in DriveRules : s.signals[r] = [live |-> FALSE, clears |-> 0]
  /\ s.counter = NoCounter /\ s.performance = NewPerformance

\* The drive that an observation is of: the one followed, or one that is new.
Arrived(d, a, src, o) ==
  /\ Shaped(a) /\ Tells(d, a) /\ a.told \subseteq DriveRules \X {"interrupted"}
  /\ a.next.continuity = src
  /\ a.next.identity = IF o.identified THEN o.identity ELSE d.identity
  /\ IF d.continuity = src /\ d.identity = a.next.identity
     THEN /\ a.told = {} /\ a.next.signals = d.signals
          /\ a.next.counter = d.counter /\ a.next.performance = d.performance
     ELSE Idle(a.next)

\* An observation finds the drive followed, or starts over with the new one.
LEMMA Arrival ==
  ASSUME NEW d, DriveFields \subseteq DOMAIN d, d.signals \in [DriveRules -> Signals],
         d.continuity = NoSource => Idle(d), NEW src, src # NoSource, NEW o
  PROVE  Arrived(d, Identified(Joins([next |-> [d EXCEPT !.active = TRUE], told |-> {}], src),
                               d.continuity = NoSource, o), src, o)
<1> DEFINE s == [d EXCEPT !.active = TRUE]
           a == [next |-> s, told |-> {}]
           first == d.continuity = NoSource
           b == IF a.next.continuity \notin {NoSource, src} THEN Interrupted(a) ELSE a
           c == Joins(a, src)
           e == IF ~first /\ c.next.identity # o.identity THEN Interrupted(c) ELSE c
           f == Identified(c, first, o)
<1>1. /\ DriveFields \subseteq DOMAIN s /\ s.signals = d.signals /\ s.counter = d.counter
      /\ s.performance = d.performance /\ s.continuity = d.continuity /\ s.identity = d.identity
  BY DEF DriveFields
<1> HIDE DEF s
<1>2. Shaped(a) /\ a.next = s /\ a.told = {} /\ Tells(d, a)
  BY <1>1 DEF Shaped, Tells, Live
<1> HIDE DEF a
<1>3. /\ Shaped(b) /\ Tells(d, b) /\ b.told \subseteq DriveRules \X {"interrupted"}
      /\ b.next.identity = d.identity
      /\ d.continuity \in {NoSource, src} => b = a
      /\ d.continuity \notin {NoSource, src} => Idle(b.next)
  <2>1. CASE d.continuity \in {NoSource, src}
    BY <1>1, <1>2, <2>1
  <2>2. CASE d.continuity \notin {NoSource, src}
    <3>1. b = Interrupted(a)
      BY <1>1, <1>2, <2>2
    <3> HIDE DEF b
    <3>2. /\ Shaped(b) /\ a.told \subseteq b.told
          /\ b.told \subseteq a.told \cup (DriveRules \X {"interrupted"})
          /\ \A r \in DriveRules : /\ b.next.signals[r] = [live |-> FALSE, clears |-> 0]
                                   /\ Live(a, r) => <<r, "interrupted">> \in b.told
          /\ b.next.counter = NoCounter /\ b.next.performance = NewPerformance
          /\ b.next.identity = a.next.identity
      BY <1>2, <3>1, InterruptedEnds
    <3>3. Tells(d, b)
      BY <1>2, <3>2 DEF Tells, EndsOf
    <3>4. Idle(b.next)
      BY <3>2 DEF Idle
    <3> QED
      BY <1>1, <1>2, <2>2, <3>2, <3>3, <3>4
  <2> QED
    BY <2>1, <2>2
<1>4. c = [b EXCEPT !.next.continuity = src]
  BY DEF Joins
<1> HIDE DEF b, c
<1>5. /\ Shaped(c) /\ Tells(d, c) /\ c.told = b.told /\ c.next.continuity = src
      /\ c.next.identity = b.next.identity /\ c.next.signals = b.next.signals
      /\ c.next.counter = b.next.counter /\ c.next.performance = b.next.performance
  <2>1. /\ DOMAIN c = {"next", "told"} /\ c.told = b.told /\ DriveFields \subseteq DOMAIN c.next
        /\ c.next.continuity = src /\ c.next.identity = b.next.identity
        /\ c.next.signals = b.next.signals /\ c.next.counter = b.next.counter
        /\ c.next.performance = b.next.performance
    BY <1>3, <1>4 DEF Shaped, DriveFields
  <2> QED
    BY <1>3, <2>1 DEF Shaped, Tells, Live
<1>6. CASE ~o.identified
  <2>1. f = c
    BY <1>6 DEF Identified
  <2>2. c.next.identity = d.identity
    BY <1>3, <1>5
  <2>3. IF d.continuity = src /\ d.identity = c.next.identity
        THEN /\ c.told = {} /\ c.next.signals = d.signals
             /\ c.next.counter = d.counter /\ c.next.performance = d.performance
        ELSE Idle(c.next)
    <3>1. CASE d.continuity = src
      BY <1>1, <1>2, <1>3, <1>5, <2>2, <3>1
    <3>2. CASE d.continuity = NoSource
      BY <1>1, <1>2, <1>3, <1>5, <3>2 DEF Idle
    <3>3. CASE d.continuity \notin {NoSource, src}
      BY <1>3, <1>5, <3>3 DEF Idle
    <3> QED
      BY <3>1, <3>2, <3>3
  <2> HIDE DEF f
  <2> QED
    BY <1>3, <1>5, <1>6, <2>1, <2>2, <2>3 DEF Arrived, f, c, a, s
<1>7. CASE o.identified
  <2>1. f = [e EXCEPT !.next.identity = o.identity]
    BY <1>7 DEF Identified
  <2>2. /\ Shaped(e) /\ Tells(d, e) /\ e.told \subseteq DriveRules \X {"interrupted"}
        /\ e.next.continuity = src
        /\ IF d.continuity = src /\ d.identity = o.identity
           THEN /\ e.told = {} /\ e.next.signals = d.signals
                /\ e.next.counter = d.counter /\ e.next.performance = d.performance
           ELSE Idle(e.next)
    <3>1. CASE ~first /\ c.next.identity # o.identity
      <4>1. e = Interrupted(c)
        BY <3>1
      <4> HIDE DEF e
      <4>2. /\ Shaped(e) /\ c.told \subseteq e.told
            /\ e.told \subseteq c.told \cup (DriveRules \X {"interrupted"})
            /\ \A r \in DriveRules : /\ e.next.signals[r] = [live |-> FALSE, clears |-> 0]
                                     /\ Live(c, r) => <<r, "interrupted">> \in e.told
            /\ e.next.counter = NoCounter /\ e.next.performance = NewPerformance
            /\ e.next.continuity = c.next.continuity
        BY <1>5, <4>1, InterruptedEnds
      <4>3. Tells(d, e)
        <5>1. SUFFICES ASSUME NEW r \in DriveRules, d.signals[r].live, ~Live(e, r)
                       PROVE  e.told \cap EndsOf(r) # {}
          BY DEF Tells
        <5> QED
          BY <1>5, <4>2, <5>1 DEF Tells, EndsOf
      <4>4. Idle(e.next)
        BY <4>2 DEF Idle
      <4>5. d.identity # o.identity
        BY <1>3, <1>5, <3>1
      <4> QED
        BY <1>3, <1>5, <4>2, <4>3, <4>4, <4>5
    <3>2. CASE ~(~first /\ c.next.identity # o.identity)
      <4>1. e = c
        BY <3>2
      <4>2. CASE first
        BY <1>1, <1>2, <1>3, <1>5, <4>1, <4>2 DEF Idle
      <4>3. CASE ~first
        <5>1. d.identity = o.identity
          BY <1>3, <1>5, <3>2, <4>3
        <5>2. CASE d.continuity = src
          BY <1>1, <1>2, <1>3, <1>5, <4>1, <5>1, <5>2
        <5>3. CASE d.continuity # src
          BY <1>3, <1>5, <4>1, <4>3, <5>3 DEF Idle
        <5> QED
          BY <5>2, <5>3
      <4> QED
        BY <4>2, <4>3
    <3> QED
      BY <3>1, <3>2
  <2> HIDE DEF e, f
  <2>3. /\ DOMAIN f = {"next", "told"} /\ f.told = e.told /\ DriveFields \subseteq DOMAIN f.next
        /\ f.next.identity = o.identity /\ f.next.continuity = e.next.continuity
        /\ f.next.signals = e.next.signals /\ f.next.counter = e.next.counter
        /\ f.next.performance = e.next.performance
    BY <2>1, <2>2 DEF Shaped, DriveFields
  <2>4. Shaped(f) /\ Tells(d, f)
    BY <2>2, <2>3 DEF Shaped, Tells, Live
  <2>5. Arrived(d, f, src, o)
    <3>1. CASE d.continuity = src /\ d.identity = o.identity
      BY <1>7, <2>2, <2>3, <2>4, <3>1 DEF Arrived
    <3>2. CASE ~(d.continuity = src /\ d.identity = o.identity)
      <4>1. Idle(f.next)
        BY <2>2, <2>3, <3>2 DEF Idle
      <4> QED
        BY <1>7, <2>2, <2>3, <2>4, <3>2, <4>1 DEF Arrived
    <3> QED
      BY <3>1, <3>2
  <2> QED
    BY <2>5 DEF f, c, a, s
<1> QED
  BY <1>6, <1>7

\* Two moves of one signal are a move of it.
LEMMA MovedTwice ==
  ASSUME NEW a, NEW b, NEW c, NEW r \in DriveRules, Moved(a, b, r), Moved(b, c, r)
  PROVE  Moved(a, c, r)
<1>1. (Live(a, r) /\ ~Live(c, r)) => c.told \cap EndsOf(r) # {}
  <2>1. CASE Live(b, r)
    BY <2>1 DEF Moved
  <2>2. CASE ~Live(b, r)
    BY <2>2 DEF Moved
  <2> QED
    BY <2>1, <2>2
<1> QED
  BY <1>1 DEF Moved

\* What a counter can be, and nothing read.
Counters == {NoCounter} \cup [value : Nat, epoch : Nat \ {0}]

\* A counter is judged by the reading before, and is the next one's.
LEMMA CountedMoves ==
  ASSUME NEW a, Shaped(a), a.next.counter \in Counters, NEW c \in Counters
  PROVE  LET b == Counted(a, c)
         IN /\ Moved(a, b, "counter") /\ b.next.performance = a.next.performance
            /\ b.next.counter = IF c = NoCounter THEN a.next.counter ELSE c
            /\ <<"counter", "open">> \in b.told =>
                 \/ <<"counter", "open">> \in a.told
                 \/ /\ c # NoCounter /\ a.next.counter.epoch = c.epoch
                    /\ a.next.counter.value < c.value
            /\ <<"counter", "resolved">> \in b.told =>
                 \/ <<"counter", "resolved">> \in a.told
                 \/ CounterVerdict(a.next, c) = "clear" /\ a.next.signals["counter"].clears = 1
            /\ b.next.signals["counter"].clears = 1 => CounterVerdict(a.next, c) = "clear"
<1> DEFINE old == a.next.counter
           reset == NoCounter \notin {c, old} /\ (old.epoch # c.epoch \/ c.value < old.value)
           e == IF reset THEN Closed(a, "counter", "interrupted") ELSE a
           v == CounterVerdict(a.next, c)
           kept == IF c = NoCounter THEN old ELSE c
           f == [e EXCEPT !.next.counter = kept]
           b == Counted(a, c)
<1>1. "counter" \in DriveRules
  BY DEF DriveRules
<1>2. v \in {"bad", "clear", "unknown"}
  BY DEF CounterVerdict
<1>3. v = "bad" => c # NoCounter /\ old.epoch = c.epoch /\ old.value < c.value
  <2>1. SUFFICES ASSUME v = "bad"
                 PROVE  c # NoCounter /\ old.epoch = c.epoch /\ old.value < c.value
    OBVIOUS
  <2>2. ~(c = NoCounter \/ old.epoch # c.epoch \/ c.value < old.value) /\ c.value > old.value
    BY <2>1 DEF CounterVerdict
  <2>3. c.value \in Nat /\ old.value \in Nat
    BY DEF Counters, NoCounter
  <2> QED
    BY <2>2, <2>3
<1> HIDE DEF v
<1>4. /\ Moved(a, e, "counter") /\ Untouched(a, e)
      /\ e.told \subseteq a.told \cup {<<"counter", "interrupted">>}
      /\ e.next.signals["counter"].clears = 1 => a.next.signals["counter"].clears = 1
  <2>1. CASE reset
    <3>1. e = Closed(a, "counter", "interrupted")
      BY <2>1
    <3>2. /\ Moved(a, e, "counter") /\ Untouched(a, e)
          /\ e.next.signals["counter"] = [live |-> FALSE, clears |-> 0]
          /\ e.told \subseteq a.told \cup {<<"counter", "interrupted">>}
      BY <1>1, <3>1, ClosedMoves
    <3> QED
      BY <3>2
  <2>2. CASE ~reset
    BY <1>1, <2>2, SameMoves
  <2> QED
    BY <2>1, <2>2
<1>5. b = Applied(f, "counter", v)
  <2>1. e.next.counter = old
    BY <1>4 DEF Untouched
  <2>2. f = [e EXCEPT !.next.counter = IF c = NoCounter THEN @ ELSE c]
    BY <2>1
  <2> HIDE DEF f
  <2> QED
    BY <2>2 DEF Counted, v
<1> HIDE DEF e, b, kept
<1>6. /\ Shaped(f) /\ f.told = e.told /\ f.next.signals = e.next.signals
      /\ f.next.counter = kept /\ f.next.performance = e.next.performance
      /\ f.next.continuity = e.next.continuity /\ f.next.identity = e.next.identity
  <2>1. Shaped(e)
    BY <1>4 DEF Moved
  <2> QED
    BY <2>1 DEF Shaped, DriveFields
<1> HIDE DEF f
<1>7. Moved(a, f, "counter")
  BY <1>4, <1>6 DEF Moved, Live
<1>8. /\ Moved(f, b, "counter") /\ Untouched(f, b)
      /\ <<"counter", "open">> \in b.told => <<"counter", "open">> \in f.told \/ v = "bad"
      /\ <<"counter", "resolved">> \in b.told =>
           \/ <<"counter", "resolved">> \in f.told
           \/ v = "clear" /\ f.next.signals["counter"].clears = 1
      /\ b.next.signals["counter"].clears = 1 => v = "clear"
  BY <1>1, <1>2, <1>5, <1>6, AppliedMoves
<1>9. Moved(a, b, "counter")
  BY <1>1, <1>7, <1>8, MovedTwice
<1>10. b.next.performance = a.next.performance /\ b.next.counter = kept
  BY <1>4, <1>6, <1>8 DEF Untouched
<1> QED
  BY <1>3, <1>4, <1>6, <1>8, <1>9, <1>10 DEF b, v, kept

\* Comparable work, and the fields of a source that follow it.
Works == [bucket : Buckets, value : ServiceTimes]
PerformanceFields == {"previous", "ring", "reference", "bucket", "elevated", "recovery"}

\* Work of a bucket above, and below, the thresholds of a reference.
Slow(bucket, reference) == {x \in Works : x.bucket = bucket /\ x.value > High(reference)}
Brisk(bucket, reference) == {x \in Works : x.bucket = bucket /\ x.value <= Low(reference)}

\* What a rule about service times has counted is in the unbroken work.
Worked(p, live, row) ==
  /\ PerformanceFields \subseteq DOMAIN p
  /\ p.elevated \in Nat /\ p.recovery \in Nat
  /\ Ends(row, p.elevated, Slow(p.bucket, p.reference))
  /\ Ends(row, p.recovery, Brisk(p.bucket, p.reference))
  /\ (p.reference = 0 \/ p.bucket = 0) => (p.elevated = 0 /\ p.recovery = 0)
  /\ live => (p.reference # 0 /\ p.bucket # 0)

\* From a to b the service times were judged, and row is unbroken work.
WorkJudged(a, b, row) ==
  /\ Moved(a, b, "performance") /\ b.next.counter = a.next.counter
  /\ Worked(b.next.performance, Live(b, "performance"), row)
  /\ <<"performance", "resolved">> \in b.told =>
       \/ <<"performance", "resolved">> \in a.told
       \/ Ends(row, Recovery, Brisk(a.next.performance.bucket, a.next.performance.reference))
  /\ (Live(b, "performance") /\ ~Live(a, "performance")) =>
       Ends(row, Opening, Slow(b.next.performance.bucket, b.next.performance.reference))

\* A source with other service times.
WithWork(a, p) == [a EXCEPT !.next.performance = p]

\* A source with other service times has all its other fields.
LEMMA WorkSet ==
  ASSUME NEW a, Shaped(a), NEW p
  PROVE  LET b == WithWork(a, p)
         IN /\ Shaped(b) /\ Moved(a, b, "performance") /\ b.told = a.told
            /\ b.next.signals = a.next.signals /\ b.next.counter = a.next.counter
            /\ b.next.performance = p /\ b.next.continuity = a.next.continuity
            /\ b.next.identity = a.next.identity
            /\ Live(b, "performance") = Live(a, "performance")
<1> DEFINE b == WithWork(a, p)
<1>1. /\ DOMAIN b = {"next", "told"} /\ b.told = a.told /\ DriveFields \subseteq DOMAIN b.next
      /\ b.next.signals = a.next.signals /\ b.next.counter = a.next.counter
      /\ b.next.performance = p /\ b.next.continuity = a.next.continuity
      /\ b.next.identity = a.next.identity
  BY DEF Shaped, DriveFields, WithWork
<1> HIDE DEF b
<1>2. Shaped(b)
  BY <1>1 DEF Shaped
<1>3. Moved(a, b, "performance")
  BY <1>1, <1>2 DEF Moved, Live
<1> QED
  BY <1>1, <1>2, <1>3 DEF b, Live

\* Nothing counted, of any work.
LEMMA NothingCounted ==
  ASSUME NEW p, PerformanceFields \subseteq DOMAIN p, p.elevated = 0, p.recovery = 0,
         NEW live, live => (p.reference # 0 /\ p.bucket # 0), NEW row \in Seq(Works)
  PROVE  Worked(p, live, row)
BY EmptyEnd DEF Worked

\* The unbroken work with an interval more.
MoreWork(row, w, n) == More(row, [bucket |-> w.bucket, value |-> w.value], n, Most)

\* An interval more of slow, or brisk, work makes the end longer.
LEMMA MoreWorkEnds ==
  ASSUME NEW row \in Seq(Works), NEW w, w.bucket \in Buckets, w.value \in ServiceTimes,
         NEW n \in Nat \ {0}
  PROVE  /\ MoreWork(row, w, n) \in Seq(Works)
         /\ \A ref : \A k, m \in Nat :
              (Ends(row, k, Slow(w.bucket, ref)) /\ w.value > High(ref) /\ m <= k + n /\ m <= Opening)
                => Ends(MoreWork(row, w, n), m, Slow(w.bucket, ref))
         /\ \A ref : \A k, m \in Nat :
              (Ends(row, k, Brisk(w.bucket, ref)) /\ w.value <= Low(ref) /\ m <= k + n /\ m <= Recovery)
                => Ends(MoreWork(row, w, n), m, Brisk(w.bucket, ref))
<1> DEFINE x == [bucket |-> w.bucket, value |-> w.value]
           row2 == More(row, x, n, Most)
<1>1. Most \in Nat /\ Most >= Opening /\ Most >= Recovery /\ Opening \in Nat /\ Recovery \in Nat
  BY BaselineAssumption, MaxOfTwo DEF Most
<1>2. x \in Works /\ x.bucket = w.bucket /\ x.value = w.value
  BY DEF Works
<1> HIDE DEF x
<1>3. row2 \in Seq(Works)
  <2>1. x \in {x} /\ 0 \in Nat /\ 0 <= 0 + n /\ 0 <= Most /\ n \in Nat
    BY <1>1
  <2>2. Ends(row, 0, {x})
    BY EmptyEnd
  <2> QED
    BY <1>1, <1>2, <2>1, <2>2, MoreEnds
<1> HIDE DEF row2
<1>4. ASSUME NEW k \in Nat, NEW m \in Nat, NEW ref, Ends(row, k, Slow(w.bucket, ref)),
             w.value > High(ref), m <= k + n, m <= Opening
      PROVE  Ends(row2, m, Slow(w.bucket, ref))
  <2>1. x \in Slow(w.bucket, ref)
    BY <1>2, <1>4 DEF Slow
  <2>2. m <= Most /\ n \in Nat
    BY <1>1, <1>4
  <2> QED
    BY <1>1, <1>2, <1>4, <2>1, <2>2, MoreEnds DEF row2
<1>5. ASSUME NEW k \in Nat, NEW m \in Nat, NEW ref, Ends(row, k, Brisk(w.bucket, ref)),
             w.value <= Low(ref), m <= k + n, m <= Recovery
      PROVE  Ends(row2, m, Brisk(w.bucket, ref))
  <2>1. x \in Brisk(w.bucket, ref)
    BY <1>2, <1>5 DEF Brisk
  <2>2. m <= Most /\ n \in Nat
    BY <1>1, <1>5
  <2> QED
    BY <1>1, <1>2, <1>5, <2>1, <2>2, MoreEnds DEF row2
<1>6. MoreWork(row, w, n) = row2
  BY DEF MoreWork, row2, x
<1> QED
  BY <1>3, <1>4, <1>5, <1>6

\* Work that was high: a candidate lasts longer, or a concern goes on.
LEMMA ElevatedJudged ==
  ASSUME NEW row \in Seq(Works), NEW a, Shaped(a),
         Worked(a.next.performance, Live(a, "performance"), row), NEW w, w.bucket \in Buckets,
         w.value \in ServiceTimes, NEW n \in Nat \ {0}, NEW b, b # 0, w.value > High(b),
         a.next.performance.reference # 0 => b = a.next.performance.reference,
         a.next.performance.bucket \in {0, w.bucket}
  PROVE  WorkJudged(a, Elevated(a, b, n, w), MoreWork(row, w, n))
<1> DEFINE q == a.next.performance
           elevated == Upto(q.elevated + n, Opening)
           p == [q EXCEPT !.reference = b, !.bucket = w.bucket, !.recovery = 0,
                          !.elevated = elevated]
           c == WithWork(a, p)
           e == Elevated(a, b, n, w)
           row2 == MoreWork(row, w, n)
<1>1. Opening \in Nat \ {0}
  BY BaselineAssumption
<1>2. /\ PerformanceFields \subseteq DOMAIN q /\ q.elevated \in Nat
      /\ Ends(row, q.elevated, Slow(q.bucket, q.reference))
      /\ (q.reference = 0 \/ q.bucket = 0) => q.elevated = 0
  BY DEF Worked
<1>3. /\ elevated \in Nat /\ elevated <= q.elevated + n /\ elevated <= Opening
  BY <1>1, <1>2 DEF Upto
<1> HIDE DEF elevated
<1>4. /\ PerformanceFields \subseteq DOMAIN p /\ p.reference = b /\ p.bucket = w.bucket
      /\ p.recovery = 0 /\ p.elevated = elevated
  BY <1>2 DEF PerformanceFields
<1>5. e = IF Live(a, "performance") \/ p.elevated >= Opening THEN Opened(c, "performance") ELSE c
  BY DEF Elevated, WithWork, elevated
<1> HIDE DEF p
<1>6. Ends(row, q.elevated, Slow(w.bucket, b))
  <2>1. CASE q.elevated = 0
    BY <2>1, EmptyEnd
  <2>2. CASE q.elevated # 0
    BY <1>2, <2>2
  <2> QED
    BY <2>1, <2>2
<1> HIDE DEF q
<1>7. Ends(row2, elevated, Slow(w.bucket, b)) /\ row2 \in Seq(Works)
  BY <1>1, <1>2, <1>3, <1>6, MoreWorkEnds
<1>8. w.bucket # 0
  BY ReliabilityAssumption
<1> HIDE DEF row2, e, c
<1>9. \A live : Worked(p, live, row2)
  <2>1. Ends(row2, 0, Brisk(p.bucket, p.reference))
    BY <1>7, EmptyEnd
  <2> QED
    BY <1>3, <1>4, <1>7, <1>8, <2>1 DEF Worked
<1>10. /\ Shaped(c) /\ Moved(a, c, "performance") /\ c.told = a.told
       /\ c.next.counter = a.next.counter /\ c.next.performance = p
  BY WorkSet DEF c
<1>14. Live(c, "performance") = Live(a, "performance")
  BY WorkSet DEF c
<1>11. "performance" \in DriveRules
  BY DEF DriveRules
<1>12. CASE Live(a, "performance") \/ p.elevated >= Opening
  <2>1. e = Opened(c, "performance")
    BY <1>5, <1>12
  <2>2. /\ Moved(c, e, "performance") /\ Untouched(c, e)
        /\ e.told = c.told \cup {<<"performance", "open">>}
    BY <1>10, <1>11, <2>1, OpenedMoves
  <2>3. Moved(a, e, "performance")
    BY <1>10, <1>11, <2>2, MovedTwice
  <2>4. e.next.performance = p /\ e.next.counter = a.next.counter
    BY <1>10, <2>2 DEF Untouched
  <2>5. ~Live(a, "performance") => Ends(row2, Opening, Slow(p.bucket, p.reference))
    <3>1. SUFFICES ASSUME ~Live(a, "performance")
                   PROVE  Ends(row2, Opening, Slow(p.bucket, p.reference))
      OBVIOUS
    <3>2. p.elevated >= Opening
      BY <1>12, <3>1
    <3>3. elevated = Opening
      BY <1>1, <1>3, <1>4, <3>2
    <3> QED
      BY <1>4, <1>7, <3>3
  <2>6. <<"performance", "resolved">> \in e.told => <<"performance", "resolved">> \in a.told
    BY <1>10, <2>2
  <2> QED
    BY <1>9, <2>3, <2>4, <2>5, <2>6 DEF WorkJudged, e, row2
<1>13. CASE ~(Live(a, "performance") \/ p.elevated >= Opening)
  <2>1. e = c
    BY <1>5, <1>13
  <2> QED
    BY <1>9, <1>10, <1>14, <2>1 DEF WorkJudged, e, row2
<1> QED
  BY <1>12, <1>13

\* Other service times of a source whose signals stay.
LEMMA OnlyWork ==
  ASSUME NEW a, Shaped(a), NEW p, NEW row, Worked(p, Live(a, "performance"), row)
  PROVE  WorkJudged(a, WithWork(a, p), row)
<1> DEFINE b == WithWork(a, p)
<1>1. /\ Moved(a, b, "performance") /\ b.told = a.told /\ b.next.counter = a.next.counter
      /\ b.next.performance = p
  BY WorkSet
<1>2. Live(b, "performance") = Live(a, "performance")
  BY WorkSet
<1> HIDE DEF b
<1> QED
  BY <1>1, <1>2 DEF WorkJudged, b

\* A concern is followed until the work has recovered for long enough.
LEMMA RecoveringJudged ==
  ASSUME NEW row \in Seq(Works), NEW a, Shaped(a), Live(a, "performance"),
         Worked(a.next.performance, TRUE, row), NEW w, w.bucket \in Buckets,
         w.value \in ServiceTimes, NEW n \in Nat \ {0}, NEW b,
         b = a.next.performance.reference, a.next.performance.bucket \in {0, w.bucket}
  PROVE  WorkJudged(a, Recovering(a, b, n, w), MoreWork(row, w, n))
<1> DEFINE q == a.next.performance
           m == IF w.value <= Low(b) THEN q.recovery + n ELSE 0
           none == [q EXCEPT !.reference = 0, !.bucket = 0, !.elevated = 0, !.recovery = 0]
           p == [q EXCEPT !.elevated = 0, !.recovery = m]
           c == WithWork(a, none)
           e == Recovering(a, b, n, w)
           row2 == MoreWork(row, w, n)
<1>1. Recovery \in Nat \ {0}
  BY BaselineAssumption
<1>2. /\ PerformanceFields \subseteq DOMAIN q /\ q.recovery \in Nat
      /\ Ends(row, q.recovery, Brisk(q.bucket, q.reference))
      /\ q.reference # 0 /\ q.bucket = w.bucket
  BY DEF Worked
<1>3. m \in Nat
  BY <1>2
<1>4. /\ PerformanceFields \subseteq DOMAIN none /\ none.elevated = 0 /\ none.recovery = 0
      /\ PerformanceFields \subseteq DOMAIN p /\ p.elevated = 0 /\ p.recovery = m
      /\ p.reference = b /\ p.bucket = w.bucket
  BY <1>2 DEF PerformanceFields
<1>5. e = IF m >= Recovery THEN Closed(c, "performance", "resolved") ELSE WithWork(a, p)
  BY DEF Recovering, WithWork
<1> HIDE DEF none, p, e
<1>6. row2 \in Seq(Works)
  BY MoreWorkEnds
<1>7. \A k \in Nat : (k <= m /\ k <= Recovery) => Ends(row2, k, Brisk(w.bucket, b))
  <2>1. SUFFICES ASSUME NEW k \in Nat, k <= m, k <= Recovery
                 PROVE  Ends(row2, k, Brisk(w.bucket, b))
    OBVIOUS
  <2>2. CASE w.value <= Low(b)
    <3>1. k <= q.recovery + n
      BY <1>2, <2>1, <2>2
    <3>2. Ends(row, q.recovery, Brisk(w.bucket, b))
      BY <1>2
    <3> HIDE DEF q
    <3> QED
      BY <1>2, <2>1, <2>2, <3>1, <3>2, MoreWorkEnds
  <2>3. CASE ~(w.value <= Low(b))
    <3>1. k = 0
      BY <1>3, <2>1, <2>3
    <3> QED
      BY <1>6, <3>1, EmptyEnd
  <2> QED
    BY <2>2, <2>3
<1>8. "performance" \in DriveRules /\ "resolved" \in {"resolved", "interrupted"}
  BY DEF DriveRules
<1>11. w.bucket # 0
  BY ReliabilityAssumption
<1> HIDE DEF m, row2, c
<1>9. CASE m >= Recovery
  <2>1. e = Closed(c, "performance", "resolved")
    BY <1>5, <1>9
  <2>2. /\ Shaped(c) /\ Moved(a, c, "performance") /\ c.told = a.told
        /\ c.next.counter = a.next.counter /\ c.next.performance = none
    BY WorkSet DEF c
  <2>3. /\ Moved(c, e, "performance") /\ Untouched(c, e)
        /\ e.next.signals["performance"] = [live |-> FALSE, clears |-> 0]
    BY <1>8, <2>1, <2>2, ClosedMoves
  <2>4. Moved(a, e, "performance")
    BY <1>8, <2>2, <2>3, MovedTwice
  <2>5. e.next.performance = none /\ e.next.counter = a.next.counter
    BY <2>2, <2>3 DEF Untouched
  <2>6. ~Live(e, "performance")
    BY <2>3 DEF Live
  <2>7. Worked(none, Live(e, "performance"), row2)
    BY <1>4, <1>6, <2>6, NothingCounted
  <2>8. Ends(row2, Recovery, Brisk(q.bucket, q.reference))
    BY <1>1, <1>2, <1>3, <1>7, <1>9
  <2> QED
    BY <2>4, <2>5, <2>6, <2>7, <2>8 DEF WorkJudged, e, row2
<1>10. CASE ~(m >= Recovery)
  <2>1. e = WithWork(a, p)
    BY <1>5, <1>10
  <2>2. m <= Recovery
    BY <1>1, <1>3, <1>10
  <2>3. Ends(row2, m, Brisk(w.bucket, b))
    BY <1>3, <1>7, <2>2
  <2>4. Ends(row2, 0, Slow(w.bucket, b))
    BY <1>6, EmptyEnd
  <2>5. Worked(p, Live(a, "performance"), row2)
    BY <1>2, <1>3, <1>4, <1>11, <2>3, <2>4 DEF Worked
  <2> QED
    BY <2>1, <2>5, OnlyWork DEF e, row2
<1> QED
  BY <1>9, <1>10

\* An interval of work.
LEMMA IntervalJudged ==
  ASSUME NEW row \in Seq(Works), NEW a, Shaped(a),
         Worked(a.next.performance, Live(a, "performance"), row), NEW w, w.bucket \in Buckets,
         w.value \in ServiceTimes, NEW n \in Nat \ {0}
  PROVE  WorkJudged(a, Judged(a, n, w), MoreWork(row, w, n))
<1> DEFINE p == a.next.performance
           matching == SelectSeq(p.ring, LAMBDA x : x.bucket = w.bucket)
           b == IF p.reference # 0 THEN p.reference
                ELSE IF Ready(matching) THEN Reference(matching) ELSE 0
           e == Judged(a, n, w)
           row2 == MoreWork(row, w, n)
           live == Live(a, "performance")
           trained == [p EXCEPT !.ring = Trained(@, [from |-> n, to |-> 0, value |-> w.value,
                                                     bucket |-> w.bucket])]
           none == [p EXCEPT !.reference = 0, !.bucket = 0, !.elevated = 0, !.recovery = 0]
           other == [p EXCEPT !.ring = Trained(@, [from |-> n, to |-> 0, value |-> w.value,
                                                   bucket |-> w.bucket]),
                              !.reference = 0, !.bucket = 0, !.elevated = 0, !.recovery = 0]
           q == [p EXCEPT !.elevated = 0, !.recovery = 0]
<1>1. /\ PerformanceFields \subseteq DOMAIN p
      /\ (p.reference = 0 \/ p.bucket = 0) => (p.elevated = 0 /\ p.recovery = 0)
      /\ live => (p.reference # 0 /\ p.bucket # 0)
  BY DEF Worked
<1>2. p.reference # 0 => b = p.reference
  OBVIOUS
<1>3. row2 \in Seq(Works)
  BY MoreWorkEnds
<1> HIDE DEF b, matching
<1>4. e = IF p.bucket \notin {0, w.bucket}
          THEN WithWork(a, IF live THEN q ELSE [q EXCEPT !.reference = 0, !.bucket = 0])
          ELSE CASE b = 0 -> Train(a, n, w)
                 [] b # 0 /\ w.value > High(b) -> Elevated(a, b, n, w)
                 [] b # 0 /\ ~(w.value > High(b)) /\ live -> Recovering(a, b, n, w)
                 [] OTHER -> Ordinary(a, n, w)
  BY DEF Judged, WithWork, b, matching
<1>5. DriveFields \subseteq DOMAIN a.next /\ DOMAIN a = {"next", "told"}
  BY DEF Shaped
<1>6. Train(a, n, w) = WithWork(a, trained)
  BY <1>5 DEF Train, WithWork, DriveFields
<1>7. Ordinary(a, n, w) = IF p.reference # 0 THEN WithWork(a, none) ELSE WithWork(a, other)
  BY <1>1, <1>5 DEF Ordinary, Train, WithWork, DriveFields, PerformanceFields
<1>8. /\ PerformanceFields \subseteq DOMAIN trained /\ PerformanceFields \subseteq DOMAIN none
      /\ PerformanceFields \subseteq DOMAIN other /\ PerformanceFields \subseteq DOMAIN q
      /\ trained.elevated = p.elevated /\ trained.recovery = p.recovery
      /\ trained.reference = p.reference /\ trained.bucket = p.bucket
      /\ none.elevated = 0 /\ none.recovery = 0 /\ other.elevated = 0 /\ other.recovery = 0
      /\ q.elevated = 0 /\ q.recovery = 0 /\ q.reference = p.reference /\ q.bucket = p.bucket
  BY <1>1 DEF PerformanceFields
<1> HIDE DEF e, row2, trained, none, other, live
<1>9. CASE p.bucket \notin {0, w.bucket}
  <2> DEFINE r == IF live THEN q ELSE [q EXCEPT !.reference = 0, !.bucket = 0]
  <2>1. e = WithWork(a, r)
    BY <1>4, <1>9
  <2> HIDE DEF q
  <2>2. /\ PerformanceFields \subseteq DOMAIN r /\ r.elevated = 0 /\ r.recovery = 0
        /\ live => (r.reference # 0 /\ r.bucket # 0)
    BY <1>1, <1>8 DEF PerformanceFields
  <2> HIDE DEF r
  <2>3. Worked(r, live, row2)
    BY <1>3, <2>2, NothingCounted
  <2> QED
    BY <2>1, <2>3, OnlyWork DEF live, e, row2
<1>10. CASE p.bucket \in {0, w.bucket} /\ b = 0
  <2>1. e = WithWork(a, trained)
    BY <1>4, <1>6, <1>10
  <2>2. p.reference = 0
    BY <1>2, <1>10
  <2>3. Worked(trained, live, row2)
    BY <1>1, <1>3, <1>8, <2>2, NothingCounted
  <2> QED
    BY <2>1, <2>3, OnlyWork DEF live, e, row2
<1>11. CASE p.bucket \in {0, w.bucket} /\ b # 0 /\ w.value > High(b)
  <2>1. e = Elevated(a, b, n, w)
    BY <1>4, <1>11
  <2> QED
    BY <1>2, <1>11, <2>1, ElevatedJudged DEF e, row2
<1>12. CASE p.bucket \in {0, w.bucket} /\ b # 0 /\ ~(w.value > High(b)) /\ live
  <2>1. e = Recovering(a, b, n, w)
    BY <1>4, <1>12
  <2>2. b = p.reference /\ Live(a, "performance")
    BY <1>1, <1>2, <1>12 DEF live
  <2>3. Worked(p, TRUE, row)
    BY <1>1, <1>12 DEF Worked
  <2> QED
    BY <1>12, <2>1, <2>2, <2>3, RecoveringJudged DEF e, row2
<1>13. CASE p.bucket \in {0, w.bucket} /\ b # 0 /\ ~(w.value > High(b)) /\ ~live
  <2>1. e = WithWork(a, none) \/ e = WithWork(a, other)
    BY <1>4, <1>7, <1>13
  <2>2. Worked(none, live, row2) /\ Worked(other, live, row2)
    BY <1>3, <1>8, <1>13, NothingCounted
  <2> QED
    BY <2>1, <2>2, OnlyWork DEF live, e, row2
<1> QED
  BY <1>9, <1>10, <1>11, <1>12, <1>13

\* Work between two endpoints that cannot be judged ends what was counted.
LEMMA NoIntervalJudged ==
  ASSUME NEW row \in Seq(Works), NEW a, Shaped(a),
         PerformanceFields \subseteq DOMAIN a.next.performance,
         Live(a, "performance") => /\ a.next.performance.reference # 0
                                   /\ a.next.performance.bucket # 0
  PROVE  /\ WorkJudged(a, NoInterval(a), row)
         /\ NoInterval(a).told = a.told
<1> DEFINE q == a.next.performance
           live == Live(a, "performance")
           p == [q EXCEPT !.elevated = 0, !.recovery = 0]
           r == IF live THEN p ELSE [p EXCEPT !.reference = 0, !.bucket = 0]
           b == WithWork(a, r)
           e == NoInterval(a)
<1>1. e = Recounted(b, "performance", 0)
  BY DEF NoInterval, Unjudged, Recounted, WithWork
<1>2. /\ PerformanceFields \subseteq DOMAIN p /\ p.elevated = 0 /\ p.recovery = 0
      /\ p.reference = q.reference /\ p.bucket = q.bucket
  BY DEF PerformanceFields
<1> HIDE DEF p, e
<1>3. /\ PerformanceFields \subseteq DOMAIN r /\ r.elevated = 0 /\ r.recovery = 0
      /\ live => (r.reference # 0 /\ r.bucket # 0)
  BY <1>2 DEF PerformanceFields
<1> HIDE DEF r, live
<1>4. Worked(r, live, row)
  BY <1>3, NothingCounted
<1>5. /\ Shaped(b) /\ Moved(a, b, "performance") /\ b.told = a.told
      /\ b.next.counter = a.next.counter /\ b.next.performance = r
  BY WorkSet
<1>6. Live(b, "performance") = live
  BY WorkSet DEF live
<1>7. "performance" \in DriveRules /\ 0 \in {0, 1}
  BY DEF DriveRules
<1> HIDE DEF b
<1>8. Moved(b, e, "performance") /\ Untouched(b, e) /\ e.told = b.told
  BY <1>1, <1>5, <1>7, ClearsSet
<1>9. Live(e, "performance") = Live(b, "performance")
  BY <1>1, <1>5, <1>7, ClearsSet
<1>10. Moved(a, e, "performance")
  BY <1>5, <1>7, <1>8, MovedTwice
<1>11. e.next.performance = r /\ e.next.counter = a.next.counter /\ e.told = a.told
  BY <1>5, <1>8 DEF Untouched
<1>12. Worked(e.next.performance, Live(e, "performance"), row)
  BY <1>4, <1>6, <1>9, <1>11
<1>13. Live(e, "performance") = Live(a, "performance")
  BY <1>6, <1>9 DEF live
<1> QED
  BY <1>10, <1>11, <1>12, <1>13 DEF WorkJudged, e

\* What an observation can find of the work.
WorkReadings ==
  [epoch : Nat, kind : {"none", "decreased", "thin"}, bucket : {0}, value : {0}]
    \cup [epoch : Nat \ {0}, kind : {"usable"}, bucket : Buckets, value : ServiceTimes]

\* An observation of service times.
LEMMA PerformedJudged ==
  ASSUME NEW row \in Seq(Works), NEW a, Shaped(a),
         Worked(a.next.performance, Live(a, "performance"), row), NEW w \in WorkReadings,
         NEW n \in Nat \ {0}, NEW row2 \in Seq(Works),
         Interval(a.next.performance, n, w) => row2 = MoreWork(row, w, n)
  PROVE  /\ WorkJudged(a, Performed(a, n, w), row2)
         /\ Interval(a.next.performance, n, w) \/ Performed(a, n, w).told
              \subseteq a.told \cup {<<"performance", "interrupted">>}
<1> DEFINE q == a.next.performance
           p == [q EXCEPT !.ring = Pruned(@, n), !.previous = w.epoch]
           old == q.previous
           reset == old # 0 /\ w.epoch # 0 /\ (old # w.epoch \/ w.kind = "decreased")
           r == [p EXCEPT !.ring = <<>>, !.reference = 0, !.bucket = 0]
           b == WithWork(a, IF reset THEN r ELSE p)
           c == IF reset THEN Closed(b, "performance", "interrupted") ELSE b
           e == Performed(a, n, w)
<1>1. e = IF Interval(q, n, w) THEN Judged(c, n, w) ELSE NoInterval(c)
  BY DEF Performed, WithWork
<1>2. PerformanceFields \subseteq DOMAIN q
  BY DEF Worked
<1>3. /\ PerformanceFields \subseteq DOMAIN p /\ p.elevated = q.elevated /\ p.recovery = q.recovery
      /\ p.reference = q.reference /\ p.bucket = q.bucket
      /\ PerformanceFields \subseteq DOMAIN r
  BY <1>2 DEF PerformanceFields
<1>4. Interval(q, n, w) => ~reset
  BY DEF Interval
<1> HIDE DEF e, p, r
<1>5. "performance" \in DriveRules /\ "interrupted" \in {"resolved", "interrupted"}
  BY DEF DriveRules
<1>6. CASE Interval(q, n, w)
  <2>1. e = Judged(c, n, w) /\ c = WithWork(a, p)
    BY <1>1, <1>4, <1>6
  <2>2. /\ Shaped(c) /\ Moved(a, c, "performance") /\ c.told = a.told
        /\ c.next.counter = a.next.counter /\ c.next.performance = p
    BY <2>1, WorkSet
  <2>3. Live(c, "performance") = Live(a, "performance")
    BY <2>1, WorkSet
  <2> HIDE DEF c
  <2>4. Worked(p, Live(c, "performance"), row)
    BY <1>3, <2>3 DEF Worked
  <2>5. w.bucket \in Buckets /\ w.value \in ServiceTimes
    BY <1>6 DEF Interval, WorkReadings
  <2>6. WorkJudged(c, e, row2)
    BY <1>6, <2>1, <2>2, <2>4, <2>5, IntervalJudged
  <2>7. Moved(a, e, "performance")
    BY <1>5, <2>2, <2>6, MovedTwice DEF WorkJudged
  <2>8. WorkJudged(a, e, row2)
    BY <1>3, <2>2, <2>3, <2>6, <2>7 DEF WorkJudged
  <2> QED
    BY <1>6, <2>8 DEF e
<1>7. CASE ~Interval(q, n, w)
  <2>1. e = NoInterval(c)
    BY <1>1, <1>7
  <2>2. /\ Shaped(c) /\ Moved(a, c, "performance")
        /\ c.told \subseteq a.told \cup {<<"performance", "interrupted">>}
        /\ c.next.counter = a.next.counter /\ PerformanceFields \subseteq DOMAIN c.next.performance
        /\ Live(c, "performance") => /\ Live(a, "performance")
                                     /\ c.next.performance.reference # 0
                                     /\ c.next.performance.bucket # 0
    <3>1. CASE reset
      <4>1. b = WithWork(a, r) /\ c = Closed(b, "performance", "interrupted")
        BY <3>1
      <4> HIDE DEF b, c
      <4>2. /\ Shaped(b) /\ Moved(a, b, "performance") /\ b.told = a.told
            /\ b.next.counter = a.next.counter /\ b.next.performance = r
        BY <4>1, WorkSet
      <4>3. /\ Moved(b, c, "performance") /\ Untouched(b, c)
            /\ c.next.signals["performance"] = [live |-> FALSE, clears |-> 0]
            /\ c.told \subseteq b.told \cup {<<"performance", "interrupted">>}
        BY <1>5, <4>1, <4>2, ClosedMoves
      <4>4. Moved(a, c, "performance")
        BY <1>5, <4>2, <4>3, MovedTwice
      <4> QED
        BY <1>3, <4>2, <4>3, <4>4 DEF Untouched, Moved, Live
    <3>2. CASE ~reset
      <4>1. c = WithWork(a, p)
        BY <3>2
      <4> HIDE DEF c
      <4>2. /\ Shaped(c) /\ Moved(a, c, "performance") /\ c.told = a.told
            /\ c.next.counter = a.next.counter /\ c.next.performance = p
        BY <4>1, WorkSet
      <4>3. Live(c, "performance") = Live(a, "performance")
        BY <4>1, WorkSet
      <4>4. Live(a, "performance") => (p.reference # 0 /\ p.bucket # 0)
        BY <1>3 DEF Worked
      <4> QED
        BY <1>3, <4>2, <4>3, <4>4
    <3> QED
      BY <3>1, <3>2
  <2> HIDE DEF c
  <2>3. WorkJudged(c, e, row2) /\ e.told = c.told
    BY <2>1, <2>2, NoIntervalJudged
  <2>4. Moved(a, e, "performance")
    BY <1>5, <2>2, <2>3, MovedTwice DEF WorkJudged
  <2>5. Live(e, "performance") => Live(a, "performance") \/ ~Live(c, "performance")
    BY <2>2
  <2>6. <<"performance", "resolved">> \in e.told => <<"performance", "resolved">> \in a.told
    BY <2>2, <2>3
  <2>7. (Live(e, "performance") /\ ~Live(a, "performance")) =>
          Ends(row2, Opening, Slow(e.next.performance.bucket, e.next.performance.reference))
    BY <2>2, <2>3 DEF WorkJudged
  <2>8. WorkJudged(a, e, row2)
    BY <2>2, <2>3, <2>4, <2>6, <2>7 DEF WorkJudged
  <2> QED
    BY <1>7, <2>2, <2>3, <2>8 DEF e
<1> QED
  BY <1>6, <1>7

\* What an observation can say to a rule.
Verdicts == {"bad", "clear", "unknown"}

\* The last thing a rule was told is that it is clear.
ClearLast(v) == v # <<>> /\ v[Len(v)] = "clear"

\* The source, and what it has counted of what it was told and of its unbroken work.
DriveTyped ==
  /\ DriveFields \subseteq DOMAIN drive /\ drive.signals \in [DriveRules -> Signals]
  /\ drive.continuity = NoSource => Idle(drive)
  /\ drive.counter \in Counters
  /\ verdicts \in [DriveRules -> Seq(Verdicts)] /\ worked \in Seq(Works)
DriveCounted ==
  /\ drive.counter # NoCounter => reading = [counter |-> drive.counter, identity |-> drive.identity,
                                             source |-> drive.continuity]
  /\ \A r \in {"direct", "counter"} : drive.signals[r].clears = 1 => ClearLast(verdicts[r])
  /\ Worked(drive.performance, drive.signals["performance"].live, worked)
DriveInv == DriveTyped /\ DriveCounted /\ DOMAIN driveRows = DriveRules /\ DriveRowsAreLive

\* What an observation makes of a source: whether it is of the same drive, what each
\* rule was told, and the unbroken work after it.
Assessed(src, o, id, e, row) ==
  LET same == drive.continuity = src /\ drive.identity = id
      verdict == [r \in {"direct", "counter"} |->
                    IF r = "direct" THEN o.direct ELSE CounterVerdict(drive, o.counter)]
  IN /\ Shaped(e) /\ Tells(drive, e)
     /\ e.next.continuity = src /\ e.next.identity = id
     /\ e.next.counter = IF o.counter # NoCounter THEN o.counter
                         ELSE IF same THEN drive.counter ELSE NoCounter
     /\ <<"counter", "open">> \in e.told =>
          /\ same /\ o.counter # NoCounter
          /\ drive.counter.epoch = o.counter.epoch /\ drive.counter.value < o.counter.value
     /\ \A r \in {"direct", "counter"} :
          /\ <<r, "resolved">> \in e.told =>
               same /\ verdict[r] = "clear" /\ drive.signals[r].clears = 1
          /\ e.next.signals[r].clears = 1 => verdict[r] = "clear"
     /\ Worked(e.next.performance, Live(e, "performance"), row)
     /\ <<"performance", "resolved">> \in e.told =>
          Ends(row, Recovery, Brisk(drive.performance.bucket, drive.performance.reference))
     /\ (Live(e, "performance") /\ ~drive.signals["performance"].live) =>
          Ends(row, Opening, Slow(e.next.performance.bucket, e.next.performance.reference))

\* An observation says something to each rule.
LEMMA ObservationTypes ==
  ASSUME NEW o \in Observations
  PROVE  /\ o.direct \in Verdicts /\ o.counter \in Counters /\ o.work \in WorkReadings
<1>1. MaxCount \in Nat /\ MaxEpochs \in Nat
  BY BaselineAssumption, ReliabilityAssumption
<1>2. 0..MaxCount \subseteq Nat /\ 1..MaxEpochs \subseteq Nat \ {0} /\ 1..MaxEpochs \subseteq Nat
  BY <1>1
<1>3. NoWork \in WorkReadings
  BY DEF NoWork, WorkReadings
<1>4. {"bad", "clear", "unknown"} = Verdicts
  BY DEF Verdicts
<1>5. {NoCounter} \cup [value : 0..MaxCount, epoch : 1..MaxEpochs] \subseteq Counters
  BY <1>2 DEF Counters
<1>6. CASE o = Nothing
  BY <1>3, <1>4, <1>6 DEF Nothing, Counters
<1>7. CASE o # Nothing /\ collector = "smartctl"
  <2>1. o \in [identified : {TRUE}, identity : Identities \cup {0},
               direct : {"bad", "clear", "unknown"},
               counter : {NoCounter} \cup [value : 0..MaxCount, epoch : 1..MaxEpochs],
               work : {NoWork}]
    BY <1>7 DEF Observations
  <2>2. /\ o.direct \in {"bad", "clear", "unknown"} /\ o.work = NoWork
        /\ o.counter \in {NoCounter} \cup [value : 0..MaxCount, epoch : 1..MaxEpochs]
    BY <2>1
  <2> QED
    BY <1>3, <1>4, <1>5, <2>2
<1>8. CASE o # Nothing /\ collector # "smartctl"
  <2> DEFINE A == [epoch : 1..MaxEpochs, kind : {"decreased", "thin"}, bucket : {0}, value : {0}]
             B == [epoch : 1..MaxEpochs, kind : {"usable"}, bucket : Buckets, value : ServiceTimes]
  <2>1. o \in [identified : {FALSE}, identity : {0}, direct : {"unknown"},
               counter : {NoCounter}, work : A \cup B]
    BY <1>8 DEF Observations
  <2> HIDE DEF A, B
  <2>2. o.direct = "unknown" /\ o.counter = NoCounter /\ o.work \in A \cup B
    BY <2>1
  <2>3. A \subseteq WorkReadings
    BY <1>2 DEF A, WorkReadings
  <2>4. B \subseteq WorkReadings
    BY <1>2 DEF B, WorkReadings
  <2> QED
    BY <2>2, <2>3, <2>4, <1>4 DEF Counters
<1> QED
  BY <1>6, <1>7, <1>8

\* An observation of a drive.
LEMMA DriveAssessed ==
  ASSUME DriveInv, NEW src, src # NoSource, NEW n \in Nat \ {0}, NEW o \in Observations,
         NEW row \in Seq(Works),
         (drive.continuity = src /\ Interval(drive.performance, n, o.work))
           => row = MoreWork(worked, o.work, n)
  PROVE  Assessed(src, o, IF o.identified THEN o.identity ELSE drive.identity,
                  DriveObserved([drive EXCEPT !.active = TRUE], src, n, o), row)
<1> DEFINE s == [drive EXCEPT !.active = TRUE]
           id == IF o.identified THEN o.identity ELSE drive.identity
           same == drive.continuity = src /\ drive.identity = id
           first == drive.continuity = NoSource
           a == Identified(Joins([next |-> s, told |-> {}], src), first, o)
           a2 == [a EXCEPT !.next.active = TRUE]
           b == Applied(a2, "direct", o.direct)
           c == Counted(b, o.counter)
           e == Performed(c, n, o.work)
           v == CounterVerdict(b.next, o.counter)
<1>1. /\ DriveFields \subseteq DOMAIN drive /\ drive.signals \in [DriveRules -> Signals]
      /\ drive.continuity = NoSource => Idle(drive)
      /\ drive.counter \in Counters /\ worked \in Seq(Works)
      /\ Worked(drive.performance, drive.signals["performance"].live, worked)
  BY DEF DriveInv, DriveTyped, DriveCounted
<1>2. o.direct \in Verdicts /\ o.counter \in Counters /\ o.work \in WorkReadings
  BY ObservationTypes
<1>3. e = DriveObserved(s, src, n, o)
  <2>1. s.continuity = drive.continuity
    BY <1>1 DEF DriveFields
  <2> QED
    BY <2>1 DEF DriveObserved
<1>4. Arrived(drive, a, src, o)
  BY <1>1, Arrival
<1> HIDE DEF a
<1>5. /\ Shaped(a2) /\ a2.told = a.told /\ a2.next.signals = a.next.signals
      /\ a2.next.counter = a.next.counter /\ a2.next.performance = a.next.performance
      /\ a2.next.continuity = a.next.continuity /\ a2.next.identity = a.next.identity
  BY <1>4 DEF Arrived, Shaped, DriveFields
<1> HIDE DEF a2
<1>6. /\ Tells(drive, a2) /\ a2.told \subseteq DriveRules \X {"interrupted"}
      /\ a2.next.continuity = src /\ a2.next.identity = id
      /\ same => /\ a2.next.signals = drive.signals /\ a2.next.counter = drive.counter
                 /\ a2.next.performance = drive.performance
      /\ ~same => Idle(a2.next)
  BY <1>4, <1>5 DEF Arrived, Tells, Live, Idle
<1>7. /\ "direct" \in DriveRules /\ "counter" \in DriveRules /\ "performance" \in DriveRules
      /\ o.direct \in {"bad", "clear", "unknown"}
  BY <1>2 DEF DriveRules, Verdicts
<1>8. /\ Moved(a2, b, "direct") /\ Untouched(a2, b)
      /\ <<"direct", "resolved">> \in b.told =>
           \/ <<"direct", "resolved">> \in a2.told
           \/ o.direct = "clear" /\ a2.next.signals["direct"].clears = 1
      /\ b.next.signals["direct"].clears = 1 => o.direct = "clear"
  BY <1>5, <1>7, AppliedMoves
<1> HIDE DEF b
<1>9. Shaped(b) /\ b.next.counter = a2.next.counter /\ b.next.counter \in Counters
  <2>1. a2.next.counter \in Counters
    BY <1>1, <1>6 DEF Idle, Counters
  <2> QED
    BY <1>8, <2>1 DEF Moved, Untouched
<1>10. /\ Moved(b, c, "counter") /\ c.next.performance = b.next.performance
       /\ c.next.counter = IF o.counter = NoCounter THEN b.next.counter ELSE o.counter
       /\ <<"counter", "open">> \in c.told =>
            \/ <<"counter", "open">> \in b.told
            \/ /\ o.counter # NoCounter /\ b.next.counter.epoch = o.counter.epoch
               /\ b.next.counter.value < o.counter.value
       /\ <<"counter", "resolved">> \in c.told =>
            \/ <<"counter", "resolved">> \in b.told
            \/ v = "clear" /\ b.next.signals["counter"].clears = 1
       /\ c.next.signals["counter"].clears = 1 => v = "clear"
  BY <1>2, <1>9, CountedMoves
<1> HIDE DEF c
<1>11. c.next.performance = a2.next.performance /\ Shaped(c)
  BY <1>8, <1>10 DEF Untouched, Moved
<1>12. c.next.signals["performance"] = a2.next.signals["performance"]
  BY <1>7, <1>8, <1>10 DEF Moved
<1> DEFINE row1 == IF same THEN worked ELSE <<>>
<1>13. row1 \in Seq(Works) /\ Worked(c.next.performance, Live(c, "performance"), row1)
  <2>1. CASE same
    BY <1>1, <1>6, <1>11, <1>12, <2>1 DEF Live
  <2>2. CASE ~same
    <3>1. ~Live(c, "performance") /\ c.next.performance = NewPerformance
      BY <1>6, <1>7, <1>11, <1>12, <2>2 DEF Live, Idle
    <3>2. <<>> \in Seq(Works)
      OBVIOUS
    <3>3. /\ PerformanceFields \subseteq DOMAIN NewPerformance
          /\ NewPerformance.elevated = 0 /\ NewPerformance.recovery = 0
      BY DEF NewPerformance, PerformanceFields
    <3>4. Worked(NewPerformance, Live(c, "performance"), <<>>)
      BY <3>1, <3>2, <3>3, NothingCounted
    <3> QED
      BY <2>2, <3>1, <3>2, <3>4
  <2> QED
    BY <2>1, <2>2
<1>14. ~same => ~Interval(c.next.performance, n, o.work)
  BY <1>2, <1>6, <1>11 DEF Idle, NewPerformance, Interval, WorkReadings
<1>15. Interval(c.next.performance, n, o.work) => row = MoreWork(row1, o.work, n)
  BY <1>6, <1>11, <1>14
<1> HIDE DEF row1
<1>16. /\ WorkJudged(c, e, row)
       /\ Interval(c.next.performance, n, o.work)
            \/ e.told \subseteq c.told \cup {<<"performance", "interrupted">>}
  BY <1>2, <1>11, <1>13, <1>15, PerformedJudged
<1> HIDE DEF e
<1>17. Moved(c, e, "performance")
  BY <1>16 DEF WorkJudged
<1>18. Shaped(e) /\ Tells(drive, e)
  <2>1. Tells(drive, b)
    BY <1>6, <1>7, <1>8, MovedTells
  <2>2. Tells(drive, c)
    BY <1>7, <1>10, <2>1, MovedTells
  <2>3. Tells(drive, e)
    BY <1>7, <1>17, <2>2, MovedTells
  <2> QED
    BY <1>17, <2>3 DEF Moved
<1>19. e.next.continuity = src /\ e.next.identity = id
  BY <1>6, <1>8, <1>10, <1>17 DEF Moved
<1>20. e.next.counter = IF o.counter # NoCounter THEN o.counter
                        ELSE IF same THEN drive.counter ELSE NoCounter
  <2>1. e.next.counter = c.next.counter
    BY <1>16 DEF WorkJudged
  <2> QED
    BY <1>6, <1>9, <1>10, <2>1 DEF Idle
<1>21. /\ \A st \in {"resolved", "open"}, r \in {"direct", "counter"} :
            <<r, st>> \in e.told => <<r, st>> \in c.told
       /\ \A st \in {"resolved", "open"} :
            /\ <<"direct", st>> \in c.told => <<"direct", st>> \in b.told
            /\ <<"counter", st>> \in b.told => <<"counter", st>> \in a2.told
       /\ \A st \in {"resolved", "open"}, r \in DriveRules : <<r, st>> \notin a2.told
  BY <1>6, <1>8, <1>10, <1>17 DEF Moved, TellsOf, EndsOf
<1>22. <<"counter", "open">> \in e.told =>
          /\ same /\ o.counter # NoCounter
          /\ drive.counter.epoch = o.counter.epoch /\ drive.counter.value < o.counter.value
  <2>1. SUFFICES ASSUME <<"counter", "open">> \in e.told
                 PROVE  /\ same /\ o.counter # NoCounter
                        /\ drive.counter.epoch = o.counter.epoch
                        /\ drive.counter.value < o.counter.value
    OBVIOUS
  <2>2. /\ o.counter # NoCounter /\ b.next.counter.epoch = o.counter.epoch
        /\ b.next.counter.value < o.counter.value
    BY <1>7, <1>10, <1>21, <2>1
  <2>3. b.next.counter.epoch # 0
    BY <1>2, <2>2 DEF Counters
  <2>4. same
    BY <1>6, <1>9, <2>3 DEF Idle, NoCounter
  <2> QED
    BY <1>6, <1>9, <2>2, <2>4
<1>23. v = "clear" => same /\ v = CounterVerdict(drive, o.counter)
  <2>1. SUFFICES ASSUME v = "clear" PROVE same /\ v = CounterVerdict(drive, o.counter)
    OBVIOUS
  <2>2. o.counter # NoCounter /\ b.next.counter.epoch = o.counter.epoch
    BY <2>1 DEF CounterVerdict
  <2>3. b.next.counter.epoch # 0
    BY <1>2, <2>2 DEF Counters
  <2>4. same
    BY <1>6, <1>9, <2>3 DEF Idle, NoCounter
  <2> QED
    BY <1>6, <1>9, <2>4 DEF CounterVerdict
<1> HIDE DEF v
<1>24. /\ <<"direct", "resolved">> \in e.told =>
            same /\ o.direct = "clear" /\ drive.signals["direct"].clears = 1
       /\ e.next.signals["direct"].clears = 1 => o.direct = "clear"
  <2>1. e.next.signals["direct"] = b.next.signals["direct"]
    BY <1>7, <1>10, <1>17 DEF Moved
  <2>2. <<"direct", "resolved">> \in e.told =>
          o.direct = "clear" /\ a2.next.signals["direct"].clears = 1
    BY <1>7, <1>8, <1>21
  <2>3. a2.next.signals["direct"].clears = 1 => same
    BY <1>6, <1>7 DEF Idle
  <2> QED
    BY <1>6, <1>8, <2>1, <2>2, <2>3
<1>25. /\ <<"counter", "resolved">> \in e.told =>
            same /\ v = "clear" /\ drive.signals["counter"].clears = 1
       /\ e.next.signals["counter"].clears = 1 => v = "clear"
  <2>1. /\ e.next.signals["counter"] = c.next.signals["counter"]
        /\ b.next.signals["counter"] = a2.next.signals["counter"]
    BY <1>7, <1>8, <1>17 DEF Moved
  <2>2. <<"counter", "resolved">> \in e.told =>
          v = "clear" /\ a2.next.signals["counter"].clears = 1
    BY <1>7, <1>10, <1>21, <2>1
  <2> QED
    BY <1>6, <1>10, <1>23, <2>1, <2>2
<1>26. Worked(e.next.performance, Live(e, "performance"), row)
  BY <1>16 DEF WorkJudged
<1>27. <<"performance", "resolved">> \in e.told =>
          Ends(row, Recovery, Brisk(drive.performance.bucket, drive.performance.reference))
  <2>1. SUFFICES ASSUME <<"performance", "resolved">> \in e.told
                 PROVE  Ends(row, Recovery, Brisk(drive.performance.bucket,
                                                  drive.performance.reference))
    OBVIOUS
  <2>2. <<"performance", "resolved">> \notin c.told
    BY <1>7, <1>8, <1>10, <1>21 DEF Moved, TellsOf, EndsOf
  <2>3. same
    BY <1>14, <1>16, <2>1, <2>2
  <2> QED
    BY <1>6, <1>11, <1>16, <2>1, <2>2, <2>3 DEF WorkJudged
<1>28. (Live(e, "performance") /\ ~drive.signals["performance"].live) =>
          Ends(row, Opening, Slow(e.next.performance.bucket, e.next.performance.reference))
  <2>1. SUFFICES ASSUME Live(e, "performance"), ~drive.signals["performance"].live
                 PROVE  Ends(row, Opening, Slow(e.next.performance.bucket,
                                                e.next.performance.reference))
    OBVIOUS
  <2>2. ~Live(c, "performance")
    BY <1>6, <1>7, <1>12, <2>1 DEF Live, Idle
  <2> QED
    BY <1>16, <2>1, <2>2 DEF WorkJudged
<1>29. Assessed(src, o, id, e, row)
  BY <1>18, <1>19, <1>20, <1>22, <1>23, <1>24, <1>25, <1>26, <1>27, <1>28 DEF Assessed
<1> QED
  BY <1>3, <1>29

\* What an analysis of the drive tells, and what it rests on.
DriveVerdict ==
  /\ \A r \in {"direct", "counter"} :
       <<r, "resolved">> \in driveTold' => verdicts'[r] = <<"clear", "clear">>
  /\ <<"performance", "resolved">> \in driveTold' =>
       Ends(worked', Recovery, Brisk(drive.performance.bucket, drive.performance.reference))
  /\ (drive'.signals["performance"].live /\ ~drive.signals["performance"].live) =>
       Ends(worked', Opening, Slow(drive'.performance.bucket, drive'.performance.reference))
  /\ <<"counter", "open">> \in driveTold' =>
       /\ reading.identity = reading'.identity /\ reading.source = reading'.source
       /\ reading.counter.epoch = reading'.counter.epoch
       /\ reading.counter.value < reading'.counter.value

\* The last two things a rule was told.
LEMMA HeardLast ==
  ASSUME NEW T, NEW s \in Seq(T), NEW x \in T
  PROVE  LET v == LastOf(Append(s, x), 2)
         IN /\ v \in Seq(T) /\ v # <<>> /\ v[Len(v)] = x
            /\ s # <<>> => v = <<s[Len(s)], x>>
<1> DEFINE t == Append(s, x)
           v == LastOf(t, 2)
<1>1. /\ t \in Seq(T) /\ Len(t) = Len(s) + 1 /\ t[Len(s) + 1] = x
      /\ \A i \in 1..Len(s) : t[i] = s[i]
  OBVIOUS
<1> HIDE DEF t
<1>2. CASE Len(t) <= 2
  <2>1. v = t
    BY <1>2 DEF LastOf
  <2>2. s # <<>> => Len(s) = 1
    <3>1. Len(s) \in Nat /\ Len(s) <= 1
      BY <1>1, <1>2
    <3>2. Len(s) = 0 => s = <<>>
      OBVIOUS
    <3>3. Len(s) = 0 \/ Len(s) = 1
      <4>1. \A m \in Nat : m <= 1 => (m = 0 \/ m = 1)
        OBVIOUS
      <4> QED
        BY <3>1, <4>1
    <3> QED
      BY <3>2, <3>3
  <2>3. s # <<>> => (Len(v) = 2 /\ v[1] = s[Len(s)] /\ v[2] = x)
    <3>1. SUFFICES ASSUME s # <<>> PROVE Len(v) = 2 /\ v[1] = s[Len(s)] /\ v[2] = x
      OBVIOUS
    <3>2. Len(s) = 1
      BY <2>2, <3>1
    <3>3. 1 \in 1..Len(s) /\ Len(t) = 2 /\ t[2] = x
      BY <1>1, <3>2
    <3>4. t[1] = s[1]
      BY <1>1, <3>3
    <3> QED
      BY <2>1, <3>2, <3>3, <3>4
  <2>4. v \in Seq(T) /\ v # <<>> /\ v[Len(v)] = x
    BY <1>1, <2>1
  <2> HIDE DEF v
  <2>5. s # <<>> => v = <<s[Len(s)], x>>
    BY <2>3, <2>4
  <2> QED
    BY <2>4, <2>5 DEF v, t
<1>3. CASE ~(Len(t) <= 2)
  <2>1. v = SubSeq(t, Len(t) - 2 + 1, Len(t))
    BY <1>3 DEF LastOf
  <2>2. Len(s) \in 1..Len(s) /\ Len(s) \in Nat
    BY <1>1, <1>3
  <2> HIDE DEF v
  <2>3. v \in Seq(T) /\ Len(v) = 2 /\ v[1] = t[Len(s)] /\ v[2] = t[Len(s) + 1]
    BY <1>1, <1>3, <2>1, <2>2
  <2>4. v = <<s[Len(s)], x>>
    BY <1>1, <2>2, <2>3
  <2> QED
    BY <1>1, <2>3, <2>4 DEF v, t
<1> QED
  BY <1>2, <1>3

\* A source that is saved with what it told keeps its open rows.
LEMMA SavedDrive ==
  ASSUME DOMAIN driveRows = DriveRules, DriveRowsAreLive, drive.signals \in [DriveRules -> Signals],
         NEW a, Shaped(a), Tells(drive, a), DriveSaved(a)
  PROVE  /\ DOMAIN driveRows' = DriveRules /\ DriveRowsAreLive'
         /\ drive' = a.next /\ driveTold' = a.told
<1>1. /\ drive' = a.next /\ driveTold' = a.told /\ DOMAIN driveRows' = DriveRules
      /\ \A r \in DriveRules :
           driveRows'[r] = driveRows[r]
             + (IF Live(a, r) /\ (EndsOf(r) \cap a.told # {} \/ ~drive.signals[r].live) THEN 1 ELSE 0)
             - (IF drive.signals[r].live /\ EndsOf(r) \cap a.told # {} THEN 1 ELSE 0)
  BY DEF DriveSaved, EndsOf
<1>2. ASSUME NEW r \in DriveRules
      PROVE  driveRows'[r] = IF drive'.signals[r].live THEN 1 ELSE 0
  <2> DEFINE was == drive.signals[r].live
             is == Live(a, r)
             ended == EndsOf(r) \cap a.told # {}
  <2>1. driveRows[r] = IF was THEN 1 ELSE 0
    BY <1>2 DEF DriveRowsAreLive
  <2>2. driveRows'[r] = driveRows[r] + (IF is /\ (ended \/ ~was) THEN 1 ELSE 0)
                                     - (IF was /\ ended THEN 1 ELSE 0)
    BY <1>1, <1>2
  <2>3. (was /\ ~is) => ended
    BY <1>2 DEF Tells
  <2>4. drive'.signals[r].live = is
    BY <1>1 DEF Live
  <2> HIDE DEF was, is, ended
  <2>5. CASE was /\ is /\ ended
    BY <2>1, <2>2, <2>4, <2>5
  <2>6. CASE was /\ is /\ ~ended
    BY <2>1, <2>2, <2>4, <2>6
  <2>7. CASE was /\ ~is
    BY <2>1, <2>2, <2>3, <2>4, <2>7
  <2>8. CASE ~was /\ is
    BY <2>1, <2>2, <2>4, <2>8
  <2>9. CASE ~was /\ ~is
    BY <2>1, <2>2, <2>4, <2>9
  <2> QED
    BY <2>5, <2>6, <2>7, <2>8, <2>9
<1> QED
  BY <1>1, <1>2 DEF DriveRowsAreLive

\* A drive that is no longer followed, or not observed.
LEMMA DriveEnds ==
  ASSUME DriveInv, NEW t, Shaped(t), t.next.counter = NoCounter,
         t.told = Interrupted([next |-> drive, told |-> {}]).told, Idle(t.next), DriveSaved(t),
         verdicts' = [r \in DriveRules |-> <<>>], worked' = <<>>
  PROVE  DriveInv' /\ DriveVerdict
<1> DEFINE a == [next |-> drive, told |-> {}]
           b == Interrupted(a)
<1>1. /\ DriveFields \subseteq DOMAIN drive /\ drive.signals \in [DriveRules -> Signals]
      /\ DOMAIN driveRows = DriveRules /\ DriveRowsAreLive
  BY DEF DriveInv, DriveTyped
<1>2. Shaped(a) /\ a.next = drive /\ a.told = {}
  BY <1>1 DEF Shaped
<1> HIDE DEF a
<1>3. /\ b.told \subseteq DriveRules \X {"interrupted"}
      /\ \A r \in DriveRules : Live(a, r) => <<r, "interrupted">> \in b.told
  BY <1>2, InterruptedEnds
<1> HIDE DEF b
<1>4. t.told = b.told
  BY DEF a, b
<1>5. Tells(drive, t)
  BY <1>2, <1>3, <1>4 DEF Tells, Live, EndsOf
<1>6. /\ DOMAIN driveRows' = DriveRules /\ DriveRowsAreLive'
      /\ drive' = t.next /\ driveTold' = t.told
  BY <1>1, <1>5, SavedDrive
<1>7. /\ "performance" \in DriveRules /\ "direct" \in DriveRules /\ "counter" \in DriveRules
  BY DEF DriveRules
<1>8. DriveTyped'
  <2>1. DriveFields \subseteq DOMAIN drive' /\ drive'.signals \in [DriveRules -> Signals]
    BY <1>6 DEF Shaped
  <2>2. drive'.continuity = NoSource => Idle(drive')
    BY <1>6
  <2>3. drive'.counter \in Counters
    BY <1>6 DEF Counters
  <2>4. verdicts' \in [DriveRules -> Seq(Verdicts)] /\ worked' \in Seq(Works)
    OBVIOUS
  <2> QED
    BY <2>1, <2>2, <2>3, <2>4 DEF DriveTyped
<1>9. DriveCounted'
  <2>1. \A r \in DriveRules : drive'.signals[r] = [live |-> FALSE, clears |-> 0]
    BY <1>6 DEF Idle
  <2>2. PerformanceFields \subseteq DOMAIN NewPerformance /\ NewPerformance.elevated = 0
        /\ NewPerformance.recovery = 0
    BY DEF NewPerformance, PerformanceFields
  <2>3. <<>> \in Seq(Works) /\ ~drive'.signals["performance"].live
    BY <1>7, <2>1
  <2>4. drive'.performance = NewPerformance
    BY <1>6 DEF Idle
  <2>5. Worked(NewPerformance, drive'.signals["performance"].live, <<>>)
    BY <2>2, <2>3, NothingCounted
  <2>6. \A r \in {"direct", "counter"} : drive'.signals[r].clears = 1 => ClearLast(verdicts'[r])
    BY <1>7, <2>1
  <2>7. drive'.counter = NoCounter
    BY <1>6
  <2> QED
    BY <2>4, <2>5, <2>6, <2>7 DEF DriveCounted
<1>10. DriveInv'
  BY <1>6, <1>8, <1>9 DEF DriveInv
<1>11. DriveVerdict
  <2>1. driveTold' \subseteq DriveRules \X {"interrupted"}
    BY <1>3, <1>4, <1>6
  <2>2. \A r \in DriveRules : <<r, "resolved">> \notin driveTold' /\ <<r, "open">> \notin driveTold'
    BY <2>1
  <2>3. ~drive'.signals["performance"].live
    BY <1>6, <1>7 DEF Idle
  <2> QED
    BY <1>7, <2>2, <2>3 DEF DriveVerdict
<1> QED
  BY <1>10, <1>11

\* What is saved of an assessment.  When the state is too large to store, everything ends
\* and the source starts over.
OversizedDrive(a, b, session) ==
  [next |-> [NewDrive EXCEPT !.support = "capacity_limited", !.context = session],
   told |-> b.told \ {<<r, "open">> : r \in DriveRules}]
StoredDrive(a, session, oversized) ==
  IF oversized THEN OversizedDrive(a, Interrupted(a), session)
  ELSE [a EXCEPT !.next.support = "supported", !.next.context = session]

\* What is saved of an assessment, whether the state fits or not, tells the same ends.
LEMMA SavedAssessment ==
  ASSUME NEW src, NEW o, NEW id, NEW a, NEW row \in Seq(Works), Assessed(src, o, id, a, row),
         NEW u, NEW session, NEW oversized \in BOOLEAN, u = StoredDrive(a, session, oversized)
  PROVE  /\ Shaped(u) /\ Tells(drive, u)
         /\ u.next.continuity = NoSource => Idle(u.next) \/ src = NoSource
         /\ \A r \in DriveRules : <<r, "resolved">> \in u.told => <<r, "resolved">> \in a.told
         /\ <<"counter", "open">> \in u.told => <<"counter", "open">> \in a.told
         /\ \/ Idle(u.next)
            \/ /\ u.next.signals = a.next.signals /\ u.next.counter = a.next.counter
               /\ u.next.performance = a.next.performance
               /\ u.next.continuity = src /\ u.next.identity = id
<1> DEFINE b == Interrupted(a)
<1>1. Shaped(a) /\ Tells(drive, a) /\ a.next.continuity = src /\ a.next.identity = id
  BY DEF Assessed
<1>2. CASE oversized
  <2>1. u.told = b.told \ {<<r, "open">> : r \in DriveRules}
    BY <1>2 DEF StoredDrive, OversizedDrive
  <2>2. /\ a.told \subseteq b.told
        /\ b.told \subseteq a.told \cup (DriveRules \X {"interrupted"})
        /\ \A r \in DriveRules : Live(a, r) => <<r, "interrupted">> \in b.told
    BY <1>1, InterruptedEnds
  <2>3. DOMAIN u = {"next", "told"} /\ DriveFields \subseteq DOMAIN u.next
    BY <1>2 DEF StoredDrive, OversizedDrive, NewDrive, DriveFields
  <2>4. /\ u.next.signals = [r \in DriveRules |-> [live |-> FALSE, clears |-> 0]]
        /\ u.next.counter = NoCounter /\ u.next.performance = NewPerformance
    BY <1>2 DEF StoredDrive, OversizedDrive, NewDrive
  <2> HIDE DEF b
  <2>5. Shaped(u)
    <3>1. [r \in DriveRules |-> [live |-> FALSE, clears |-> 0]] \in [DriveRules -> Signals]
      BY DEF Signals
    <3> QED
      BY <2>3, <2>4, <3>1 DEF Shaped
  <2>6. Idle(u.next)
    BY <2>4 DEF Idle
  <2>7. ASSUME NEW r \in DriveRules, drive.signals[r].live
        PROVE  u.told \cap EndsOf(r) # {}
    <3>1. \E e \in EndsOf(r) : e \in b.told
      <4>1. CASE Live(a, r)
        BY <2>2, <2>7, <4>1 DEF EndsOf
      <4>2. CASE ~Live(a, r)
        BY <1>1, <2>2, <2>7, <4>2 DEF Tells
      <4> QED
        BY <4>1, <4>2
    <3>2. \A e \in EndsOf(r) : e \notin {<<q, "open">> : q \in DriveRules}
      BY DEF EndsOf
    <3> QED
      BY <2>1, <3>1, <3>2
  <2>8. Tells(drive, u)
    BY <2>7 DEF Tells
  <2>9. \A r \in DriveRules : <<r, "resolved">> \in u.told => <<r, "resolved">> \in a.told
    BY <2>1, <2>2
  <2>10. <<"counter", "open">> \notin u.told
    BY <2>1 DEF DriveRules
  <2> QED
    BY <2>5, <2>6, <2>8, <2>9, <2>10
<1>3. CASE ~oversized
  <2>1. u = [a EXCEPT !.next.support = "supported", !.next.context = session]
    BY <1>3 DEF StoredDrive
  <2>2. /\ DOMAIN u = {"next", "told"} /\ DriveFields \subseteq DOMAIN u.next /\ u.told = a.told
        /\ u.next.signals = a.next.signals /\ u.next.counter = a.next.counter
        /\ u.next.performance = a.next.performance
        /\ u.next.continuity = a.next.continuity /\ u.next.identity = a.next.identity
    BY <1>1, <2>1 DEF Shaped, DriveFields
  <2>3. Shaped(u) /\ Tells(drive, u)
    BY <1>1, <2>2 DEF Shaped, Tells, Live
  <2> QED
    BY <1>1, <2>2, <2>3
<1> QED
  BY <1>2, <1>3

\* A collection of the drive.
LEMMA CollectDriveStep ==
  ASSUME DriveInv, NEW src \in Sources, NEW n \in 1..(MaxInterval + 1), NEW o \in Observations,
         NEW oversized \in BOOLEAN, CollectDrive(src, n, o, oversized)
  PROVE  DriveInv' /\ DriveVerdict
<1> DEFINE s == [drive EXCEPT !.active = TRUE]
           a == DriveObserved(s, src, n, o)
           id == IF o.identified THEN o.identity ELSE drive.identity
           same == drive.continuity = src /\ drive.identity = id
           judged == drive.continuity = src /\ Interval(drive.performance, n, o.work)
           verdict == [r \in {"direct", "counter"} |->
                         IF r = "direct" THEN o.direct ELSE CounterVerdict(drive, o.counter)]
           u == StoredDrive(a, driveSession, oversized)
<1>1. /\ DriveFields \subseteq DOMAIN drive /\ drive.signals \in [DriveRules -> Signals]
      /\ drive.counter \in Counters /\ worked \in Seq(Works)
      /\ verdicts \in [DriveRules -> Seq(Verdicts)]
      /\ drive.counter # NoCounter =>
           reading = [counter |-> drive.counter, identity |-> drive.identity,
                      source |-> drive.continuity]
      /\ \A r \in {"direct", "counter"} : drive.signals[r].clears = 1 => ClearLast(verdicts[r])
      /\ DOMAIN driveRows = DriveRules /\ DriveRowsAreLive
  BY DEF DriveInv, DriveTyped, DriveCounted
<1>2. DriveSaved(u)
  BY DEF CollectDrive, StoredDrive, OversizedDrive
<1>3. worked' = IF ~judged THEN <<>> ELSE MoreWork(worked, o.work, n)
  BY DEF CollectDrive, MoreWork, More, Most
<1>4. reading' = IF o.counter = NoCounter THEN reading
                 ELSE [counter |-> o.counter, identity |-> a.next.identity, source |-> src]
  BY DEF CollectDrive
<1> DEFINE Ruled(r, v) == IF drive.continuity = src /\ drive.identity = a.next.identity
                          THEN LastOf(Append(verdicts[r], v), 2) ELSE <<v>>
<1>5. verdicts' = [verdicts EXCEPT !["direct"] = Ruled("direct", o.direct),
                                   !["counter"] = Ruled("counter", CounterVerdict(drive, o.counter))]
  BY DEF CollectDrive
<1>6. n \in Nat \ {0}
  BY BaselineAssumption
<1>7. src # NoSource
  BY BaselineAssumption DEF Sources, NoSource
<1>8. o.direct \in Verdicts /\ o.counter \in Counters /\ o.work \in WorkReadings
  BY ObservationTypes
<1>9. worked' \in Seq(Works)
  <2>1. CASE judged
    <3>1. o.work.bucket \in Buckets /\ o.work.value \in ServiceTimes
      BY <1>8, <2>1 DEF Interval, WorkReadings
    <3> QED
      BY <1>1, <1>3, <1>6, <2>1, <3>1, MoreWorkEnds
  <2>2. CASE ~judged
    BY <1>3, <2>2
  <2> QED
    BY <2>1, <2>2
<1>10. Assessed(src, o, id, a, worked')
  BY <1>3, <1>6, <1>7, <1>9, DriveAssessed
<1> HIDE DEF a, u, id
<1>11. /\ Shaped(u) /\ Tells(drive, u)
       /\ u.next.continuity = NoSource => Idle(u.next)
       /\ \A r \in DriveRules : <<r, "resolved">> \in u.told => <<r, "resolved">> \in a.told
       /\ <<"counter", "open">> \in u.told => <<"counter", "open">> \in a.told
       /\ \/ Idle(u.next)
          \/ /\ u.next.signals = a.next.signals /\ u.next.counter = a.next.counter
             /\ u.next.performance = a.next.performance
             /\ u.next.continuity = src /\ u.next.identity = id
  BY <1>7, <1>9, <1>10, SavedAssessment DEF u
<1>12. /\ a.next.identity = id
       /\ a.next.counter = IF o.counter # NoCounter THEN o.counter
                           ELSE IF same THEN drive.counter ELSE NoCounter
       /\ <<"counter", "open">> \in a.told =>
            /\ same /\ o.counter # NoCounter
            /\ drive.counter.epoch = o.counter.epoch /\ drive.counter.value < o.counter.value
       /\ \A r \in {"direct", "counter"} :
            /\ <<r, "resolved">> \in a.told =>
                 same /\ verdict[r] = "clear" /\ drive.signals[r].clears = 1
            /\ a.next.signals[r].clears = 1 => verdict[r] = "clear"
       /\ Worked(a.next.performance, Live(a, "performance"), worked')
       /\ <<"performance", "resolved">> \in a.told =>
            Ends(worked', Recovery, Brisk(drive.performance.bucket, drive.performance.reference))
       /\ (Live(a, "performance") /\ ~drive.signals["performance"].live) =>
            Ends(worked', Opening, Slow(a.next.performance.bucket, a.next.performance.reference))
  BY <1>10 DEF Assessed
<1>13. /\ DOMAIN driveRows' = DriveRules /\ DriveRowsAreLive'
       /\ drive' = u.next /\ driveTold' = u.told
  BY <1>1, <1>2, <1>11, SavedDrive
<1>14. "performance" \in DriveRules /\ "direct" \in DriveRules /\ "counter" \in DriveRules
  BY DEF DriveRules
<1>15. verdict["direct"] \in Verdicts /\ verdict["counter"] \in Verdicts
  BY <1>8 DEF CounterVerdict, Verdicts
<1>16. \A r \in {"direct", "counter"} :
         verdicts'[r] = IF same THEN LastOf(Append(verdicts[r], verdict[r]), 2) ELSE <<verdict[r]>>
  BY <1>1, <1>5, <1>12, <1>14
<1> HIDE DEF Ruled, verdict
<1>17. ASSUME NEW r \in {"direct", "counter"}
       PROVE  /\ verdicts'[r] \in Seq(Verdicts)
              /\ verdict[r] = "clear" => ClearLast(verdicts'[r])
              /\ (same /\ verdict[r] = "clear" /\ ClearLast(verdicts[r]))
                   => verdicts'[r] = <<"clear", "clear">>
  <2>1. verdicts[r] \in Seq(Verdicts) /\ verdict[r] \in Verdicts
    BY <1>1, <1>14, <1>15
  <2>2. CASE same
    <3> DEFINE v == LastOf(Append(verdicts[r], verdict[r]), 2)
    <3>1. /\ v \in Seq(Verdicts) /\ v # <<>> /\ v[Len(v)] = verdict[r]
          /\ verdicts[r] # <<>> => v = <<verdicts[r][Len(verdicts[r])], verdict[r]>>
      BY <2>1, HeardLast
    <3>2. verdicts'[r] = v
      BY <1>16, <2>2
    <3> HIDE DEF v
    <3> QED
      BY <3>1, <3>2 DEF ClearLast
  <2>3. CASE ~same
    <3>1. verdicts'[r] = <<verdict[r]>>
      BY <1>16, <2>3
    <3> QED
      BY <2>1, <2>3, <3>1 DEF ClearLast
  <2> QED
    BY <2>2, <2>3
<1>18. DriveTyped'
  <2>1. DriveFields \subseteq DOMAIN drive' /\ drive'.signals \in [DriveRules -> Signals]
    BY <1>11, <1>13 DEF Shaped
  <2>2. drive'.continuity = NoSource => Idle(drive')
    BY <1>11, <1>13
  <2>3. drive'.counter \in Counters
    <3>1. NoCounter \in Counters
      BY DEF Counters
    <3> QED
      BY <1>1, <1>8, <1>11, <1>12, <1>13, <3>1 DEF Idle
  <2>4. verdicts' \in [DriveRules -> Seq(Verdicts)]
    <3>1. DOMAIN verdicts' = DriveRules /\ verdicts'["performance"] = verdicts["performance"]
      BY <1>1, <1>5, <1>14
    <3>2. \A r \in DriveRules : verdicts'[r] \in Seq(Verdicts)
      BY <1>1, <1>17, <3>1 DEF DriveRules
    <3>3. verdicts' = [r \in DriveRules |-> verdicts'[r]]
      BY <1>1, <1>5
    <3> QED
      BY <3>2, <3>3
  <2> QED
    BY <1>9, <2>1, <2>2, <2>3, <2>4 DEF DriveTyped
<1>19. DriveCounted'
  <2>1. CASE Idle(u.next)
    <3>1. PerformanceFields \subseteq DOMAIN NewPerformance /\ NewPerformance.elevated = 0
          /\ NewPerformance.recovery = 0
      BY DEF NewPerformance, PerformanceFields
    <3>2. \A r \in DriveRules : drive'.signals[r] = [live |-> FALSE, clears |-> 0]
      BY <1>13, <2>1 DEF Idle
    <3>3. drive'.counter = NoCounter /\ drive'.performance = NewPerformance
      BY <1>13, <2>1 DEF Idle
    <3>4. ~drive'.signals["performance"].live
      BY <1>14, <3>2
    <3>5. Worked(NewPerformance, drive'.signals["performance"].live, worked')
      BY <1>9, <3>1, <3>4, NothingCounted
    <3>6. \A r \in {"direct", "counter"} : drive'.signals[r].clears = 1 => ClearLast(verdicts'[r])
      BY <1>14, <3>2
    <3> QED
      BY <3>3, <3>5, <3>6 DEF DriveCounted
  <2>2. CASE /\ u.next.signals = a.next.signals /\ u.next.counter = a.next.counter
             /\ u.next.performance = a.next.performance
             /\ u.next.continuity = src /\ u.next.identity = id
    <3>1. drive'.counter # NoCounter =>
            reading' = [counter |-> drive'.counter, identity |-> drive'.identity,
                        source |-> drive'.continuity]
      <4>1. CASE o.counter # NoCounter
        BY <1>4, <1>12, <1>13, <2>2, <4>1
      <4>2. CASE o.counter = NoCounter /\ same
        BY <1>1, <1>4, <1>12, <1>13, <2>2, <4>2
      <4>3. CASE o.counter = NoCounter /\ ~same
        BY <1>12, <1>13, <2>2, <4>3
      <4> QED
        BY <4>1, <4>2, <4>3
    <3>2. \A r \in {"direct", "counter"} : drive'.signals[r].clears = 1 => ClearLast(verdicts'[r])
      BY <1>12, <1>13, <1>17, <2>2
    <3>3. drive'.signals["performance"].live = Live(a, "performance")
      BY <1>13, <2>2 DEF Live
    <3>4. Worked(drive'.performance, drive'.signals["performance"].live, worked')
      BY <1>12, <1>13, <2>2, <3>3
    <3> QED
      BY <3>1, <3>2, <3>4 DEF DriveCounted
  <2> QED
    BY <1>11, <2>1, <2>2
<1>20. DriveInv'
  BY <1>13, <1>18, <1>19 DEF DriveInv
<1>21. DriveVerdict
  <2>1. ASSUME NEW r \in {"direct", "counter"}, <<r, "resolved">> \in driveTold'
        PROVE  verdicts'[r] = <<"clear", "clear">>
    <3>1. <<r, "resolved">> \in a.told
      BY <1>11, <1>13, <1>14, <2>1
    <3> QED
      BY <1>1, <1>12, <1>17, <3>1
  <2>2. <<"performance", "resolved">> \in driveTold' =>
          Ends(worked', Recovery, Brisk(drive.performance.bucket, drive.performance.reference))
    BY <1>11, <1>12, <1>13, <1>14
  <2>3. (drive'.signals["performance"].live /\ ~drive.signals["performance"].live) =>
          Ends(worked', Opening, Slow(drive'.performance.bucket, drive'.performance.reference))
    <3>1. CASE Idle(u.next)
      BY <1>13, <1>14, <3>1 DEF Idle
    <3>2. CASE u.next.signals = a.next.signals /\ u.next.performance = a.next.performance
      BY <1>12, <1>13, <3>2 DEF Live
    <3> QED
      BY <1>11, <3>1, <3>2
  <2>4. <<"counter", "open">> \in driveTold' =>
          /\ reading.identity = reading'.identity /\ reading.source = reading'.source
          /\ reading.counter.epoch = reading'.counter.epoch
          /\ reading.counter.value < reading'.counter.value
    <3>1. SUFFICES ASSUME <<"counter", "open">> \in driveTold'
                   PROVE  /\ reading.identity = reading'.identity /\ reading.source = reading'.source
                          /\ reading.counter.epoch = reading'.counter.epoch
                          /\ reading.counter.value < reading'.counter.value
      OBVIOUS
    <3>2. <<"counter", "open">> \in a.told
      BY <1>11, <1>13, <3>1
    <3>3. /\ same /\ o.counter # NoCounter
          /\ drive.counter.epoch = o.counter.epoch /\ drive.counter.value < o.counter.value
      BY <1>12, <3>2
    <3>4. drive.counter # NoCounter
      BY <1>8, <3>3 DEF NoCounter, Counters
    <3>5. reading = [counter |-> drive.counter, identity |-> drive.identity,
                     source |-> drive.continuity]
      BY <1>1, <3>4
    <3>6. reading' = [counter |-> o.counter, identity |-> id, source |-> src]
      BY <1>4, <1>12, <3>3
    <3> QED
      BY <3>3, <3>5, <3>6
  <2> QED
    BY <2>1, <2>2, <2>3, <2>4 DEF DriveVerdict
<1> QED
  BY <1>20, <1>21

\* Each step of the store keeps the invariant, and what it tells is earned.
LEMMA DriveNext ==
  DriveInv /\ [NextReliability]_reliabilityVars
    => DriveInv' /\ (DriveVerdict \/ UNCHANGED reliabilityVars)
<1> SUFFICES ASSUME DriveInv, [NextReliability]_reliabilityVars
             PROVE  DriveInv' /\ (DriveVerdict \/ UNCHANGED reliabilityVars)
  OBVIOUS
<1> DEFINE a == [next |-> drive, told |-> {}]
           b == Interrupted(a)
<1>1. /\ DriveFields \subseteq DOMAIN drive /\ drive.signals \in [DriveRules -> Signals]
      /\ DriveTyped /\ DriveCounted /\ DOMAIN driveRows = DriveRules /\ DriveRowsAreLive
  BY DEF DriveInv, DriveTyped
<1>2. Shaped(b) /\ b.next.counter = NoCounter /\ Idle(b.next)
  <2>1. Shaped(a)
    BY <1>1 DEF Shaped
  <2> HIDE DEF a
  <2> QED
    BY <2>1, InterruptedEnds DEF Idle
<1> HIDE DEF b
<1>3. ASSUME NEW src \in Sources, NEW n \in 1..(MaxInterval + 1), NEW o \in Observations,
             NEW oversized \in BOOLEAN, CollectDrive(src, n, o, oversized)
      PROVE  DriveInv' /\ DriveVerdict
  BY <1>3, CollectDriveStep
<1>4. ASSUME TurnAway PROVE DriveInv' /\ DriveVerdict
  <2> DEFINE t == [b EXCEPT !.next.support = "capacity_limited", !.next.context = driveSession]
  <2>1. DriveSaved(t) /\ verdicts' = [r \in DriveRules |-> <<>>] /\ worked' = <<>>
    BY <1>4 DEF TurnAway, b
  <2>2. /\ DOMAIN t = {"next", "told"} /\ DriveFields \subseteq DOMAIN t.next /\ t.told = b.told
        /\ t.next.signals = b.next.signals /\ t.next.counter = b.next.counter
        /\ t.next.performance = b.next.performance
    BY <1>2 DEF Shaped, DriveFields
  <2> HIDE DEF t
  <2>3. Shaped(t) /\ t.next.counter = NoCounter /\ Idle(t.next)
    BY <1>2, <2>2 DEF Shaped, Idle
  <2> QED
    BY <2>1, <2>2, <2>3, DriveEnds DEF b
<1>5. ASSUME LateDrive PROVE DriveInv' /\ DriveVerdict
  <2> DEFINE s == [drive EXCEPT !.active = TRUE, !.support = "supported", !.context = driveSession]
  <2>1. /\ drive' = s /\ driveTold' = {} /\ driveRows' = driveRows
        /\ verdicts' = verdicts /\ reading' = reading /\ worked' = worked
    BY <1>5 DEF LateDrive
  <2>2. /\ DriveFields \subseteq DOMAIN s /\ s.signals = drive.signals /\ s.counter = drive.counter
        /\ s.performance = drive.performance /\ s.continuity = drive.continuity
        /\ s.identity = drive.identity
    BY <1>1 DEF DriveFields
  <2> HIDE DEF s
  <2>3. DriveTyped'
    BY <1>1, <2>1, <2>2 DEF DriveTyped, Idle
  <2>4. DriveCounted'
    BY <1>1, <2>1, <2>2 DEF DriveCounted
  <2>5. DriveRowsAreLive' /\ DOMAIN driveRows' = DriveRules
    BY <1>1, <2>1, <2>2 DEF DriveRowsAreLive
  <2>6. DriveVerdict
    BY <2>1, <2>2 DEF DriveVerdict
  <2> QED
    BY <2>3, <2>4, <2>5, <2>6 DEF DriveInv
<1>6. ASSUME NEW gone, NEW current, ReconcileDrive(gone, current)
      PROVE  DriveInv' /\ DriveVerdict
  <2> DEFINE ends == drive.active /\ drive.support # "none"
                       /\ (gone \/ drive.context # current)
  <2>1. CASE ends
    <3>1. DriveSaved(b) /\ verdicts' = [r \in DriveRules |-> <<>>] /\ worked' = <<>>
      BY <1>6, <2>1 DEF ReconcileDrive, b
    <3> QED
      BY <1>2, <3>1, DriveEnds DEF b
  <2>2. CASE ~ends
    <3>1. /\ driveTold' = {} /\ drive' = drive /\ driveRows' = driveRows
          /\ verdicts' = verdicts /\ reading' = reading /\ worked' = worked
      BY <1>6, <2>2 DEF ReconcileDrive
    <3>2. DriveTyped' /\ DriveCounted' /\ DriveRowsAreLive'
      BY <1>1, <3>1 DEF DriveTyped, DriveCounted, DriveRowsAreLive
    <3> QED
      BY <1>1, <3>1, <3>2 DEF DriveInv, DriveVerdict
  <2> QED
    BY <2>1, <2>2
<1>7. CASE UNCHANGED reliabilityVars
  <2>1. /\ drive' = drive /\ driveRows' = driveRows
        /\ verdicts' = verdicts /\ reading' = reading /\ worked' = worked
    BY <1>7 DEF reliabilityVars
  <2>2. DriveTyped' /\ DriveCounted' /\ DriveRowsAreLive'
    BY <1>1, <2>1 DEF DriveTyped, DriveCounted, DriveRowsAreLive
  <2> QED
    BY <1>1, <1>7, <2>1, <2>2 DEF DriveInv
<1> QED
  BY <1>3, <1>4, <1>5, <1>6, <1>7 DEF NextReliability

\* Nothing is known of the drive, and nothing is open.
LEMMA DriveInit == InitReliability => DriveInv
<1> SUFFICES ASSUME InitReliability PROVE DriveInv
  OBVIOUS
<1>1. /\ drive = NewDrive /\ driveRows = [r \in DriveRules |-> 0]
      /\ verdicts = [r \in DriveRules |-> <<>>] /\ worked = <<>>
  BY DEF InitReliability
<1>2. /\ DriveFields \subseteq DOMAIN NewDrive /\ NewDrive.counter = NoCounter
      /\ NewDrive.performance = NewPerformance
      /\ NewDrive.signals = [r \in DriveRules |-> [live |-> FALSE, clears |-> 0]]
  BY DEF NewDrive, DriveFields
<1>3. [r \in DriveRules |-> [live |-> FALSE, clears |-> 0]] \in [DriveRules -> Signals]
  BY DEF Signals
<1>4. \A r \in DriveRules : drive.signals[r] = [live |-> FALSE, clears |-> 0]
  BY <1>1, <1>2
<1>5. PerformanceFields \subseteq DOMAIN NewPerformance /\ NewPerformance.elevated = 0
      /\ NewPerformance.recovery = 0
  BY DEF NewPerformance, PerformanceFields
<1>6. "performance" \in DriveRules /\ {"direct", "counter"} \subseteq DriveRules
  BY DEF DriveRules
<1>7. DriveTyped
  <2>1. verdicts \in [DriveRules -> Seq(Verdicts)] /\ worked \in Seq(Works)
    BY <1>1
  <2> QED
    BY <1>1, <1>2, <1>3, <1>4, <2>1 DEF DriveTyped, Idle, Counters
<1>8. DriveCounted
  <2>1. ~drive.signals["performance"].live /\ <<>> \in Seq(Works)
    BY <1>4, <1>6
  <2>2. Worked(NewPerformance, drive.signals["performance"].live, <<>>)
    BY <1>5, <2>1, NothingCounted
  <2>3. \A r \in {"direct", "counter"} : drive.signals[r].clears = 1 => ClearLast(verdicts[r])
    BY <1>4, <1>6
  <2>4. drive.counter = NoCounter /\ drive.performance = NewPerformance
    BY <1>1, <1>2
  <2>5. Worked(drive.performance, drive.signals["performance"].live, worked)
    BY <1>1, <2>2, <2>4
  <2> QED
    BY <2>3, <2>4, <2>5 DEF DriveCounted
<1>9. DriveRowsAreLive /\ DOMAIN driveRows = DriveRules
  BY <1>1, <1>4 DEF DriveRowsAreLive
<1> QED
  BY <1>7, <1>8, <1>9 DEF DriveInv

\* The assessment never leaves its invariant.
LEMMA DriveInvariance == Spec => []DriveInv
<1>1. Init => DriveInv
  BY DriveInit DEF Init
<1>2. DriveInv /\ [Next]_vars => DriveInv'
  BY StepOfEach, DriveNext
<1> QED
  BY <1>1, <1>2, PTL DEF Spec

\* A concern about a drive is resolved only by two clear observations in a row of that drive
\* in one continuity, and one about service times only by an unbroken recovery of comparable
\* work; it opens only after an unbroken opening time of it (reliability.rs, apply and
\* observe_performance): RecoveryEarned.
THEOREM RecoveriesAreEarned == Spec => RecoveryEarned
<1> DEFINE Earned ==
      /\ \A r \in {"direct", "counter"} :
           <<r, "resolved">> \in driveTold' => verdicts'[r] = <<"clear", "clear">>
      /\ <<"performance", "resolved">> \in driveTold' =>
           LastWork(Recovery, drive.performance.bucket,
                    LAMBDA v : v <= Low(drive.performance.reference))
      /\ Live([next |-> drive'], "performance") /\ ~Live([next |-> drive], "performance") =>
           LastWork(Opening, drive'.performance.bucket,
                    LAMBDA v : v > High(drive'.performance.reference))
<1>1. DriveInv /\ [NextReliability]_reliabilityVars => (Earned \/ UNCHANGED reliabilityVars)
  <2>1. DriveVerdict => Earned
    BY DEF DriveVerdict, LastWork, Live, Ends, Slow, Brisk
  <2> QED
    BY <2>1, DriveNext
<1>2. DriveInv /\ [Next]_vars => [Earned]_reliabilityVars
  BY <1>1, StepOfEach
<1>3. Spec => [][Earned]_reliabilityVars
  BY <1>2, DriveInvariance, PTL DEF Spec
<1> QED
  BY <1>3 DEF RecoveryEarned

\* A counter of errors is a concern only when it grew since a reading of the same drive, in the
\* same continuity and epoch (reliability.rs, observe): NewErrorsOnly.
THEOREM OldErrorsAreHistory == Spec => NewErrorsOnly
<1> DEFINE New ==
      driveTold' \cap {<<"counter", "open">>} # {} =>
        /\ reading.identity = reading'.identity /\ reading.source = reading'.source
        /\ reading.counter.epoch = reading'.counter.epoch
        /\ reading.counter.value < reading'.counter.value
<1>1. DriveInv /\ [NextReliability]_reliabilityVars => (New \/ UNCHANGED reliabilityVars)
  <2>1. DriveVerdict => New
    BY DEF DriveVerdict
  <2> QED
    BY <2>1, DriveNext
<1>2. DriveInv /\ [Next]_vars => [New]_reliabilityVars
  BY <1>1, StepOfEach
<1>3. Spec => [][New]_reliabilityVars
  BY <1>2, DriveInvariance, PTL DEF Spec
<1> QED
  BY <1>3 DEF NewErrorsOnly

\* The open rows of the three tables of findings are the findings that their sources still
\* follow: none is shown for ever, and none is lost (detection_store.rs, reliability_store.rs
\* and filesystem_security.rs): OpenFindingsAreLive.
THEOREM FindingsAreFollowed == Spec => []OpenFindingsAreLive
<1>1. (RulesInv /\ ActivityInv /\ DriveInv) => OpenFindingsAreLive
  BY DEF OpenFindingsAreLive, RulesInv, ActivityInv, DriveInv
<1> QED
  BY <1>1, RulesInvariance, ActivityInvariance, DriveInvariance, PTL

-----------------------------------------------------------------------------
(* The USB watches.                                                        *)

\* The fields of a watch, and those that count scans in a row.
WatchFields ==
  {"ctx", "driver", "current", "attributed", "presence", "armed", "absent", "link", "slow",
   "baseline", "candidate", "present_count", "absent_count", "candidate_count", "low_count",
   "recovery_count"}
LinkCounts == {"candidate_count", "low_count", "recovery_count"}
RowCounts == LinkCounts \cup {"present_count", "absent_count"}

\* From w to v only the fields F may change.
OnlySets(w, v, F) ==
  DOMAIN v = DOMAIN w /\ \A f \in WatchFields \ F : v[f] = w[f]

\* Its fields are what they are for.
TypedWatch(w) ==
  /\ WatchFields \subseteq DOMAIN w
  /\ \A f \in RowCounts : w[f] \in 0..2
  /\ w.armed \in BOOLEAN /\ w.absent \in BOOLEAN /\ w.slow \in BOOLEAN /\ w.baseline \in Nat

\* Nothing counted.
Unbegun(w) == \A f \in RowCounts : w[f] = 0

\* What w has counted of the device k is in the scan s.
Lower(w) == {n \in Nat \ {0} : n < w.baseline}
Higher(w) == {n \in Nat : n >= w.baseline}
Saw(k, s, S) == SeenIn(s, k) /\ s[k[1]].speed \in S
CountedIn(k, w, s) ==
  /\ w.present_count # 0 => SeenIn(s, k)
  /\ w.absent_count # 0 => ~SeenIn(s, k)
  /\ Strong(k) => /\ w.candidate_count # 0 => Saw(k, s, {w.candidate})
                  /\ w.low_count # 0 => Saw(k, s, Lower(w))
                  /\ w.recovery_count # 0 => Saw(k, s, Higher(w))

\* A watch that exists has all its fields.
LEMMA TypedExists ==
  ASSUME NEW w, TypedWatch(w)
  PROVE  Exists(w)
<1>1. "armed" \in DOMAIN w /\ DOMAIN NoWatch = {"ctx"}
  BY DEF TypedWatch, WatchFields, NoWatch
<1> QED
  BY <1>1 DEF Exists

\* Nothing of the link is counted any more.
LEMMA LinkRowEnds ==
  ASSUME NEW w, WatchFields \subseteq DOMAIN w
  PROVE  /\ OnlySets(w, NoLinkRow(w), LinkCounts \cup {"candidate"})
         /\ \A f \in LinkCounts : NoLinkRow(w)[f] = 0
BY DEF OnlySets, NoLinkRow, WatchFields, LinkCounts

\* Nothing at all is counted any more.
LEMMA RowsEnd ==
  ASSUME NEW w, WatchFields \subseteq DOMAIN w
  PROVE  /\ OnlySets(w, BreakStreaks(w), RowCounts \cup {"candidate"})
         /\ Unbegun(BreakStreaks(w))
<1> DEFINE v == NoLinkRow(w)
<1>1. OnlySets(w, v, LinkCounts \cup {"candidate"}) /\ \A f \in LinkCounts : v[f] = 0
  BY LinkRowEnds
<1>2. BreakStreaks(w) = [v EXCEPT !.present_count = 0, !.absent_count = 0]
  BY DEF BreakStreaks
<1> HIDE DEF v
<1> QED
  BY <1>1, <1>2 DEF OnlySets, Unbegun, WatchFields, RowCounts, LinkCounts

\* A watch that cannot be judged keeps what it concluded, and counts nothing.
LEMMA UnknownKeeps ==
  ASSUME NEW w, WatchFields \subseteq DOMAIN w
  PROVE  /\ OnlySets(w, Unknown(w), RowCounts \cup {"candidate", "presence", "link", "current"})
         /\ Unbegun(Unknown(w))
<1> DEFINE v == BreakStreaks(w)
<1>1. OnlySets(w, v, RowCounts \cup {"candidate"}) /\ Unbegun(v)
  BY RowsEnd
<1>2. Unknown(w) = [v EXCEPT !.presence = "unknown", !.link = "unknown", !.current = FALSE]
  BY DEF Unknown
<1> HIDE DEF v
<1> QED
  BY <1>1, <1>2 DEF OnlySets, Unbegun, WatchFields, RowCounts, LinkCounts

\* A watch before it is evaluated: broken rows count nothing, unbroken ones go on.
LEMMA Prepared ==
  ASSUME NEW w, TypedWatch(w), NEW c, NEW continuous \in BOOLEAN
  PROVE  LET v == [(IF continuous THEN Joined(w, c) ELSE BreakStreaks(Joined(w, c)))
                     EXCEPT !.current = TRUE]
         IN /\ TypedWatch(v) /\ v.current = TRUE /\ v.ctx = c
            /\ v.absent = w.absent /\ v.slow = w.slow /\ v.baseline = w.baseline
            /\ v.armed => w.armed
            /\ Unbegun(v) \/ (continuous /\ OnlySets(w, v, {"current"}))
<1> DEFINE b == BreakStreaks(w)
           j == Joined(w, c)
           d == BreakStreaks(j)
           u == IF continuous THEN j ELSE d
           v == [u EXCEPT !.current = TRUE]
           same == w.ctx = c
<1>1. WatchFields \subseteq DOMAIN w
  BY DEF TypedWatch
<1>2. OnlySets(w, b, RowCounts \cup {"candidate"}) /\ Unbegun(b)
  BY <1>1, RowsEnd
<1>3. j = IF same THEN w ELSE [b EXCEPT !.armed = FALSE, !.attributed = FALSE, !.ctx = c]
  BY DEF Joined
<1> HIDE DEF b, j
<1>4. /\ OnlySets(w, j, RowCounts \cup {"candidate", "armed", "attributed", "ctx"})
      /\ j.ctx = c /\ j.armed \in BOOLEAN /\ (j.armed => w.armed)
  <2>1. CASE same
    BY <1>3, <2>1 DEF OnlySets, TypedWatch
  <2>2. CASE ~same
    BY <1>1, <1>2, <1>3, <2>2 DEF OnlySets, WatchFields, RowCounts, LinkCounts
  <2> QED
    BY <2>1, <2>2
<1>5. WatchFields \subseteq DOMAIN j
  BY <1>1, <1>4 DEF OnlySets
<1>6. Unbegun(j) \/ j = w
  <2>1. CASE ~same
    BY <1>1, <1>2, <1>3, <2>1 DEF OnlySets, Unbegun, WatchFields, RowCounts, LinkCounts
  <2> QED
    BY <1>3, <2>1
<1>7. OnlySets(j, d, RowCounts \cup {"candidate"}) /\ Unbegun(d)
  BY <1>5, RowsEnd
<1> HIDE DEF d
<1>8. /\ OnlySets(w, u, RowCounts \cup {"candidate", "armed", "attributed", "ctx"})
      /\ u.ctx = c /\ u.armed \in BOOLEAN /\ (u.armed => w.armed)
      /\ Unbegun(u) \/ (continuous /\ u = w)
  <2>1. CASE continuous
    BY <1>4, <1>6, <2>1
  <2>2. CASE ~continuous
    BY <1>4, <1>7, <2>2 DEF OnlySets, WatchFields, RowCounts, LinkCounts
  <2> QED
    BY <2>1, <2>2
<1> HIDE DEF u
<1>9. OnlySets(u, v, {"current"}) /\ v.current = TRUE
  BY <1>1, <1>8 DEF OnlySets, WatchFields
<1> HIDE DEF v
<1>10. \A f \in RowCounts : v[f] = u[f]
  BY <1>9 DEF OnlySets, WatchFields, RowCounts, LinkCounts
<1>11. Unbegun(v) \/ (continuous /\ OnlySets(w, v, {"current"}))
  BY <1>8, <1>9, <1>10 DEF Unbegun
<1>12. /\ v.armed = u.armed /\ v.ctx = u.ctx /\ v.absent = w.absent /\ v.slow = w.slow
       /\ v.baseline = w.baseline /\ DOMAIN v = DOMAIN w
  BY <1>8, <1>9 DEF OnlySets, WatchFields, RowCounts, LinkCounts
<1>13. \A f \in RowCounts : v[f] \in 0..2
  BY <1>8, <1>10 DEF Unbegun, TypedWatch
<1>14. TypedWatch(v)
  BY <1>8, <1>12, <1>13 DEF TypedWatch
<1>15. v.armed => w.armed
  BY <1>8, <1>12
<1> QED
  BY <1>8, <1>9, <1>11, <1>12, <1>14, <1>15 DEF v, u, j, d

\* Counting to two.
LEMMA CountsTwice ==
  ASSUME NEW n \in 0..2
  PROVE  Twice(n) \in 1..2 /\ (Twice(n) = 2 <=> n # 0)
BY DEF Twice

\* A scan without the device.
LEMMA MissingIs ==
  ASSUME NEW w, TypedWatch(w)
  PROVE  LET v == Missing(w)
         IN /\ TypedWatch(v) /\ v.current = w.current /\ v.ctx = w.ctx /\ v.armed = w.armed
            /\ v.slow = w.slow /\ v.baseline = w.baseline
            /\ v.present_count = 0 /\ \A f \in LinkCounts : v[f] = 0
            /\ w.absent => v.absent
            /\ (v.absent /\ ~w.absent) => w.armed /\ w.absent_count # 0 /\ v.presence = "absent"
<1> DEFINE b == NoLinkRow(w)
           n == Twice(w.absent_count)
           v == Missing(w)
           gone == w.absent \/ (w.armed /\ n = 2)
           presence == IF w.armed THEN "absent" ELSE "unknown"
<1>1. /\ WatchFields \subseteq DOMAIN w /\ w.absent_count \in 0..2 /\ w.absent \in BOOLEAN
      /\ w.armed \in BOOLEAN /\ w.slow \in BOOLEAN /\ w.baseline \in Nat
  BY DEF TypedWatch, RowCounts
<1>2. n \in 1..2 /\ (n = 2 <=> w.absent_count # 0)
  BY <1>1, CountsTwice
<1>3. OnlySets(w, b, LinkCounts \cup {"candidate"}) /\ \A f \in LinkCounts : b[f] = 0
  BY <1>1, LinkRowEnds
<1>4. b.absent = w.absent
  BY <1>3 DEF OnlySets, WatchFields, LinkCounts
<1>5. v = [b EXCEPT !.presence = presence, !.present_count = 0, !.absent_count = n,
                    !.link = "unknown", !.absent = gone]
  BY <1>4 DEF Missing
<1> HIDE DEF b, n, v, gone, presence
<1>6. /\ DOMAIN v = DOMAIN w /\ v.presence = presence /\ v.present_count = 0
      /\ v.absent_count = n /\ v.absent = gone /\ \A f \in LinkCounts : v[f] = 0
      /\ v.current = w.current /\ v.ctx = w.ctx /\ v.armed = w.armed
      /\ v.slow = w.slow /\ v.baseline = w.baseline
  BY <1>1, <1>3, <1>5 DEF OnlySets, WatchFields, LinkCounts
<1>7. gone \in BOOLEAN
  BY <1>1 DEF gone
<1>8. \A f \in RowCounts : v[f] \in 0..2
  BY <1>2, <1>6 DEF RowCounts
<1>9. TypedWatch(v)
  BY <1>1, <1>6, <1>7, <1>8 DEF TypedWatch
<1>10. (gone /\ ~w.absent) => w.armed /\ w.absent_count # 0 /\ presence = "absent"
  BY <1>2 DEF gone, presence
<1>11. w.absent => gone
  BY DEF gone
<1> QED
  BY <1>6, <1>9, <1>10, <1>11 DEF v

\* A scan with the device.
LEMMA FoundIs ==
  ASSUME NEW w, TypedWatch(w), NEW driver
  PROVE  LET v == Found(w, driver)
         IN /\ TypedWatch(v) /\ v.presence = "present" /\ v.absent_count = 0
            /\ OnlySets(w, v, {"driver", "attributed", "presence", "absent_count",
                               "present_count", "armed", "absent"})
            /\ v.absent => w.absent
            /\ (w.absent /\ ~v.absent) => w.present_count # 0 /\ v.present_count = 2
            /\ (v.armed /\ ~w.armed) => w.present_count # 0
<1> DEFINE n == Twice(w.present_count)
           v == Found(w, driver)
           armed == w.armed \/ n = 2
           gone == w.absent /\ n < 2
<1>1. /\ WatchFields \subseteq DOMAIN w /\ w.present_count \in 0..2 /\ w.absent \in BOOLEAN
      /\ w.armed \in BOOLEAN /\ w.slow \in BOOLEAN /\ w.baseline \in Nat
      /\ \A f \in RowCounts : w[f] \in 0..2
  BY DEF TypedWatch, RowCounts
<1>2. n \in 1..2 /\ (n = 2 <=> w.present_count # 0)
  BY <1>1, CountsTwice
<1>3. v = [w EXCEPT !.driver = driver, !.attributed = TRUE, !.presence = "present",
                    !.absent_count = 0, !.present_count = n, !.armed = armed, !.absent = gone]
  BY DEF Found
<1>4. armed \in BOOLEAN /\ gone \in BOOLEAN /\ (gone => w.absent)
  BY <1>1
<1>5. ((w.absent /\ ~gone) => n = 2) /\ ((armed /\ ~w.armed) => n = 2)
  BY <1>2
<1> HIDE DEF n, v, armed, gone
<1>6. /\ OnlySets(w, v, {"driver", "attributed", "presence", "absent_count",
                         "present_count", "armed", "absent"})
      /\ v.presence = "present" /\ v.absent_count = 0 /\ v.present_count = n
      /\ v.armed = armed /\ v.absent = gone
  BY <1>1, <1>3 DEF OnlySets, WatchFields
<1>7. \A f \in RowCounts : v[f] \in 0..2
  BY <1>1, <1>2, <1>6 DEF RowCounts, LinkCounts, OnlySets, WatchFields
<1>8. DOMAIN v = DOMAIN w /\ v.slow = w.slow /\ v.baseline = w.baseline
  BY <1>6 DEF OnlySets, WatchFields
<1>9. TypedWatch(v)
  BY <1>1, <1>4, <1>6, <1>7, <1>8 DEF TypedWatch
<1>10. /\ v.absent => w.absent
       /\ (w.absent /\ ~v.absent) => w.present_count # 0 /\ v.present_count = 2
       /\ (v.armed /\ ~w.armed) => w.present_count # 0
  BY <1>2, <1>4, <1>5, <1>6
<1> QED
  BY <1>6, <1>9, <1>10 DEF v

\* From w to v a speed was compared: what is counted now, and what it concludes.
LinkVerdict(w, v, speed) ==
  /\ OnlySets(w, v, LinkCounts \cup {"candidate", "link", "slow", "baseline"})
  /\ (\A f \in LinkCounts : v[f] \in 0..2) /\ v.slow \in BOOLEAN /\ v.baseline \in Nat
  /\ v.candidate_count # 0 => speed # 0 /\ v.candidate = speed
  /\ v.low_count # 0 => speed # 0 /\ speed < v.baseline
  /\ v.recovery_count # 0 => speed >= v.baseline
  /\ (v.slow /\ ~w.slow) =>
       w.low_count # 0 /\ speed # 0 /\ speed < v.baseline /\ v.link = "warning"
  /\ (w.slow /\ ~v.slow) =>
       w.recovery_count # 0 /\ speed >= v.baseline /\ v.link = "no_current_warning"
  /\ v.baseline # w.baseline =>
       /\ v.baseline > w.baseline /\ v.baseline = speed
       /\ w.candidate_count # 0 /\ w.candidate = speed

\* A speed of the device.
LEMMA LinkedIs ==
  ASSUME NEW w, TypedWatch(w), w.low_count # 0 => w.baseline # 0, NEW speed \in Nat
  PROVE  LinkVerdict(w, Linked(w, speed), speed)
<1>1. /\ WatchFields \subseteq DOMAIN w /\ w.slow \in BOOLEAN /\ w.baseline \in Nat
      /\ w.candidate_count \in 0..2 /\ w.low_count \in 0..2 /\ w.recovery_count \in 0..2
  BY DEF TypedWatch, RowCounts, LinkCounts
<1> DEFINE e == Linked(w, speed)
<1>2. CASE speed = 0
  <2> DEFINE b == NoLinkRow(w)
  <2>1. OnlySets(w, b, LinkCounts \cup {"candidate"}) /\ \A f \in LinkCounts : b[f] = 0
    BY <1>1, LinkRowEnds
  <2>2. e = [b EXCEPT !.link = "unknown"]
    BY <1>2 DEF Linked
  <2> HIDE DEF b, e
  <2>3. /\ OnlySets(w, e, LinkCounts \cup {"candidate", "link", "slow", "baseline"})
        /\ \A f \in LinkCounts : e[f] = 0
        /\ e.slow = w.slow /\ e.baseline = w.baseline
    BY <1>1, <2>1, <2>2 DEF OnlySets, WatchFields, LinkCounts
  <2>4. e.candidate_count = 0 /\ e.low_count = 0 /\ e.recovery_count = 0
    BY <2>3 DEF LinkCounts
  <2>5. LinkVerdict(w, e, speed)
    BY <1>1, <2>3, <2>4 DEF LinkVerdict
  <2> QED
    BY <2>5 DEF e
<1>3. CASE speed # 0
  <2> DEFINE n == IF w.candidate = speed THEN Twice(w.candidate_count) ELSE 1
             base == IF n = 2 /\ speed > w.baseline THEN speed ELSE w.baseline
             v == Candidate(w, speed)
  <2>1. n \in 1..2 /\ (n = 2 => w.candidate = speed /\ w.candidate_count # 0)
    BY <1>1, CountsTwice
  <2>2. /\ base \in Nat /\ base >= w.baseline
        /\ base # w.baseline => /\ base > w.baseline /\ base = speed
                                /\ w.candidate_count # 0 /\ w.candidate = speed
    BY <1>1, <2>1
  <2>3. v = [w EXCEPT !.candidate = speed, !.candidate_count = n, !.baseline = base]
    BY DEF Candidate
  <2>4. e = IF v.baseline = 0 THEN [v EXCEPT !.link = "warming_up"] ELSE Compared(v, speed)
    BY <1>3 DEF Linked
  <2> HIDE DEF n, base, v, e
  <2>5. /\ OnlySets(w, v, {"candidate", "candidate_count", "baseline"})
        /\ v.candidate = speed /\ v.candidate_count = n /\ v.baseline = base
    BY <1>1, <2>3 DEF OnlySets, WatchFields
  <2>6. /\ v.low_count = w.low_count /\ v.recovery_count = w.recovery_count /\ v.slow = w.slow
        /\ WatchFields \subseteq DOMAIN v
    BY <1>1, <2>5 DEF OnlySets, WatchFields
  <2>7. CASE v.baseline = 0
    <3>1. e = [v EXCEPT !.link = "warming_up"]
      BY <2>4, <2>7
    <3>2. OnlySets(v, e, {"link"})
      BY <2>6, <3>1 DEF OnlySets, WatchFields
    <3>3. /\ OnlySets(w, e, LinkCounts \cup {"candidate", "link", "slow", "baseline"})
          /\ e.candidate = speed /\ e.candidate_count = n /\ e.baseline = base
          /\ e.low_count = w.low_count /\ e.recovery_count = w.recovery_count
          /\ e.slow = w.slow
      BY <2>5, <2>6, <3>2 DEF OnlySets, WatchFields, LinkCounts
    <3>4. \A f \in LinkCounts : e[f] \in 0..2
      BY <1>1, <2>1, <3>3 DEF LinkCounts
    <3>5. e.low_count = 0 /\ e.baseline = 0 /\ w.baseline = 0
      <4>1. base = 0
        BY <2>5, <2>7
      <4>2. w.baseline = 0
        BY <1>1, <2>2, <4>1
      <4>3. w.low_count = 0
        BY <4>2
      <4> QED
        BY <3>3, <4>1, <4>2, <4>3
    <3>6. LinkVerdict(w, e, speed)
      BY <1>1, <1>3, <3>3, <3>4, <3>5 DEF LinkVerdict
    <3> QED
      BY <3>6 DEF e
  <2>8. CASE v.baseline # 0
    <3> DEFINE below == speed < v.baseline
               low == IF below THEN Twice(v.low_count) ELSE 0
               high == IF below THEN 0 ELSE Twice(v.recovery_count)
               slow == low = 2 \/ (v.slow /\ high < 2)
               link == IF slow THEN "warning"
                       ELSE IF low > 0 THEN "warming_up" ELSE "no_current_warning"
    <3>1. e = [v EXCEPT !.low_count = low, !.recovery_count = high, !.slow = slow, !.link = link]
      BY <2>4, <2>8 DEF Compared
    <3>2. /\ low \in 0..2 /\ (low # 0 => below) /\ (low = 2 => w.low_count # 0)
          /\ high \in 0..2 /\ (high # 0 => ~below) /\ (high = 2 => w.recovery_count # 0)
      BY <1>1, <2>6, CountsTwice
    <3> HIDE DEF low, high
    <3>3. slow \in BOOLEAN /\ (slow /\ ~w.slow => low = 2) /\ (w.slow /\ ~slow => high = 2)
      BY <1>1, <2>6, <3>2
    <3>4. /\ slow => link = "warning"
          /\ ~slow /\ low = 0 => link = "no_current_warning"
      OBVIOUS
    <3> HIDE DEF slow, link, below
    <3>5. OnlySets(v, e, {"low_count", "recovery_count", "slow", "link"})
      BY <2>6, <3>1 DEF OnlySets, WatchFields
    <3>6. e.low_count = low /\ e.recovery_count = high /\ e.slow = slow /\ e.link = link
      BY <2>6, <3>1 DEF WatchFields
    <3>7. /\ OnlySets(w, e, LinkCounts \cup {"candidate", "link", "slow", "baseline"})
          /\ e.candidate = speed /\ e.candidate_count = n /\ e.baseline = base
      BY <2>5, <3>5 DEF OnlySets, WatchFields, LinkCounts
    <3>8. \A f \in LinkCounts : e[f] \in 0..2
      BY <2>1, <3>2, <3>6, <3>7 DEF LinkCounts
    <3>9. /\ e.low_count # 0 => speed < e.baseline
          /\ e.recovery_count # 0 => speed >= e.baseline
      BY <2>2, <2>5, <3>2, <3>6, <3>7 DEF below
    <3>10. (e.slow /\ ~w.slow) => w.low_count # 0 /\ speed < e.baseline /\ e.link = "warning"
      BY <3>2, <3>3, <3>4, <3>6, <3>9
    <3>11. (w.slow /\ ~e.slow) =>
             w.recovery_count # 0 /\ speed >= e.baseline /\ e.link = "no_current_warning"
      <4>1. high = 2 => low = 0
        BY <3>2
      <4> QED
        BY <3>2, <3>3, <3>4, <3>6, <3>9, <4>1
    <3>12. e.slow \in BOOLEAN
      BY <3>3, <3>6
    <3>13. /\ e.baseline \in Nat
           /\ e.baseline # w.baseline =>
                /\ e.baseline > w.baseline /\ e.baseline = speed
                /\ w.candidate_count # 0 /\ w.candidate = speed
      BY <2>2, <3>7
    <3>14. LinkVerdict(w, e, speed)
      BY <1>3, <3>7, <3>8, <3>9, <3>10, <3>11, <3>12, <3>13 DEF LinkVerdict
    <3> QED
      BY <3>14 DEF e
  <2> QED
    BY <2>7, <2>8
<1> QED
  BY <1>2, <1>3

\* The speeds of a scan are numbers.
LEMMA SpeedsOfScans ==
  ASSUME NEW scan \in Snapshots, NEW d \in DOMAIN scan
  PROVE  d \in Devices /\ scan[d].speed \in Nat
<1>1. PICK ds \in SUBSET Devices : scan \in [ds -> UsbReadings]
  BY DEF Snapshots
<1>2. d \in ds /\ scan[d] \in UsbReadings
  BY <1>1
<1>3. scan[d].speed \in LinkRates \cup {0}
  BY <1>2 DEF UsbReadings
<1>4. LinkRates \cup {0} \subseteq Nat
  BY DeviceWatchAssumption
<1>5. \A S : (LinkRates \cup {0} \subseteq S) => scan[d].speed \in S
  BY <1>3
<1> QED
  BY <1>1, <1>2, <1>4, <1>5

\* From w to v the device k was looked for in a scan.  Its rows go on when they were
\* not broken before it: what it concludes is what they and this scan agree on.
ScanVerdict(k, w, v, scan, continuous) ==
  /\ TypedWatch(v) /\ CountedIn(k, v, scan)
  /\ v.armed => \/ w.armed
                \/ continuous /\ w.present_count # 0 /\ SeenIn(scan, k)
  /\ (v.absent /\ ~w.absent) =>
       /\ continuous /\ w.armed /\ w.absent_count # 0 /\ ~SeenIn(scan, k)
       /\ v.current = TRUE /\ v.presence = "absent"
  /\ (w.absent /\ ~v.absent) =>
       /\ continuous /\ w.present_count # 0 /\ SeenIn(scan, k)
       /\ v.current = TRUE /\ v.presence = "present" /\ v.present_count = 2
  /\ (v.slow /\ ~w.slow) =>
       /\ Strong(k) /\ continuous /\ w.low_count # 0 /\ Saw(k, scan, Lower(v))
       /\ v.current = TRUE /\ v.presence = "present" /\ v.link = "warning"
  /\ (w.slow /\ ~v.slow) =>
       /\ Strong(k) /\ continuous /\ w.recovery_count # 0 /\ Saw(k, scan, Higher(v))
       /\ v.current = TRUE /\ v.presence = "present" /\ v.link = "no_current_warning"
  /\ v.baseline >= w.baseline
  /\ v.baseline # w.baseline =>
       /\ Strong(k) /\ continuous /\ w.candidate_count # 0 /\ w.candidate = v.baseline
       /\ Saw(k, scan, {v.baseline})

\* Nothing is concluded of a watch that keeps its conclusions and counts nothing.
LEMMA NothingConcluded ==
  ASSUME NEW k, NEW w, NEW v, NEW scan, NEW continuous, TypedWatch(w), Unbegun(v),
         DOMAIN v = DOMAIN w, v.armed \in BOOLEAN, v.armed => w.armed, v.absent = w.absent,
         v.slow = w.slow, v.baseline = w.baseline
  PROVE  ScanVerdict(k, w, v, scan, continuous)
<1>1. TypedWatch(v)
  BY DEF TypedWatch, Unbegun
<1>2. CountedIn(k, v, scan)
  BY DEF CountedIn, Unbegun, RowCounts, LinkCounts
<1>3. v.baseline >= w.baseline
  BY DEF TypedWatch
<1> QED
  BY <1>1, <1>2, <1>3 DEF ScanVerdict

\* A watch that is looked for in a scan.
LEMMA ObserveIs ==
  ASSUME NEW k, NEW w, TypedWatch(w), (Strong(k) /\ w.low_count # 0) => w.baseline # 0,
         NEW c, NEW scan \in Snapshots, NEW continuous \in BOOLEAN
  PROVE  LET v == Observe(k, w, c, scan, continuous)
         IN ScanVerdict(k, w, v, scan, continuous) /\ v.ctx = c
<1> DEFINE b == [(IF continuous THEN Joined(w, c) ELSE BreakStreaks(Joined(w, c)))
                   EXCEPT !.current = TRUE]
           v == Observe(k, w, c, scan, continuous)
<1>1. /\ TypedWatch(b) /\ b.current = TRUE /\ b.ctx = c
      /\ b.absent = w.absent /\ b.slow = w.slow /\ b.baseline = w.baseline
      /\ b.armed => w.armed
      /\ Unbegun(b) \/ (continuous /\ OnlySets(w, b, {"current"}))
  BY Prepared
<1>2. v = IF k[1] \notin DOMAIN scan THEN Missing(b)
          ELSE LET f == Found(b, scan[k[1]].driver)
               IN IF Strong(k) THEN Linked(f, scan[k[1]].speed)
                  ELSE [f EXCEPT !.link = "unsupported"]
  BY DEF Observe
<1> HIDE DEF b, v
<1>3. /\ b.present_count # 0 => (continuous /\ w.present_count # 0)
      /\ b.absent_count # 0 => (continuous /\ w.absent_count # 0)
      /\ b.candidate_count # 0 =>
           (continuous /\ w.candidate_count # 0 /\ b.candidate = w.candidate)
      /\ b.low_count # 0 => (continuous /\ w.low_count # 0)
      /\ b.recovery_count # 0 => (continuous /\ w.recovery_count # 0)
  BY <1>1 DEF Unbegun, OnlySets, RowCounts, LinkCounts, WatchFields
<1>4. CASE k[1] \notin DOMAIN scan
  <2>1. v = Missing(b)
    BY <1>2, <1>4
  <2>2. /\ TypedWatch(v) /\ v.current = b.current /\ v.ctx = b.ctx /\ v.armed = b.armed
        /\ v.slow = b.slow /\ v.baseline = b.baseline
        /\ v.present_count = 0 /\ \A f \in LinkCounts : v[f] = 0
        /\ b.absent => v.absent
        /\ (v.absent /\ ~b.absent) => b.armed /\ b.absent_count # 0 /\ v.presence = "absent"
    BY <1>1, <2>1, MissingIs
  <2>3. ~SeenIn(scan, k)
    BY <1>4 DEF SeenIn
  <2>4. CountedIn(k, v, scan)
    BY <2>2, <2>3 DEF CountedIn, LinkCounts
  <2>5. v.armed => w.armed
    BY <1>1, <2>2
  <2>6. /\ (v.absent /\ ~w.absent) =>
             /\ continuous /\ w.armed /\ w.absent_count # 0 /\ ~SeenIn(scan, k)
             /\ v.current = TRUE /\ v.presence = "absent"
        /\ w.absent => v.absent
    BY <1>1, <1>3, <2>2, <2>3
  <2>7. v.slow = w.slow /\ v.baseline = w.baseline /\ w.baseline \in Nat
    BY <1>1, <2>2 DEF TypedWatch
  <2>8. v.baseline >= w.baseline
    BY <2>7
  <2>9. ScanVerdict(k, w, v, scan, continuous)
    BY <2>2, <2>4, <2>5, <2>6, <2>7, <2>8 DEF ScanVerdict
  <2> QED
    BY <1>1, <2>2, <2>9 DEF v
<1>5. CASE k[1] \in DOMAIN scan
  <2> DEFINE speed == scan[k[1]].speed
             f == Found(b, scan[k[1]].driver)
  <2>1. speed \in Nat /\ SeenIn(scan, k)
    BY <1>5, SpeedsOfScans DEF SeenIn
  <2>2. /\ TypedWatch(f) /\ f.presence = "present" /\ f.absent_count = 0
        /\ OnlySets(b, f, {"driver", "attributed", "presence", "absent_count",
                           "present_count", "armed", "absent"})
        /\ f.absent => b.absent
        /\ (b.absent /\ ~f.absent) => b.present_count # 0 /\ f.present_count = 2
        /\ (f.armed /\ ~b.armed) => b.present_count # 0
    BY <1>1, FoundIs
  <2>3. v = IF Strong(k) THEN Linked(f, speed) ELSE [f EXCEPT !.link = "unsupported"]
    BY <1>2, <1>5
  <2> HIDE DEF f
  <2>4. /\ f.slow = b.slow /\ f.baseline = b.baseline /\ f.current = b.current /\ f.ctx = b.ctx
        /\ f.candidate = b.candidate /\ f.candidate_count = b.candidate_count
        /\ f.low_count = b.low_count /\ f.recovery_count = b.recovery_count
        /\ WatchFields \subseteq DOMAIN f /\ f.baseline \in Nat
    BY <2>2 DEF OnlySets, WatchFields, TypedWatch
  <2>5. CASE ~Strong(k)
    <3>1. v = [f EXCEPT !.link = "unsupported"]
      BY <2>3, <2>5
    <3>2. OnlySets(f, v, {"link"})
      BY <2>4, <3>1 DEF OnlySets, WatchFields
    <3>3. /\ v.absent_count = 0 /\ v.present_count = f.present_count /\ v.armed = f.armed
          /\ v.absent = f.absent /\ v.slow = f.slow /\ v.baseline = f.baseline
          /\ v.presence = f.presence /\ v.current = f.current /\ v.ctx = f.ctx
          /\ \A g \in RowCounts : v[g] = f[g]
      BY <2>2, <3>2 DEF OnlySets, WatchFields, RowCounts, LinkCounts
    <3>4. TypedWatch(v)
      BY <2>2, <3>2, <3>3 DEF TypedWatch, OnlySets
    <3>5. CountedIn(k, v, scan)
      BY <2>1, <2>5, <3>3 DEF CountedIn
    <3>6. v.armed => \/ w.armed
                     \/ continuous /\ w.present_count # 0 /\ SeenIn(scan, k)
      BY <1>1, <1>3, <2>1, <2>2, <3>3
    <3>7. v.absent => w.absent
      BY <1>1, <2>2, <3>3
    <3>8. (w.absent /\ ~v.absent) =>
            /\ continuous /\ w.present_count # 0 /\ SeenIn(scan, k)
            /\ v.current = TRUE /\ v.presence = "present" /\ v.present_count = 2
      BY <1>1, <1>3, <2>1, <2>2, <2>4, <3>3
    <3>9. v.slow = w.slow /\ v.baseline = w.baseline
      BY <1>1, <2>4, <3>3
    <3>10. v.baseline >= w.baseline
      BY <2>4, <3>3, <3>9
    <3>11. ScanVerdict(k, w, v, scan, continuous)
      BY <3>4, <3>5, <3>6, <3>7, <3>8, <3>9, <3>10 DEF ScanVerdict
    <3> QED
      BY <1>1, <2>4, <3>3, <3>11 DEF v
  <2>6. CASE Strong(k)
    <3>1. v = Linked(f, speed)
      BY <2>3, <2>6
    <3>2. f.low_count # 0 => f.baseline # 0
      BY <1>1, <1>3, <2>4, <2>6
    <3> HIDE DEF speed
    <3>3. LinkVerdict(f, v, speed)
      BY <2>1, <2>2, <3>1, <3>2, LinkedIs
    <3>4. /\ v.absent_count = 0 /\ v.present_count = f.present_count /\ v.armed = f.armed
          /\ v.absent = f.absent /\ v.presence = f.presence /\ v.current = f.current
          /\ v.ctx = f.ctx /\ DOMAIN v = DOMAIN f
      BY <2>2, <3>3 DEF LinkVerdict, OnlySets, WatchFields, LinkCounts
    <3>5. TypedWatch(v)
      <4>1. \A g \in RowCounts : v[g] \in 0..2
        BY <2>2, <3>3, <3>4 DEF TypedWatch, LinkVerdict, RowCounts
      <4> QED
        BY <2>2, <2>4, <3>3, <3>4, <4>1 DEF TypedWatch, LinkVerdict
    <3>6. CountedIn(k, v, scan)
      <4>1. /\ v.candidate_count # 0 => v.candidate = speed
            /\ v.low_count # 0 => speed # 0 /\ speed < v.baseline
            /\ v.recovery_count # 0 => speed >= v.baseline
        BY <3>3 DEF LinkVerdict
      <4>2. /\ v.candidate_count # 0 => speed \in {v.candidate}
            /\ v.low_count # 0 => speed \in Lower(v)
            /\ v.recovery_count # 0 => speed \in Higher(v)
        BY <2>1, <4>1 DEF Lower, Higher
      <4> QED
        BY <2>1, <3>4, <4>2 DEF CountedIn, Saw, speed
    <3>7. v.armed => \/ w.armed
                     \/ continuous /\ w.present_count # 0 /\ SeenIn(scan, k)
      BY <1>1, <1>3, <2>1, <2>2, <3>4
    <3>8. v.absent => w.absent
      BY <1>1, <2>2, <3>4
    <3>9. (w.absent /\ ~v.absent) =>
            /\ continuous /\ w.present_count # 0 /\ SeenIn(scan, k)
            /\ v.current = TRUE /\ v.presence = "present" /\ v.present_count = 2
      BY <1>1, <1>3, <2>1, <2>2, <2>4, <3>4
    <3>10. f.slow = w.slow /\ f.baseline = w.baseline /\ v.current = TRUE /\ v.presence = "present"
      BY <1>1, <2>2, <2>4, <3>4
    <3>11. (v.slow /\ ~w.slow) =>
             /\ Strong(k) /\ continuous /\ w.low_count # 0 /\ Saw(k, scan, Lower(v))
             /\ v.current = TRUE /\ v.presence = "present" /\ v.link = "warning"
      <4>1. SUFFICES ASSUME v.slow, ~w.slow
                     PROVE  /\ continuous /\ w.low_count # 0 /\ Saw(k, scan, Lower(v))
                            /\ v.link = "warning"
        BY <2>6, <3>10
      <4>2. f.low_count # 0 /\ speed # 0 /\ speed < v.baseline /\ v.link = "warning"
        BY <3>3, <3>10, <4>1 DEF LinkVerdict
      <4>3. speed \in Lower(v)
        BY <2>1, <4>2 DEF Lower
      <4> QED
        BY <1>3, <2>1, <2>4, <4>2, <4>3 DEF Saw, speed
    <3>12. (w.slow /\ ~v.slow) =>
             /\ Strong(k) /\ continuous /\ w.recovery_count # 0 /\ Saw(k, scan, Higher(v))
             /\ v.current = TRUE /\ v.presence = "present" /\ v.link = "no_current_warning"
      <4>1. SUFFICES ASSUME w.slow, ~v.slow
                     PROVE  /\ continuous /\ w.recovery_count # 0 /\ Saw(k, scan, Higher(v))
                            /\ v.link = "no_current_warning"
        BY <2>6, <3>10
      <4>2. f.recovery_count # 0 /\ speed >= v.baseline /\ v.link = "no_current_warning"
        BY <3>3, <3>10, <4>1 DEF LinkVerdict
      <4>3. speed \in Higher(v)
        BY <2>1, <4>2 DEF Higher
      <4> QED
        BY <1>3, <2>1, <2>4, <4>2, <4>3 DEF Saw, speed
    <3>13. v.baseline >= w.baseline
      <4>1. v.baseline \in Nat /\ (v.baseline # f.baseline => v.baseline > f.baseline)
        BY <3>3 DEF LinkVerdict
      <4> QED
        BY <2>4, <3>10, <4>1
    <3>14. v.baseline # w.baseline =>
             /\ Strong(k) /\ continuous /\ w.candidate_count # 0 /\ w.candidate = v.baseline
             /\ Saw(k, scan, {v.baseline})
      <4>1. SUFFICES ASSUME v.baseline # w.baseline
                     PROVE  /\ continuous /\ w.candidate_count # 0 /\ w.candidate = v.baseline
                            /\ Saw(k, scan, {v.baseline})
        BY <2>6
      <4>2. v.baseline = speed /\ f.candidate_count # 0 /\ f.candidate = speed
        BY <3>3, <3>10, <4>1 DEF LinkVerdict
      <4> QED
        BY <1>3, <2>1, <2>4, <4>2 DEF Saw, speed
    <3>15. ScanVerdict(k, w, v, scan, continuous)
      BY <3>5, <3>6, <3>7, <3>8, <3>9, <3>11, <3>12, <3>13, <3>14 DEF ScanVerdict
    <3> QED
      BY <1>1, <2>4, <3>4, <3>15 DEF v
  <2> QED
    BY <2>5, <2>6
<1> QED
  BY <1>4, <1>5

\* The keys of the concerns that watches conclude.
ShownBy(ws) ==
  {<<k, "presence">> : k \in {j \in WatchIds : Exists(ws[j]) /\ ws[j].absent}}
    \cup {<<k, "link">> : k \in {j \in WatchIds : Exists(ws[j]) /\ ws[j].slow}}

\* What a watch concludes anew is reported when it does.
Announced(k, w, v, current) ==
  LET s == Conditions(k, v, current)
      gone == Exists(w) /\ w.absent
      slow == Exists(w) /\ w.slow
  IN /\ Exists(w) => Exists(v)
     /\ Exists(v) => /\ (v.absent /\ ~gone) => s.presence = "open"
                     /\ (gone /\ ~v.absent) => s.presence = "resolved"
                     /\ (v.slow /\ ~slow) => s.link = "open"
                     /\ (slow /\ ~v.slow) => s.link = "resolved"

\* Nothing is reported open, or resolved, that the watch does not conclude.
LEMMA ReportsConclusions ==
  ASSUME NEW k, NEW v, NEW current
  PROVE  LET s == Conditions(k, v, current)
         IN /\ s.presence = "open" => v.absent
            /\ s.presence = "resolved" => ~v.absent
            /\ s.link = "open" => v.slow
            /\ s.link = "resolved" => ~v.slow
<1>1. \A usable, open, clear :
        /\ Status(usable, open, clear) = "open" => open
        /\ Status(usable, open, clear) = "resolved" => ~open
  BY DEF Status
<1> DEFINE usable == current /\ v.current
           present == usable /\ v.presence # "unknown"
           back == v.present_count = 2 /\ v.presence = "present"
           linked == /\ usable /\ v.presence = "present"
                     /\ v.link \in {"warning", "no_current_warning"}
           fine == v.link = "no_current_warning"
<1>2. /\ Conditions(k, v, current).presence = Status(present, v.absent, back)
      /\ Conditions(k, v, current).link = Status(linked, v.slow, fine)
  BY DEF Conditions
<1> HIDE DEF present, back, linked, fine
<1> QED
  BY <1>1, <1>2

\* What was concluded, with what is reported open and without what is reported resolved, is
\* what the watches conclude.
LEMMA ConcludedIs ==
  ASSUME NEW ws, NEW vs, NEW current, \A k \in WatchIds : Announced(k, ws[k], vs[k], current)
  PROVE  (ShownBy(ws) \cup Reported(vs, current, "open")) \ Reported(vs, current, "resolved")
           = ShownBy(vs)
<1> DEFINE S(k) == Conditions(k, vs[k], current)
           Named(status) == {key \in WatchIds \X {"presence", "link"} :
                              /\ Exists(vs[key[1]])
                              /\ Conditions(key[1], vs[key[1]], current)[key[2]] = status}
<1>1. \A status : Reported(vs, current, status) = Named(status)
  BY DEF Reported
<1>2. ASSUME NEW k \in WatchIds
      PROVE  /\ <<k, "presence">> \in ShownBy(ws) <=> (Exists(ws[k]) /\ ws[k].absent)
             /\ <<k, "presence">> \in ShownBy(vs) <=> (Exists(vs[k]) /\ vs[k].absent)
             /\ <<k, "link">> \in ShownBy(ws) <=> (Exists(ws[k]) /\ ws[k].slow)
             /\ <<k, "link">> \in ShownBy(vs) <=> (Exists(vs[k]) /\ vs[k].slow)
  BY DEF ShownBy
<1>3. ShownBy(ws) \subseteq WatchIds \X {"presence", "link"}
      /\ ShownBy(vs) \subseteq WatchIds \X {"presence", "link"}
  BY DEF ShownBy
<1>4. \A status : \A k \in WatchIds :
        /\ <<k, "presence">> \in Named(status) <=> (Exists(vs[k]) /\ S(k).presence = status)
        /\ <<k, "link">> \in Named(status) <=> (Exists(vs[k]) /\ S(k).link = status)
  OBVIOUS
<1>5. Named("open") \subseteq WatchIds \X {"presence", "link"}
  OBVIOUS
<1> HIDE DEF Named
<1>6. ASSUME NEW k \in WatchIds
      PROVE  /\ S(k).presence = "open" => vs[k].absent
             /\ S(k).presence = "resolved" => ~vs[k].absent
             /\ S(k).link = "open" => vs[k].slow
             /\ S(k).link = "resolved" => ~vs[k].slow
  BY ReportsConclusions
<1> HIDE DEF S
<1>7. ASSUME NEW k \in WatchIds
      PROVE  /\ Exists(ws[k]) => Exists(vs[k])
             /\ Exists(vs[k]) =>
                  /\ (vs[k].absent /\ ~(Exists(ws[k]) /\ ws[k].absent)) => S(k).presence = "open"
                  /\ ((Exists(ws[k]) /\ ws[k].absent) /\ ~vs[k].absent) =>
                       S(k).presence = "resolved"
                  /\ (vs[k].slow /\ ~(Exists(ws[k]) /\ ws[k].slow)) => S(k).link = "open"
                  /\ ((Exists(ws[k]) /\ ws[k].slow) /\ ~vs[k].slow) => S(k).link = "resolved"
  BY <1>7 DEF Announced, S
<1> DEFINE After == (ShownBy(ws) \cup Named("open")) \ Named("resolved")
<1> HIDE DEF After
<1>8. ASSUME NEW k \in WatchIds
      PROVE  /\ <<k, "presence">> \in After <=> <<k, "presence">> \in ShownBy(vs)
             /\ <<k, "link">> \in After <=> <<k, "link">> \in ShownBy(vs)
  <2>1. "open" # "resolved"
    OBVIOUS
  <2>2. <<k, "presence">> \in After <=> <<k, "presence">> \in ShownBy(vs)
    <3> DEFINE was == Exists(ws[k]) /\ ws[k].absent
               there == Exists(vs[k])
               is == vs[k].absent
    <3>1. /\ <<k, "presence">> \in ShownBy(ws) <=> was
          /\ <<k, "presence">> \in ShownBy(vs) <=> (there /\ is)
      BY <1>2
    <3>2. /\ <<k, "presence">> \in Named("open") <=> (there /\ S(k).presence = "open")
          /\ <<k, "presence">> \in Named("resolved") <=> (there /\ S(k).presence = "resolved")
      BY <1>4
    <3>3. /\ S(k).presence = "open" => is
          /\ S(k).presence = "resolved" => ~is
      BY <1>6
    <3>4. /\ was => there
          /\ (there /\ is /\ ~was) => S(k).presence = "open"
          /\ (there /\ was /\ ~is) => S(k).presence = "resolved"
      BY <1>7
    <3> HIDE DEF was, there, is
    <3>5. <<k, "presence">> \in After <=> /\ <<k, "presence">> \in ShownBy(ws) \/ <<k, "presence">> \in Named("open")
                                      /\ <<k, "presence">> \notin Named("resolved")
      BY DEF After
    <3> QED
      BY <2>1, <3>1, <3>2, <3>3, <3>4, <3>5
  <2>3. <<k, "link">> \in After <=> <<k, "link">> \in ShownBy(vs)
    <3> DEFINE was == Exists(ws[k]) /\ ws[k].slow
               there == Exists(vs[k])
               is == vs[k].slow
    <3>1. /\ <<k, "link">> \in ShownBy(ws) <=> was
          /\ <<k, "link">> \in ShownBy(vs) <=> (there /\ is)
      BY <1>2
    <3>2. /\ <<k, "link">> \in Named("open") <=> (there /\ S(k).link = "open")
          /\ <<k, "link">> \in Named("resolved") <=> (there /\ S(k).link = "resolved")
      BY <1>4
    <3>3. /\ S(k).link = "open" => is
          /\ S(k).link = "resolved" => ~is
      BY <1>6
    <3>4. /\ was => there
          /\ (there /\ is /\ ~was) => S(k).link = "open"
          /\ (there /\ was /\ ~is) => S(k).link = "resolved"
      BY <1>7
    <3> HIDE DEF was, there, is
    <3>5. <<k, "link">> \in After <=>
            /\ <<k, "link">> \in ShownBy(ws) \/ <<k, "link">> \in Named("open")
            /\ <<k, "link">> \notin Named("resolved")
      BY DEF After
    <3> QED
      BY <2>1, <3>1, <3>2, <3>3, <3>4, <3>5
  <2> QED
    BY <2>2, <2>3
<1>9. After \subseteq WatchIds \X {"presence", "link"}
  BY <1>3, <1>5 DEF After
<1>10. ASSUME NEW key \in WatchIds \X {"presence", "link"}
       PROVE  key \in After <=> key \in ShownBy(vs)
  <2>1. PICK k \in WatchIds : key = <<k, "presence">> \/ key = <<k, "link">>
    BY <1>10
  <2> QED
    BY <1>8, <2>1
<1>11. After = ShownBy(vs)
  BY <1>3, <1>9, <1>10
<1> QED
  BY <1>1, <1>11 DEF After

\* The concerns are those that the watches conclude, but for the ones omitted.
LEMMA RaisedIs ==
  ASSUME NEW ws, NEW vs, NEW current, \A k \in WatchIds : Announced(k, ws[k], vs[k], current),
         raised = ShownBy(ws) \ omitted, omitted \subseteq ShownBy(ws),
         NEW shown \in RaisedAfter(raised, vs, current)
  PROVE  /\ shown = ShownBy(vs) \ Omitting(shown, vs, current)
         /\ Omitting(shown, vs, current) \subseteq ShownBy(vs)
<1> DEFINE open == Reported(vs, current, "open")
           resolved == Reported(vs, current, "resolved")
           left == Omitting(shown, vs, current)
<1>1. (ShownBy(ws) \cup open) \ resolved = ShownBy(vs)
  BY ConcludedIs
<1>2. PICK new \in SUBSET (open \ raised) : shown = (raised \cup new) \ resolved
  BY DEF RaisedAfter
<1>3. left = (omitted \cup open) \ (shown \cup resolved)
  BY DEF Omitting
<1> HIDE DEF open, resolved, left
<1>4. ASSUME NEW key
      PROVE  /\ key \in left => key \in ShownBy(vs)
             /\ key \in shown <=> (key \in ShownBy(vs) /\ key \notin left)
  <2>1. /\ key \in ShownBy(vs) <=> ((key \in ShownBy(ws) \/ key \in open) /\ key \notin resolved)
        /\ key \in left <=> /\ key \in omitted \/ key \in open
                            /\ key \notin shown /\ key \notin resolved
    BY <1>1, <1>3
  <2>2. /\ key \in shown <=> ((key \in raised \/ key \in new) /\ key \notin resolved)
        /\ key \in new => key \in open
        /\ key \in raised <=> (key \in ShownBy(ws) /\ key \notin omitted)
        /\ key \in omitted => key \in ShownBy(ws)
    BY <1>2
  <2> QED
    BY <2>1, <2>2
<1>5. shown = ShownBy(vs) \ left /\ left \subseteq ShownBy(vs)
  BY <1>4
<1> QED
  BY <1>5 DEF left

\* Without a recent acquisition nothing is reported open or resolved.
LEMMA NothingReported ==
  ASSUME NEW keys, NEW ws, NEW shown \in RaisedAfter(keys, ws, FALSE)
  PROVE  shown = keys
<1>1. \A k, w : /\ Conditions(k, w, FALSE).presence = "interrupted"
                /\ Conditions(k, w, FALSE).link = "interrupted"
  BY DEF Conditions, Status
<1>2. \A kind \in {"presence", "link"} : \A k, w : Conditions(k, w, FALSE)[kind] = "interrupted"
  BY <1>1
<1>3. Reported(ws, FALSE, "open") = {} /\ Reported(ws, FALSE, "resolved") = {}
  BY <1>2 DEF Reported
<1> QED
  BY <1>3 DEF RaisedAfter

\* A watch that concludes nothing new announces nothing.
LEMMA NothingAnnounced ==
  ASSUME NEW k, NEW w, NEW v, NEW current, Exists(w) <=> Exists(v),
         Exists(w) => (v.absent = w.absent /\ v.slow = w.slow)
  PROVE  Announced(k, w, v, current)
BY DEF Announced

\* What a scan lets a watch conclude is announced with it.
LEMMA ScanAnnounced ==
  ASSUME NEW k, NEW w, NEW v, NEW scan, NEW continuous, Exists(w),
         ScanVerdict(k, w, v, scan, continuous)
  PROVE  Announced(k, w, v, TRUE)
<1> DEFINE s == Conditions(k, v, TRUE)
           usable == TRUE /\ v.current
<1>1. s.presence = Status(usable /\ v.presence # "unknown", v.absent,
                          v.present_count = 2 /\ v.presence = "present")
  BY DEF Conditions
<1>2. s.link = Status(usable /\ v.presence = "present"
                             /\ v.link \in {"warning", "no_current_warning"},
                      v.slow, v.link = "no_current_warning")
  BY DEF Conditions
<1>3. Exists(v)
  BY TypedExists DEF ScanVerdict
<1>4. (v.absent /\ ~w.absent) => s.presence = "open"
  BY <1>1 DEF ScanVerdict, Status
<1>5. (w.absent /\ ~v.absent) => s.presence = "resolved"
  BY <1>1 DEF ScanVerdict, Status
<1>6. (v.slow /\ ~w.slow) => s.link = "open"
  BY <1>2 DEF ScanVerdict, Status
<1>7. (w.slow /\ ~v.slow) => s.link = "resolved"
  BY <1>2 DEF ScanVerdict, Status
<1> QED
  BY <1>3, <1>4, <1>5, <1>6, <1>7 DEF Announced

\* What a watch has counted is in the scans of the unbroken row of usable ones.
Awaits(k, w) ==
  /\ TypedWatch(w)
  /\ w.armed => k \in confirmed
  /\ ~Unbegun(w) => (recent # <<>> /\ CountedIn(k, w, recent[Len(recent)]))
  /\ ~Strong(k) => w.ctx.session = k[2]

\* The watches, and what the operator is shown of them.
WatchInv ==
  /\ DOMAIN watch = WatchIds
  /\ \A k \in WatchIds : Exists(watch[k]) => Awaits(k, watch[k])
  /\ recent \in Seq(Snapshots) /\ Len(recent) <= 2
  /\ ~Known => \A k \in WatchIds : ~Exists(watch[k])
  /\ raised = ShownBy(watch) \ omitted /\ omitted \subseteq ShownBy(watch)

\* A watch that a scan of context c finds: nothing of another context is counted.
AtHand(k, w, c) ==
  /\ Awaits(k, w)
  /\ w.armed => c = node.ctx
  /\ ~Unbegun(w) => c = node.ctx

\* What silence leaves of a watch.
LEMMA Silenced ==
  ASSUME NEW w, TypedWatch(w), NEW v,
         v \in {Unknown(w), [Unknown(w) EXCEPT !.armed = FALSE],
                [Unknown(w) EXCEPT !.attributed = FALSE, !.armed = FALSE]}
  PROVE  /\ TypedWatch(v) /\ Unbegun(v) /\ DOMAIN v = DOMAIN w /\ v.ctx = w.ctx
         /\ v.absent = w.absent /\ v.slow = w.slow /\ v.baseline = w.baseline
         /\ v.armed \in BOOLEAN /\ (v.armed => w.armed)
         /\ v = [Unknown(w) EXCEPT !.armed = FALSE] => ~v.armed
<1> DEFINE u == Unknown(w)
<1>1. WatchFields \subseteq DOMAIN w /\ w.armed \in BOOLEAN
  BY DEF TypedWatch
<1>2. OnlySets(w, u, RowCounts \cup {"candidate", "presence", "link", "current"}) /\ Unbegun(u)
  BY <1>1, UnknownKeeps
<1>3. v \in {u, [u EXCEPT !.armed = FALSE], [u EXCEPT !.attributed = FALSE, !.armed = FALSE]}
  OBVIOUS
<1> HIDE DEF u
<1>4. /\ DOMAIN u = DOMAIN w /\ u.ctx = w.ctx /\ u.absent = w.absent /\ u.slow = w.slow
      /\ u.baseline = w.baseline /\ u.armed = w.armed
  BY <1>2 DEF OnlySets, WatchFields, RowCounts, LinkCounts
<1>5. OnlySets(u, v, {"armed", "attributed"}) /\ v.armed \in {u.armed, FALSE}
  BY <1>1, <1>3, <1>4 DEF OnlySets, WatchFields
<1>6. /\ DOMAIN v = DOMAIN w /\ v.ctx = w.ctx /\ v.absent = w.absent /\ v.slow = w.slow
      /\ v.baseline = w.baseline /\ \A f \in RowCounts : v[f] = u[f]
  BY <1>4, <1>5 DEF OnlySets, WatchFields, RowCounts, LinkCounts
<1>7. Unbegun(v)
  BY <1>2, <1>6 DEF Unbegun
<1>8. v.armed \in BOOLEAN /\ (v.armed => w.armed)
  BY <1>1, <1>4, <1>5
<1>9. TypedWatch(v)
  BY <1>1, <1>6, <1>7, <1>8 DEF TypedWatch, Unbegun
<1>10. v = [Unknown(w) EXCEPT !.armed = FALSE] => ~v.armed
  BY <1>1, <1>4 DEF u, WatchFields
<1> QED
  BY <1>6, <1>7, <1>8, <1>9, <1>10

\* The evaluation of a watch by a scan.
LEMMA EvaluatedIs ==
  ASSUME NEW k \in WatchIds, NEW c, NEW w, AtHand(k, w, c), NEW scan \in Snapshots,
         NEW continuous \in BOOLEAN
  PROVE  LET v == Evaluated(k, w, c, scan, continuous)
         IN /\ ScanVerdict(k, w, v, scan, continuous)
            /\ ~Strong(k) => v.ctx.session = k[2]
            /\ (~Strong(k) /\ v.armed /\ ~w.armed) => w.ctx = c
<1> DEFINE v == Evaluated(k, w, c, scan, continuous)
<1>1. /\ ~Strong(k) => w.ctx.session = k[2]
      /\ ~Unbegun(w) => CountedIn(k, w, recent[Len(recent)])
  BY DEF AtHand, Awaits
<1>2. TypedWatch(w)
  BY DEF AtHand, Awaits
<1>3. (Strong(k) /\ w.low_count # 0) => w.baseline # 0
  <2>1. SUFFICES ASSUME Strong(k), w.low_count # 0, w.baseline = 0 PROVE FALSE
    OBVIOUS
  <2>2. ~Unbegun(w)
    BY <2>1 DEF Unbegun, RowCounts, LinkCounts
  <2>3. Saw(k, recent[Len(recent)], Lower(w))
    BY <1>1, <2>1, <2>2 DEF CountedIn
  <2>4. Lower(w) = {}
    BY <2>1 DEF Lower
  <2> QED
    BY <2>3, <2>4 DEF Saw
<1>4. ASSUME v \in {Unknown(w), [Unknown(w) EXCEPT !.attributed = FALSE, !.armed = FALSE]}
      PROVE  /\ ScanVerdict(k, w, v, scan, continuous) /\ v.ctx = w.ctx /\ (v.armed => w.armed)
  <2>1. v \in {Unknown(w), [Unknown(w) EXCEPT !.armed = FALSE],
               [Unknown(w) EXCEPT !.attributed = FALSE, !.armed = FALSE]}
    BY <1>4
  <2> HIDE DEF v
  <2>2. /\ Unbegun(v) /\ DOMAIN v = DOMAIN w /\ v.ctx = w.ctx
        /\ v.absent = w.absent /\ v.slow = w.slow /\ v.baseline = w.baseline
        /\ v.armed \in BOOLEAN /\ (v.armed => w.armed)
    BY ZenonT(40), <1>2, <2>1, Silenced
  <2>3. ScanVerdict(k, w, v, scan, continuous)
    BY <1>2, <2>2, NothingConcluded
  <2> QED
    BY <2>2, <2>3
<1>5. ASSUME v = Observe(k, w, c, scan, continuous)
      PROVE  ScanVerdict(k, w, v, scan, continuous) /\ v.ctx = c
  BY <1>2, <1>3, <1>5, ObserveIs
<1>6. CASE ~Strong(k) /\ w.ctx # c
  <2>1. v = Unknown(w)
    BY <1>6 DEF Evaluated
  <2> HIDE DEF v
  <2>2. ScanVerdict(k, w, v, scan, continuous) /\ v.ctx = w.ctx /\ (v.armed => w.armed)
    BY <1>4, <2>1
  <2> QED
    BY <1>1, <2>2 DEF v
<1>7. CASE ~(~Strong(k) /\ w.ctx # c)
  <2>1. \/ v = [Unknown(w) EXCEPT !.attributed = FALSE, !.armed = FALSE]
        \/ v = Observe(k, w, c, scan, continuous)
    BY <1>7 DEF Evaluated
  <2> HIDE DEF v
  <2>2. ScanVerdict(k, w, v, scan, continuous) /\ v.ctx \in {w.ctx, c}
    BY <1>4, <1>5, <2>1
  <2> QED
    BY <1>1, <1>7, <2>2 DEF v
<1> QED
  BY <1>6, <1>7

\* A watch with the conclusions of another one.
Keeps(w, v) ==
  /\ Exists(v) <=> Exists(w)
  /\ Exists(w) => v.absent = w.absent /\ v.slow = w.slow /\ v.baseline = w.baseline

\* Watches that have not been told of a heartbeat of another context.
LEMMA SuspendedIs ==
  ASSUME WatchInv, NEW c
  PROVE  LET ws == Suspended(c)
         IN /\ DOMAIN ws = WatchIds
            /\ \A k \in WatchIds : /\ Keeps(watch[k], ws[k])
                                   /\ Exists(ws[k]) => AtHand(k, ws[k], c)
<1> DEFINE ws == Suspended(c)
<1>1. CASE ~Known \/ c = node.ctx
  <2>1. ws = watch
    BY <1>1 DEF Suspended
  <2>2. ASSUME NEW k \in WatchIds
        PROVE  /\ Keeps(watch[k], watch[k])
               /\ Exists(watch[k]) => AtHand(k, watch[k], c)
    BY <1>1 DEF Keeps, AtHand, WatchInv
  <2>3. DOMAIN watch = WatchIds
    BY DEF WatchInv
  <2> HIDE DEF ws
  <2> QED
    BY <2>1, <2>2, <2>3 DEF ws
<1>2. CASE ~(~Known \/ c = node.ctx)
  <2>1. ws = [k \in WatchIds |-> IF Exists(watch[k])
                                 THEN [Unknown(watch[k]) EXCEPT !.armed = FALSE]
                                 ELSE NoWatch]
    BY <1>2 DEF Suspended
  <2> HIDE DEF ws
  <2>2. ASSUME NEW k \in WatchIds
        PROVE  /\ Keeps(watch[k], ws[k])
               /\ Exists(ws[k]) => AtHand(k, ws[k], c)
    <3>1. CASE Exists(watch[k])
      <4> DEFINE w == watch[k]
                 v == [Unknown(w) EXCEPT !.armed = FALSE]
      <4>1. ws[k] = v
        BY <2>1, <3>1
      <4>2. Awaits(k, w)
        BY <3>1 DEF WatchInv
      <4>3. TypedWatch(w)
        BY <4>2 DEF Awaits
      <4>4. /\ TypedWatch(v) /\ Unbegun(v) /\ v.ctx = w.ctx
            /\ v.absent = w.absent /\ v.slow = w.slow /\ v.baseline = w.baseline
            /\ ~v.armed
        BY <4>3, Silenced
      <4> HIDE DEF w, v
      <4>5. Exists(v)
        BY <4>4, TypedExists
      <4>6. AtHand(k, v, c)
        BY <4>2, <4>4 DEF AtHand, Awaits
      <4>7. Keeps(w, v)
        BY <3>1, <4>4, <4>5 DEF Keeps, w
      <4> QED
        BY <4>1, <4>6, <4>7 DEF w
    <3>2. CASE ~Exists(watch[k])
      <4>1. ws[k] = NoWatch /\ ~Exists(NoWatch)
        BY <2>1, <3>2 DEF Exists
      <4> QED
        BY <3>2, <4>1 DEF Keeps
    <3> QED
      BY <3>1, <3>2
  <2>3. DOMAIN ws = WatchIds
    BY <2>1
  <2> QED
    BY <2>2, <2>3 DEF ws
<1> QED
  BY <1>1, <1>2

\* A new watch of a device of a scan.
LEMMA FreshIs ==
  ASSUME NEW c, NEW driver, NEW d, NEW k, k = IdOf(d, c)
  PROVE  LET w == Fresh(c, driver)
         IN /\ TypedWatch(w) /\ Unbegun(w) /\ Exists(w) /\ AtHand(k, w, c)
            /\ ~w.absent /\ ~w.slow /\ ~w.armed /\ w.baseline = 0
<1> DEFINE w == Fresh(c, driver)
<1>1. /\ WatchFields \subseteq DOMAIN w /\ w.ctx = c
      /\ w.absent = FALSE /\ w.slow = FALSE /\ w.armed = FALSE /\ w.baseline = 0
  BY DEF Fresh, WatchFields
<1>2. Unbegun(w)
  BY DEF Fresh, Unbegun, RowCounts, LinkCounts
<1> HIDE DEF w
<1>3. TypedWatch(w)
  <2>1. w.armed \in BOOLEAN /\ w.absent \in BOOLEAN /\ w.slow \in BOOLEAN
    BY <1>1
  <2>2. \A f \in RowCounts : w[f] \in 0..2
    BY <1>2 DEF Unbegun
  <2> QED
    BY <1>1, <2>1, <2>2 DEF TypedWatch
<1>4. Exists(w)
  BY <1>3, TypedExists
<1>5. ~Strong(k) => k[2] = c.session
  BY DEF IdOf, Strong
<1>6. AtHand(k, w, c)
  BY <1>1, <1>2, <1>3, <1>5 DEF AtHand, Awaits
<1> QED
  BY <1>1, <1>2, <1>3, <1>4, <1>6 DEF w

\* A heartbeat without a scan, and one that cannot be used, conclude nothing.
LEMMA KeepsAnnounces ==
  ASSUME NEW k, NEW w, NEW v, NEW current, Keeps(w, v)
  PROVE  Announced(k, w, v, current)
BY NothingAnnounced DEF Keeps

\* Two scans in a row agree on a speed of the device.
Agreed(k, rs, S) == Len(rs) = 2 /\ \A i \in 1..2 : Saw(k, rs[i], S)

\* What changes of the conclusions from w to v was earned by the row rs.
Earns(k, w, v, rs) ==
  /\ (v.absent /\ ~w.absent) => k \in confirmed /\ Len(rs) = 2 /\ \A i \in 1..2 : ~SeenIn(rs[i], k)
  /\ (w.absent /\ ~v.absent) => Len(rs) = 2 /\ \A i \in 1..2 : SeenIn(rs[i], k)
  /\ (v.slow /\ ~w.slow) => Agreed(k, rs, Lower(v))
  /\ (w.slow /\ ~v.slow) => Agreed(k, rs, Higher(v))
  /\ v.baseline # w.baseline => v.baseline > w.baseline /\ Agreed(k, rs, {v.baseline})

\* A verdict rests on the scan before and on this one.
LEMMA VerdictsRest ==
  ASSUME NEW k, NEW c, NEW w, AtHand(k, w, c), NEW v, NEW scan, NEW continuous, NEW rs,
         ScanVerdict(k, w, v, scan, continuous),
         (continuous /\ recent # <<>>) =>
           Len(rs) = 2 /\ rs[1] = recent[Len(recent)] /\ rs[2] = scan
  PROVE  Earns(k, w, v, rs)
<1> DEFINE last == recent[Len(recent)]
<1>1. TypedWatch(w) /\ TypedWatch(v) /\ w.baseline \in Nat /\ v.baseline \in Nat
  BY DEF AtHand, Awaits, ScanVerdict, TypedWatch
<1>2. /\ w.armed => k \in confirmed
      /\ ~Unbegun(w) => (recent # <<>> /\ CountedIn(k, w, last))
  BY DEF AtHand, Awaits
<1> HIDE DEF last
<1>3. ASSUME continuous, ~Unbegun(w)
      PROVE  /\ Len(rs) = 2 /\ rs[1] = last /\ rs[2] = scan /\ CountedIn(k, w, last)
             /\ \A S : (Saw(k, last, S) /\ Saw(k, scan, S)) => Agreed(k, rs, S)
  <2>1. Len(rs) = 2 /\ rs[1] = last /\ rs[2] = scan /\ CountedIn(k, w, last)
    BY <1>2, <1>3 DEF last
  <2>2. \A i \in 1..2 : i = 1 \/ i = 2
    OBVIOUS
  <2> QED
    BY <2>1, <2>2 DEF Agreed
<1>4. /\ (w.present_count # 0 \/ w.absent_count # 0 \/ w.candidate_count # 0
            \/ w.low_count # 0 \/ w.recovery_count # 0) => ~Unbegun(w)
  BY DEF Unbegun, RowCounts, LinkCounts
<1>5. (v.absent /\ ~w.absent) => k \in confirmed /\ Len(rs) = 2 /\ \A i \in 1..2 : ~SeenIn(rs[i], k)
  <2>1. SUFFICES ASSUME v.absent, ~w.absent
                 PROVE  k \in confirmed /\ Len(rs) = 2 /\ \A i \in 1..2 : ~SeenIn(rs[i], k)
    OBVIOUS
  <2>2. continuous /\ w.armed /\ w.absent_count # 0 /\ ~SeenIn(scan, k)
    BY <2>1 DEF ScanVerdict
  <2>3. Len(rs) = 2 /\ rs[1] = last /\ rs[2] = scan /\ ~SeenIn(last, k)
    BY <1>3, <1>4, <2>2 DEF CountedIn
  <2>4. \A i \in 1..2 : i = 1 \/ i = 2
    OBVIOUS
  <2> QED
    BY <1>2, <2>2, <2>3, <2>4
<1>6. (w.absent /\ ~v.absent) => Len(rs) = 2 /\ \A i \in 1..2 : SeenIn(rs[i], k)
  <2>1. SUFFICES ASSUME w.absent, ~v.absent
                 PROVE  Len(rs) = 2 /\ \A i \in 1..2 : SeenIn(rs[i], k)
    OBVIOUS
  <2>2. continuous /\ w.present_count # 0 /\ SeenIn(scan, k)
    BY <2>1 DEF ScanVerdict
  <2>3. Len(rs) = 2 /\ rs[1] = last /\ rs[2] = scan /\ SeenIn(last, k)
    BY <1>3, <1>4, <2>2 DEF CountedIn
  <2>4. \A i \in 1..2 : i = 1 \/ i = 2
    OBVIOUS
  <2> QED
    BY <2>2, <2>3, <2>4
<1>7. v.baseline # w.baseline =>
        /\ v.baseline > w.baseline /\ Saw(k, last, {v.baseline})
        /\ Agreed(k, rs, {v.baseline})
  <2>1. SUFFICES ASSUME v.baseline # w.baseline
                 PROVE  /\ v.baseline > w.baseline /\ Saw(k, last, {v.baseline})
                        /\ Agreed(k, rs, {v.baseline})
    OBVIOUS
  <2>2. /\ v.baseline >= w.baseline
        /\ Strong(k) /\ continuous /\ w.candidate_count # 0 /\ w.candidate = v.baseline
        /\ Saw(k, scan, {v.baseline})
    BY <2>1 DEF ScanVerdict
  <2>3. Saw(k, last, {v.baseline})
    BY <1>3, <1>4, <2>2 DEF CountedIn
  <2> QED
    BY <1>1, <1>3, <1>4, <2>1, <2>2, <2>3
<1>8. v.baseline >= w.baseline
  BY DEF ScanVerdict
<1>9. (v.slow /\ ~w.slow) => Agreed(k, rs, Lower(v))
  <2>1. SUFFICES ASSUME v.slow, ~w.slow PROVE Agreed(k, rs, Lower(v))
    OBVIOUS
  <2>2. Strong(k) /\ continuous /\ w.low_count # 0 /\ Saw(k, scan, Lower(v))
    BY <2>1 DEF ScanVerdict
  <2>3. Saw(k, last, Lower(w))
    BY <1>3, <1>4, <2>2 DEF CountedIn
  <2>4. Saw(k, last, Lower(v))
    BY <1>1, <1>8, <2>3 DEF Saw, Lower
  <2> QED
    BY <1>3, <1>4, <2>2, <2>4
<1>10. (w.slow /\ ~v.slow) => Agreed(k, rs, Higher(v))
  <2>1. SUFFICES ASSUME w.slow, ~v.slow PROVE Agreed(k, rs, Higher(v))
    OBVIOUS
  <2>2. Strong(k) /\ continuous /\ w.recovery_count # 0 /\ Saw(k, scan, Higher(v))
    BY <2>1 DEF ScanVerdict
  <2>3. Saw(k, last, Higher(w))
    BY <1>3, <1>4, <2>2 DEF CountedIn
  <2>4. Saw(k, last, Higher(v))
    <3>1. CASE v.baseline = w.baseline
      BY <2>3, <3>1 DEF Higher
    <3>2. CASE v.baseline # w.baseline
      BY <1>1, <1>7, <3>2 DEF Saw, Higher
    <3> QED
      BY <3>1, <3>2
  <2> QED
    BY <1>3, <1>4, <2>2, <2>4
<1> QED
  BY <1>5, <1>6, <1>7, <1>9, <1>10 DEF Earns

\* The row of usable scans with one more.
LEMMA RowGoesOn ==
  ASSUME NEW rs \in Seq(Snapshots), Len(rs) <= 2, NEW scan \in Snapshots
  PROVE  /\ WatchRow(rs, scan) \in Seq(Snapshots) /\ Len(WatchRow(rs, scan)) \in 1..2
         /\ WatchRow(rs, scan)[Len(WatchRow(rs, scan))] = scan
         /\ rs # <<>> => /\ Len(WatchRow(rs, scan)) = 2
                         /\ WatchRow(rs, scan)[1] = rs[Len(rs)] /\ WatchRow(rs, scan)[2] = scan
<1>1. Len(rs) \in Nat
  OBVIOUS
<1>2. CASE Len(rs) = 2
  <2>1. rs[2] \in Snapshots
    BY <1>2
  <2>2. WatchRow(rs, scan) = <<rs[2], scan>>
    BY <1>2 DEF WatchRow
  <2> QED
    BY <1>2, <2>1, <2>2
<1>3. CASE Len(rs) # 2
  <2>1. WatchRow(rs, scan) = Append(rs, scan)
    BY <1>3 DEF WatchRow
  <2>2. Len(rs) = 0 \/ Len(rs) = 1
    <3>1. \A m \in Nat : m <= 2 /\ m # 2 => m = 0 \/ m = 1
      OBVIOUS
    <3> QED
      BY <1>1, <1>3, <3>1
  <2>3. rs # <<>> => Len(rs) = 1
    BY <2>2
  <2> QED
    BY <2>1, <2>2, <2>3
<1> QED
  BY <1>2, <1>3

\* The name of a watch in the context it was last found in.
LEMMA NameIs ==
  ASSUME NEW k \in WatchIds, NEW c, ~Strong(k) => c.session = k[2]
  PROVE  IdOf(k[1], c) = k
<1>1. CASE Strong(k)
  <2>1. k \in Serials \X {0}
    BY <1>1, DeviceWatchAssumption DEF WatchIds, Strong
  <2> QED
    BY <2>1 DEF IdOf
<1>2. CASE ~Strong(k)
  <2>1. k \in Anonymous \X (1..MaxWatchSessions)
    BY <1>2 DEF WatchIds, Strong
  <2> QED
    BY <1>2, <2>1 DEF IdOf, Strong
<1> QED
  BY <1>1, <1>2

\* Every heartbeat has a context.
LEMMA NextIsKnown ==
  ASSUME NEW c \in NextContexts
  PROVE  c # NoContext
<1>1. c.session >= 1
  BY DEF NextContexts, Contexts
<1> QED
  BY <1>1 DEF NoContext

\* What is earned is what VerdictEarned says.
LEMMA EarnedIs ==
  ASSUME NEW k, Earns(k, watch[k], watch'[k], recent')
  PROVE  VerdictEarned(k)
<1> DEFINE w == watch[k]
           v == watch'[k]
<1>1. (v.absent /\ ~w.absent) =>
        k \in confirmed /\ Len(recent') = 2 /\ \A i \in 1..2 : ~SeenIn(recent'[i], k)
  BY DEF Earns
<1>2. (w.absent /\ ~v.absent) => BothSaw(k, LAMBDA n : TRUE)
  BY DEF Earns, BothSaw
<1>3. (v.slow /\ ~w.slow) => BothSaw(k, LAMBDA n : n > 0 /\ n < v.baseline)
  BY DEF Earns, BothSaw, Agreed, Saw, Lower
<1>4. (w.slow /\ ~v.slow) => BothSaw(k, LAMBDA n : n >= v.baseline)
  BY DEF Earns, BothSaw, Agreed, Saw, Higher
<1>5. v.baseline # w.baseline =>
        v.baseline > w.baseline /\ BothSaw(k, LAMBDA n : n = v.baseline)
  BY DEF Earns, BothSaw, Agreed, Saw
<1> QED
  BY <1>1, <1>2, <1>3, <1>4, <1>5 DEF VerdictEarned

\* A usable scan.
LEMMA UsableStep ==
  ASSUME WatchInv, NEW c \in NextContexts, NEW scan \in Snapshots, NEW near \in BOOLEAN,
         Usable(c, scan, near)
  PROVE  WatchInv' /\ \A k \in Watched : VerdictEarned(k)
<1> DEFINE ws == Suspended(c)
           before == node.acq = c /\ node.ctx = c /\ node.current /\ near
           there == c = node.ctx
<1>1. PICK A \in Admissions(ws, c, scan) :
        LET born == [k \in WatchIds |->
                       IF \E d \in A : k = IdOf(d, c) THEN Fresh(c, scan[k[1]].driver) ELSE ws[k]]
        IN /\ watch' = [k \in WatchIds |-> IF Exists(born[k])
                                           THEN Evaluated(k, born[k], c, scan, before)
                                           ELSE NoWatch]
           /\ \E keys \in RaisedAfter(raised, ws, FALSE) : raised' \in RaisedAfter(keys, watch', TRUE)
           /\ omitted' = Omitting(raised', watch', TRUE)
           /\ node' = [ctx |-> c, acq |-> c, current |-> TRUE,
                       limited |-> \E d \in DOMAIN scan : ~Exists(born[IdOf(d, c)])]
           /\ recent' = IF c = node.ctx /\ near THEN WatchRow(recent, scan) ELSE <<scan>>
           /\ confirmed' = (IF c = node.ctx THEN confirmed ELSE {})
                \cup {IdOf(d, c) : d \in {e \in DOMAIN scan :
                        Len(recent') = 2 /\ SeenIn(recent'[1], <<e, 0>>)}}
  BY DEF Usable
<1> DEFINE born == [k \in WatchIds |->
                      IF \E d \in A : k = IdOf(d, c) THEN Fresh(c, scan[k[1]].driver) ELSE ws[k]]
<1>2. /\ watch' = [k \in WatchIds |-> IF Exists(born[k])
                                      THEN Evaluated(k, born[k], c, scan, before)
                                      ELSE NoWatch]
      /\ \E keys \in RaisedAfter(raised, ws, FALSE) : raised' \in RaisedAfter(keys, watch', TRUE)
      /\ omitted' = Omitting(raised', watch', TRUE)
      /\ recent' = IF there /\ near THEN WatchRow(recent, scan) ELSE <<scan>>
      /\ confirmed' = (IF there THEN confirmed ELSE {})
           \cup {IdOf(d, c) : d \in {e \in DOMAIN scan :
                   Len(recent') = 2 /\ SeenIn(recent'[1], <<e, 0>>)}}
  BY <1>1
<1>3. node'.ctx = c
  BY <1>1
<1>4. A \subseteq {d \in DOMAIN scan : ~Exists(ws[IdOf(d, c)])}
  BY DEF Admissions
<1>5. /\ DOMAIN ws = WatchIds
      /\ \A k \in WatchIds : /\ Keeps(watch[k], ws[k])
                             /\ Exists(ws[k]) => AtHand(k, ws[k], c)
  BY SuspendedIs
<1>6. ASSUME NEW k \in WatchIds
      PROVE  \/ born[k] = ws[k]
             \/ /\ ~Exists(ws[k]) /\ Exists(born[k]) /\ AtHand(k, born[k], c)
                /\ ~born[k].absent /\ ~born[k].slow
  <2>1. CASE \E d \in A : k = IdOf(d, c)
    <3>1. PICK d \in A : k = IdOf(d, c)
      BY <2>1
    <3>2. born[k] = Fresh(c, scan[k[1]].driver)
      BY <2>1
    <3>3. ~Exists(ws[k])
      BY <1>4, <3>1
    <3> HIDE DEF born, ws
    <3>4. Exists(born[k]) /\ AtHand(k, born[k], c) /\ ~born[k].absent /\ ~born[k].slow
      BY <3>1, <3>2, FreshIs
    <3> QED
      BY <3>3, <3>4
  <2>2. CASE ~\E d \in A : k = IdOf(d, c)
    BY <2>2
  <2> QED
    BY <2>1, <2>2
<1>7. ASSUME NEW k \in WatchIds, Exists(born[k])
      PROVE  AtHand(k, born[k], c)
  BY <1>5, <1>6, <1>7
<1> HIDE DEF born, ws
<1>8. before \in BOOLEAN /\ (before => (there /\ near))
  BY DEF before
<1> HIDE DEF before, there
<1>9. ASSUME NEW k \in WatchIds, Exists(born[k])
      PROVE  /\ ScanVerdict(k, born[k], watch'[k], scan, before)
             /\ ~Strong(k) => watch'[k].ctx.session = k[2]
             /\ (~Strong(k) /\ watch'[k].armed /\ ~born[k].armed) => born[k].ctx = c
  <2>1. watch'[k] = Evaluated(k, born[k], c, scan, before)
    BY <1>2, <1>9
  <2>2. AtHand(k, born[k], c)
    BY <1>7, <1>9
  <2> QED
    BY <1>8, <2>1, <2>2, EvaluatedIs
<1>10. ASSUME NEW k \in WatchIds, ~Exists(born[k])
       PROVE  ~Exists(watch'[k])
  BY <1>2, <1>10 DEF Exists
<1>11. /\ recent' \in Seq(Snapshots) /\ Len(recent') \in 1..2 /\ recent'[Len(recent')] = scan
       /\ (there /\ near /\ recent # <<>>) =>
            Len(recent') = 2 /\ recent'[1] = recent[Len(recent)] /\ recent'[2] = scan
  <2>1. recent \in Seq(Snapshots) /\ Len(recent) <= 2
    BY DEF WatchInv
  <2>2. CASE there /\ near
    BY <1>2, <2>1, <2>2, RowGoesOn
  <2>3. CASE ~(there /\ near)
    <3>1. recent' = <<scan>>
      BY <1>2, <2>3
    <3>2. Len(<<scan>>) = 1 /\ <<scan>>[1] = scan /\ <<scan>> \in Seq(Snapshots)
      OBVIOUS
    <3> QED
      BY <2>3, <3>1, <3>2
  <2> QED
    BY <2>2, <2>3
<1>12. /\ there => confirmed \subseteq confirmed'
       /\ \A d \in DOMAIN scan :
            (Len(recent') = 2 /\ d \in DOMAIN recent'[1]) => IdOf(d, c) \in confirmed'
  BY <1>2 DEF SeenIn
<1>13. ASSUME NEW k \in WatchIds, Exists(born[k])
       PROVE  Earns(k, born[k], watch'[k], recent')
  <2>1. AtHand(k, born[k], c)
    BY <1>7, <1>13
  <2>2. (before /\ recent # <<>>) =>
          Len(recent') = 2 /\ recent'[1] = recent[Len(recent)] /\ recent'[2] = scan
    BY <1>8, <1>11
  <2>3. ScanVerdict(k, born[k], watch'[k], scan, before)
    BY <1>9, <1>13
  <2> QED
    BY <2>1, <2>2, <2>3, VerdictsRest
<1>14. ASSUME NEW k \in WatchIds, Exists(watch'[k])
       PROVE  Awaits(k, watch[k])'
  <2> DEFINE w == born[k]
             v == watch'[k]
  <2>1. Exists(w)
    BY <1>10, <1>14
  <2>2. AtHand(k, w, c)
    BY <1>7, <2>1
  <2>3. /\ ScanVerdict(k, w, v, scan, before)
        /\ ~Strong(k) => v.ctx.session = k[2]
        /\ (~Strong(k) /\ v.armed /\ ~w.armed) => w.ctx = c
    BY <1>9, <2>1
  <2> HIDE DEF w, v
  <2>4. TypedWatch(v) /\ CountedIn(k, v, recent'[Len(recent')]) /\ recent' # <<>>
    <3>1. TypedWatch(v) /\ CountedIn(k, v, scan)
      BY <2>3 DEF ScanVerdict
    <3>2. recent' # <<>>
      BY <1>11
    <3> QED
      BY <1>11, <3>1, <3>2
  <2>5. v.armed => k \in confirmed'
    <3>1. CASE v.armed /\ w.armed
      BY <1>12, <2>2, <3>1 DEF AtHand, Awaits, there
    <3>2. CASE v.armed /\ ~w.armed
      <4>1. before /\ w.present_count # 0 /\ SeenIn(scan, k)
        BY <2>3, <3>2 DEF ScanVerdict
      <4>2. ~Unbegun(w)
        BY <4>1 DEF Unbegun, RowCounts
      <4>3. recent # <<>> /\ SeenIn(recent[Len(recent)], k)
        BY <2>2, <4>1, <4>2 DEF AtHand, Awaits, CountedIn
      <4>4. Len(recent') = 2 /\ k[1] \in DOMAIN recent'[1] /\ k[1] \in DOMAIN scan
        BY <1>8, <1>11, <4>1, <4>3 DEF SeenIn
      <4>5. ~Strong(k) => c.session = k[2]
        BY <2>2, <2>3, <3>2 DEF AtHand, Awaits
      <4>6. IdOf(k[1], c) = k
        BY <4>5, NameIs
      <4>7. IdOf(k[1], c) \in confirmed'
        BY <1>12, <4>4
      <4> QED
        BY <4>6, <4>7
    <3> QED
      BY <3>1, <3>2
  <2> QED
    BY <2>3, <2>4, <2>5 DEF Awaits, v
<1>15. raised' \in RaisedAfter(raised, watch', TRUE)
  BY <1>2, NothingReported
<1>16. /\ raised' = ShownBy(watch') \ Omitting(raised', watch', TRUE)
       /\ Omitting(raised', watch', TRUE) \subseteq ShownBy(watch')
  <2>1. ASSUME NEW k \in WatchIds
        PROVE  Announced(k, ws[k], watch'[k], TRUE)
    <3>1. CASE Exists(born[k])
      <4>1. Announced(k, born[k], watch'[k], TRUE)
        BY <1>9, <3>1, ScanAnnounced
      <4>2. CASE born[k] = ws[k]
        BY <4>1, <4>2
      <4>3. CASE ~Exists(ws[k]) /\ ~born[k].absent /\ ~born[k].slow
        BY <3>1, <4>1, <4>3 DEF Announced
      <4> QED
        BY <1>6, <4>2, <4>3
    <3>2. CASE ~Exists(born[k])
      <4>1. ~Exists(ws[k])
        BY <1>6, <3>2
      <4>2. ~Exists(watch'[k])
        BY <1>10, <3>2
      <4> QED
        BY <4>1, <4>2 DEF Announced
    <3> QED
      BY <3>1, <3>2
  <2>2. ShownBy(ws) = ShownBy(watch)
    BY <1>5 DEF Keeps, ShownBy
  <2>3. raised = ShownBy(ws) \ omitted /\ omitted \subseteq ShownBy(ws)
    BY <2>2 DEF WatchInv
  <2> QED
    BY <1>15, <2>1, <2>3, RaisedIs
<1>17. DOMAIN watch' = WatchIds
  BY <1>2
<1>18. Known'
  BY <1>3, NextIsKnown DEF Known
<1>19. (raised = ShownBy(watch) \ omitted /\ omitted \subseteq ShownBy(watch))'
  BY <1>2, <1>16 DEF ShownBy
<1>20. WatchInv'
  BY <1>11, <1>14, <1>17, <1>18, <1>19 DEF WatchInv
<1>21. ASSUME NEW k \in Watched
       PROVE  VerdictEarned(k)
  <2>1. k \in WatchIds /\ Exists(watch[k])
    BY DEF Watched
  <2>2. /\ Keeps(watch[k], ws[k])
        /\ Exists(ws[k])
    BY <1>5, <2>1 DEF Keeps
  <2>3. born[k] = ws[k]
    BY <1>6, <2>1, <2>2
  <2>4. Earns(k, born[k], watch'[k], recent')
    BY <1>13, <2>1, <2>2, <2>3
  <2>5. born[k].absent = watch[k].absent /\ born[k].slow = watch[k].slow
        /\ born[k].baseline = watch[k].baseline
    BY <2>1, <2>2, <2>3 DEF Keeps
  <2>6. Earns(k, watch[k], watch'[k], recent')
    BY <2>4, <2>5 DEF Earns
  <2> QED
    BY <2>6, EarnedIs
<1> QED
  BY <1>20, <1>21

\* A watch that keeps its conclusions owes nothing.
LEMMA KeepsEarns ==
  ASSUME NEW k, Exists(watch[k]), Keeps(watch[k], watch'[k])
  PROVE  VerdictEarned(k)
<1>1. Earns(k, watch[k], watch'[k], recent')
  BY DEF Keeps, Earns
<1> QED
  BY <1>1, EarnedIs

\* The concerns shown are still those concluded when no watch concludes anything.
LEMMA KeepsShown ==
  ASSUME WatchInv, NEW vs, NEW current, \A k \in WatchIds : Keeps(watch[k], vs[k]),
         NEW shown \in RaisedAfter(raised, vs, current)
  PROVE  /\ shown = ShownBy(vs) \ Omitting(shown, vs, current)
         /\ Omitting(shown, vs, current) \subseteq ShownBy(vs)
<1>1. \A k \in WatchIds : Announced(k, watch[k], vs[k], current)
  BY KeepsAnnounces
<1>2. raised = ShownBy(watch) \ omitted /\ omitted \subseteq ShownBy(watch)
  BY DEF WatchInv
<1> QED
  BY <1>1, <1>2, RaisedIs

\* A heartbeat without a scan.
LEMMA BareStep ==
  ASSUME WatchInv, NEW c \in NextContexts, Bare(c)
  PROVE  WatchInv' /\ \A k \in Watched : VerdictEarned(k)
<1> DEFINE ws == Suspended(c)
           there == Known /\ c = node.ctx
<1>1. /\ watch' = ws
      /\ raised' \in RaisedAfter(raised, watch', FALSE)
      /\ omitted' = Omitting(raised', watch', FALSE)
      /\ IF there THEN UNCHANGED <<recent, confirmed>> ELSE recent' = <<>> /\ confirmed' = {}
  BY DEF Bare
<1>2. /\ DOMAIN ws = WatchIds
      /\ \A k \in WatchIds : /\ Keeps(watch[k], ws[k])
                             /\ Exists(ws[k]) => AtHand(k, ws[k], c)
  BY SuspendedIs
<1>3. \A k \in WatchIds : Exists(ws[k]) => Known
  BY <1>2 DEF WatchInv, Keeps
<1>4. Known => Known'
  BY NextIsKnown DEF Bare, Known
<1> HIDE DEF ws
<1>5. recent' \in Seq(Snapshots) /\ Len(recent') <= 2
  <2>1. CASE there
    BY <1>1, <2>1 DEF WatchInv
  <2>2. CASE ~there
    <3>1. recent' = <<>>
      BY <1>1, <2>2
    <3>2. <<>> \in Seq(Snapshots) /\ Len(<<>>) <= 2
      OBVIOUS
    <3> QED
      BY <3>1, <3>2
  <2> QED
    BY <2>1, <2>2
<1>6. ASSUME NEW k \in WatchIds, Exists(ws[k])
      PROVE  Awaits(k, watch[k])'
  <2>1. AtHand(k, ws[k], c) /\ Known
    BY <1>2, <1>3, <1>6
  <2>2. CASE there
    BY <1>1, <2>1, <2>2 DEF AtHand, Awaits
  <2>3. CASE ~there
    <3>1. c # node.ctx
      BY <2>1, <2>3
    <3> QED
      BY <1>1, <2>1, <3>1 DEF AtHand, Awaits
  <2> QED
    BY <2>2, <2>3
<1>7. (raised = ShownBy(watch) \ omitted /\ omitted \subseteq ShownBy(watch))'
  <2>1. /\ raised' = ShownBy(watch') \ Omitting(raised', watch', FALSE)
        /\ Omitting(raised', watch', FALSE) \subseteq ShownBy(watch')
    <3> DEFINE vs == watch'
               shown == raised'
    <3>1. (\A k \in WatchIds : Keeps(watch[k], vs[k])) /\ shown \in RaisedAfter(raised, vs, FALSE)
      BY <1>1, <1>2
    <3> HIDE DEF vs, shown
    <3>2. /\ shown = ShownBy(vs) \ Omitting(shown, vs, FALSE)
          /\ Omitting(shown, vs, FALSE) \subseteq ShownBy(vs)
      BY <3>1, KeepsShown
    <3> QED
      BY <3>2 DEF vs, shown
  <2> QED
    BY <1>1, <2>1 DEF ShownBy
<1>8. WatchInv'
  BY <1>1, <1>2, <1>3, <1>4, <1>5, <1>6, <1>7 DEF WatchInv
<1>9. \A k \in Watched : VerdictEarned(k)
  BY <1>1, <1>2, KeepsEarns DEF Watched
<1> QED
  BY <1>8, <1>9

\* A scan that cannot be used.
LEMMA UnusableStep ==
  ASSUME WatchInv, NEW c \in NextContexts, NEW foreign \in BOOLEAN, Unusable(c, foreign)
  PROVE  WatchInv' /\ \A k \in Watched : VerdictEarned(k)
<1> DEFINE ws == Suspended(c)
<1>1. /\ watch' = [k \in WatchIds |-> IF Exists(ws[k]) THEN Unknown(ws[k]) ELSE NoWatch]
      /\ raised' \in RaisedAfter(raised, watch', TRUE)
      /\ omitted' = Omitting(raised', watch', TRUE)
      /\ node'.ctx = c
      /\ recent' = <<>>
      /\ confirmed' = IF c = node.ctx THEN confirmed ELSE {}
  BY DEF Unusable
<1>2. \A k \in WatchIds : /\ Keeps(watch[k], ws[k])
                          /\ Exists(ws[k]) => AtHand(k, ws[k], c)
  BY SuspendedIs
<1> HIDE DEF ws
<1>3. ASSUME NEW k \in WatchIds
      PROVE  /\ Keeps(watch[k], watch'[k])
             /\ Exists(watch'[k]) => Awaits(k, watch[k])'
  <2>1. CASE Exists(ws[k])
    <3> DEFINE v == Unknown(ws[k])
    <3>1. watch'[k] = v
      BY <1>1, <2>1
    <3>2. AtHand(k, ws[k], c) /\ TypedWatch(ws[k])
      BY <1>2, <2>1 DEF AtHand, Awaits
    <3>3. /\ TypedWatch(v) /\ Unbegun(v) /\ v.ctx = ws[k].ctx
          /\ v.absent = ws[k].absent /\ v.slow = ws[k].slow /\ v.baseline = ws[k].baseline
          /\ (v.armed => ws[k].armed)
      BY <3>2, Silenced
    <3> HIDE DEF v
    <3>4. Exists(v)
      BY <3>3, TypedExists
    <3>5. Keeps(watch[k], v)
      BY <1>2, <2>1, <3>3, <3>4 DEF Keeps
    <3>6. v.armed => k \in confirmed'
      BY <1>1, <3>2, <3>3 DEF AtHand, Awaits
    <3>7. ~Strong(k) => v.ctx.session = k[2]
      BY <3>2, <3>3 DEF AtHand, Awaits
    <3> QED
      BY <3>1, <3>3, <3>5, <3>6, <3>7 DEF Awaits
  <2>2. CASE ~Exists(ws[k])
    <3>1. ~Exists(watch'[k]) /\ ~Exists(watch[k])
      BY <1>1, <1>2, <2>2 DEF Exists, Keeps
    <3> QED
      BY <3>1 DEF Keeps
  <2> QED
    BY <2>1, <2>2
<1>4. Known'
  BY <1>1, NextIsKnown DEF Known
<1>5. DOMAIN watch' = WatchIds
  BY <1>1
<1>6. recent' \in Seq(Snapshots) /\ Len(recent') <= 2
  BY <1>1
<1>7. (raised = ShownBy(watch) \ omitted /\ omitted \subseteq ShownBy(watch))'
  <2>1. /\ raised' = ShownBy(watch') \ Omitting(raised', watch', TRUE)
        /\ Omitting(raised', watch', TRUE) \subseteq ShownBy(watch')
    <3> DEFINE vs == watch'
               shown == raised'
    <3>1. (\A k \in WatchIds : Keeps(watch[k], vs[k])) /\ shown \in RaisedAfter(raised, vs, TRUE)
      BY <1>1, <1>3
    <3> HIDE DEF vs, shown
    <3>2. /\ shown = ShownBy(vs) \ Omitting(shown, vs, TRUE)
          /\ Omitting(shown, vs, TRUE) \subseteq ShownBy(vs)
      BY <3>1, KeepsShown
    <3> QED
      BY <3>2 DEF vs, shown
  <2> QED
    BY <1>1, <2>1 DEF ShownBy
<1>8. WatchInv'
  BY <1>3, <1>4, <1>5, <1>6, <1>7 DEF WatchInv
<1>9. \A k \in Watched : VerdictEarned(k)
  BY <1>3, KeepsEarns DEF Watched
<1> QED
  BY <1>8, <1>9

\* Every step keeps the invariant of the watches, and concludes what it earned.
LEMMA WatchNext ==
  ASSUME WatchInv, [NextWatch]_watchVars
  PROVE  WatchInv' /\ ((\A k \in Watched : VerdictEarned(k)) \/ UNCHANGED watchVars)
<1>1. CASE UNCHANGED watchVars
  <2>1. WatchInv'
    BY <1>1 DEF watchVars, WatchInv, Awaits, Known, ShownBy
  <2> QED
    BY <1>1, <2>1
<1>2. ASSUME NEW c \in NextContexts, Bare(c)
      PROVE  WatchInv' /\ \A k \in Watched : VerdictEarned(k)
  BY <1>2, BareStep
<1>3. ASSUME NEW c \in NextContexts, NEW foreign \in BOOLEAN, Unusable(c, foreign)
      PROVE  WatchInv' /\ \A k \in Watched : VerdictEarned(k)
  BY <1>3, UnusableStep
<1>4. ASSUME NEW c \in NextContexts, NEW scan \in Snapshots, NEW near \in BOOLEAN,
             Usable(c, scan, near)
      PROVE  WatchInv' /\ \A k \in Watched : VerdictEarned(k)
  BY <1>4, UsableStep
<1>5. ASSUME NEW current \in BOOLEAN, RecheckWatches(current)
      PROVE  WatchInv' /\ \A k \in Watched : VerdictEarned(k)
  <2>1. /\ raised' \in RaisedAfter(raised, watch, current)
        /\ omitted' = Omitting(raised', watch, current)
        /\ UNCHANGED <<node, watch, recent, confirmed>>
    BY <1>5 DEF RecheckWatches
  <2>2. \A k \in WatchIds : Keeps(watch[k], watch[k])
    BY DEF Keeps
  <2>3. raised' = ShownBy(watch) \ omitted' /\ omitted' \subseteq ShownBy(watch)
    BY <2>1, <2>2, KeepsShown
  <2>4. WatchInv'
    BY <2>1, <2>3 DEF WatchInv, Awaits, Known, ShownBy
  <2>5. \A k \in Watched : VerdictEarned(k)
    BY <2>1, <2>2, KeepsEarns DEF Watched
  <2> QED
    BY <2>4, <2>5
<1> QED
  BY <1>1, <1>2, <1>3, <1>4, <1>5 DEF NextWatch

\* Nothing is watched at first.
LEMMA WatchInit == InitWatch => WatchInv
<1> SUFFICES ASSUME InitWatch PROVE WatchInv
  OBVIOUS
<1>1. DOMAIN watch = WatchIds /\ \A k \in WatchIds : ~Exists(watch[k])
  BY DEF InitWatch, Exists
<1>2. recent \in Seq(Snapshots) /\ Len(recent) <= 2
  BY DEF InitWatch
<1>3. raised = ShownBy(watch) \ omitted /\ omitted \subseteq ShownBy(watch)
  BY <1>1 DEF InitWatch, ShownBy
<1> QED
  BY <1>1, <1>2, <1>3 DEF WatchInv

\* The watches never leave their invariant.
LEMMA WatchInvariance == Spec => []WatchInv
<1>1. Init => WatchInv
  BY WatchInit DEF Init
<1>2. WatchInv /\ [Next]_vars => WatchInv'
  BY StepOfEach, WatchNext
<1> QED
  BY <1>1, <1>2, PTL DEF Spec

\* The concerns shown of a node's USB devices are those that its watches conclude but for the
\* ones that found the episodes full when they were last reported, whatever was silent,
\* failed or changed session in between (device_watch.rs, ingest and conditions;
\* attention.rs, observe_condition), for any devices, drivers, speeds and limits, and however
\* much room other sources leave: EpisodesFollowWatches.
THEOREM EpisodesFollow == Spec => []EpisodesFollowWatches
<1>1. WatchInv => EpisodesFollowWatches
  BY DEF WatchInv, EpisodesFollowWatches, ShownBy, Watched
<1> QED
  BY <1>1, WatchInvariance, PTL

\* A watch concludes nothing that two usable scans in a row, of one context, do not agree on,
\* and its baseline never falls (device_watch.rs, Watch::observe):
\* VerdictsEarned.
THEOREM VerdictsAreEarned == Spec => VerdictsEarned
<1> DEFINE Earned == \A k \in Watched : VerdictEarned(k)
<1>1. WatchInv /\ [Next]_vars => [Earned]_watchVars
  BY StepOfEach, WatchNext
<1>2. Spec => [][Earned]_watchVars
  BY <1>1, WatchInvariance, PTL DEF Spec
<1> QED
  BY <1>2 DEF VerdictsEarned

==============================================================================
