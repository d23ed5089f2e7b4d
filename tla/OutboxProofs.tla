---------------------------- MODULE OutboxProofs ----------------------------
(***************************************************************************)
(* What the outbox promises under its bound, for every value of the        *)
(* constants of Notifications: the bound itself, the flag that tells the   *)
(* operator that admission is limited, no open concern silently dropped,   *)
(* no live row evicted, and one message for a disconnect that two          *)
(* observations report.                                                    *)
(*                                                                         *)
(* As in NotificationsProofs one lemma per operator of the code says what  *)
(* the operator keeps.  The bound needs counting: FirstOnes says how many  *)
(* rows Oldest evicts and how many intents Admissible admits.  The last    *)
(* section, on concerns that rely on another one, needs what became of     *)
(* that one's notification.                                                *)
(***************************************************************************)
EXTENDS NotificationsProofs, Induction

Flagged(d) == PendingIntents(d) # {} => d.limited
Bounded(d) == Cardinality(Rows(d)) <= MAX_OUTBOX

\* What no operator of a handler loses.
Holds(d, n) == (Flagged(d) => Flagged(n)) /\ (Bounded(d) => Bounded(n))

\* Recovered for good: the numbers of episodes are not used again.
Gone(d, e) == d.ep[e].status \in {"resolved", "deleted"}

\* A queued row stays as it is until its episode is recovered.
Stays(d, n) ==
  /\ \A e \in EpIds : Gone(d, e) => Gone(n, e)
  /\ \A r \in Revs : d.box[r].state = "queued" =>
       n.box[r] = d.box[r] \/ Gone(n, d.box[r].ep)

\* An open concern has been announced, waits, or relies on another one.
Heard(d, e) ==
  LET ep == d.ep[e]
  IN ep.status = "open" /\ ~ep.ack /\ ep.sev \in {"warning", "critical"}
     => \/ d.owner[ep.rev] # None
        \/ ep.intent.state # "none" /\ ep.intent.rev = ep.rev
        \/ ep.corr # None

AllHeard(d, n) == (\A e \in EpIds : Heard(d, e)) => \A e \in EpIds : Heard(n, e)

-----------------------------------------------------------------------------
(* Counting rows.                                                          *)

\* The rows are finitely many, and so are the episodes.
LEMMA Finite ==
  /\ \A S \in SUBSET Revs : IsFiniteSet(S) /\ Cardinality(S) \in Nat
  /\ \A S \in SUBSET EpIds : IsFiniteSet(S) /\ Cardinality(S) \in Nat
<1>1. IsFiniteSet(Revs) /\ IsFiniteSet(EpIds)
  BY BoundsAssumption, FS_Interval DEF Revs, EpIds
<1> QED
  BY <1>1, FS_Subset, FS_CardinalityType

\* The eviction of n rows takes n rows if so many are evictable, otherwise all of them.
LEMMA OldestAre ==
  ASSUME NEW d \in Database, NEW n \in Int
  PROVE  /\ Oldest(d, n) \subseteq Evictable(d)
         /\ Cardinality(Oldest(d, n)) = IF n <= 0 THEN 0
                                        ELSE IF n <= Cardinality(Evictable(d)) THEN n
                                        ELSE Cardinality(Evictable(d))
<1> DEFINE S == Evictable(d)
           R == {p \in Revs \X Revs : OlderRow(d, p[1], p[2])}
<1>1. \A r \in Revs : d.box[r].age \in Nat /\ r \in Nat
  BY Parts, BoundsAssumption DEF Row, Ages, Revs
<1>2. S \in SUBSET Revs
  BY DEF Evictable
<1>3. \A r, s \in S : <<r, s>> \in R <=> OlderRow(d, r, s)
  BY <1>2
<1>4. Orders(R, S)
  <2>1. \A x \in S : ~OlderRow(d, x, x)
    BY <1>1, <1>2 DEF OlderRow
  <2>2. \A x, y \in S : x # y => OlderRow(d, x, y) \/ OlderRow(d, y, x)
    BY <1>1, <1>2 DEF OlderRow
  <2>3. \A x, y, z \in S : OlderRow(d, x, y) /\ OlderRow(d, y, z) => OlderRow(d, x, z)
    BY <1>1, <1>2 DEF OlderRow
  <2> HIDE DEF S, R
  <2> QED
    BY <1>3, <2>1, <2>2, <2>3 DEF Orders
<1>5. \A r \in S : Below(R, S, r) = {s \in S : OlderRow(d, s, r)}
  BY <1>3 DEF Below
<1>6. Oldest(d, n) = {r \in S : Cardinality(Below(R, S, r)) < n}
  BY <1>5 DEF Oldest
<1> HIDE DEF S, R
<1>7. IsFiniteSet(S)
  BY <1>2, Finite
<1> QED
  BY <1>4, <1>6, <1>7, FirstOnes DEF S

\* The pass over the pending intents admits as many as find a free or an evictable row.
LEMMA AdmissibleAre ==
  ASSUME NEW d \in Database
  PROVE  LET free == MAX_OUTBOX + Cardinality(Evictable(d)) - Cardinality(Rows(d))
         IN /\ free \in Int /\ IsFiniteSet(Admissible(d))
            /\ Cardinality(Admissible(d)) <= IF free <= 0 THEN 0 ELSE free
<1> DEFINE S == Wanting(d)
           free == MAX_OUTBOX + Cardinality(Evictable(d)) - Cardinality(Rows(d))
           R == {p \in EpIds \X EpIds : OlderIntent(d, p[1], p[2])}
<1>1. \A e \in EpIds : d.ep[e].intent.age \in Nat /\ e \in Nat
  BY Parts, BoundsAssumption DEF Intent, Ages, EpIds
<1>2. S \in SUBSET EpIds
  BY DEF Wanting, PendingIntents
<1>3. \A e, f \in S : <<e, f>> \in R <=> OlderIntent(d, e, f)
  BY <1>2
<1>4. Orders(R, S)
  <2>1. \A x \in S : ~OlderIntent(d, x, x)
    BY <1>1, <1>2 DEF OlderIntent
  <2>2. \A x, y \in S : x # y => OlderIntent(d, x, y) \/ OlderIntent(d, y, x)
    BY <1>1, <1>2 DEF OlderIntent
  <2>3. \A x, y, z \in S : OlderIntent(d, x, y) /\ OlderIntent(d, y, z) => OlderIntent(d, x, z)
    BY <1>1, <1>2 DEF OlderIntent
  <2> HIDE DEF S, R
  <2> QED
    BY <1>3, <2>1, <2>2, <2>3 DEF Orders
<1>5. \A e \in S : Below(R, S, e) = {f \in S : OlderIntent(d, f, e)}
  BY <1>3 DEF Below
<1>6. Cardinality(Evictable(d)) \in Nat /\ Cardinality(Rows(d)) \in Nat /\ MAX_OUTBOX \in Nat
  BY Finite, BoundsAssumption DEF Evictable, Rows
<1>7. Admissible(d) = {e \in S : Cardinality(Below(R, S, e)) < free}
  <2> DEFINE rank(e) == Cardinality({f \in S : OlderIntent(d, f, e)})
  <2>1. \A e \in S : rank(e) \in Nat /\ rank(e) = Cardinality(Below(R, S, e))
    BY <1>2, <1>5, Finite
  <2>2. Admissible(d) = {e \in S : Cardinality(Rows(d)) + rank(e)
                                     < MAX_OUTBOX + Cardinality(Evictable(d))}
    BY DEF Admissible
  <2> HIDE DEF rank, S
  <2>3. ASSUME NEW e \in S
        PROVE  Cardinality(Rows(d)) + rank(e) < MAX_OUTBOX + Cardinality(Evictable(d))
               <=> Cardinality(Below(R, S, e)) < free
    BY <1>6, <2>1
  <2> QED
    BY <2>2, <2>3
<1>8. IsFiniteSet(S) /\ Cardinality(S) \in Nat /\ free \in Int
  BY <1>2, <1>6, Finite
<1> HIDE DEF S, R, free
<1>9. /\ IsFiniteSet(Admissible(d))
      /\ Cardinality(Admissible(d)) = IF free <= 0 THEN 0
                                      ELSE IF free <= Cardinality(S) THEN free ELSE Cardinality(S)
  BY <1>4, <1>7, <1>8, FirstOnes
<1> QED
  BY <1>8, <1>9 DEF free

-----------------------------------------------------------------------------
(* Admission.                                                              *)

\* A new row takes at most the place that Oldest made for it.
LEMMA InsertServes ==
  ASSUME NEW d \in Database, DatabaseInv(d), NEW e \in EpIds,
         d.owner[d.ep[e].rev] = None, Evictable(d) # {} \/ ~Full(d)
  PROVE  LET n == Insert(d, e, d.ep[e].rev)
         IN /\ Holds(d, n) /\ Stays(d, n) /\ Heard(n, e)
            /\ \A f \in EpIds : f # e /\ Heard(d, f) => Heard(n, f)
<1> DEFINE rev == d.ep[e].rev
           n == Insert(d, e, rev)
           out == IF Full(d) THEN Oldest(d, 1) ELSE {}
<1>1. rev \in Revs /\ None \notin EpIds /\ d.box[rev].state = "absent"
  <2>1. d.ep[e] \in Episode
    BY Parts
  <2> QED
    BY <2>1, BoundsAssumption, KeysAssumption DEF Episode, EpIds, DatabaseInv, RowsAreOwned
<1>2. /\ n.box = [r \in Revs |-> IF r = rev THEN NewRow(d, e, 0)
                                 ELSE IF r \in out THEN NoRow ELSE d.box[r]]
      /\ n.ep = [d.ep EXCEPT ![e] = [d.ep[e] EXCEPT !.intent = NoIntent]]
      /\ n.owner = [d.owner EXCEPT ![rev] = e] /\ n.limited = d.limited
  BY DEF Insert, Database
<1> HIDE DEF n
<1>3. \A r \in out : r \in Revs /\ d.box[r].state \in Settled
  BY DEF Oldest, Evictable
<1>4. /\ n.ep[e].intent.state = "none"
      /\ \A f \in EpIds : /\ n.ep[f].status = d.ep[f].status /\ n.ep[f].rev = d.ep[f].rev
                          /\ n.ep[f].corr = d.ep[f].corr /\ n.ep[f].ack = d.ep[f].ack
                          /\ n.ep[f].sev = d.ep[f].sev
                          /\ f # e => n.ep[f] = d.ep[f]
  BY <1>2, Parts DEF Episode, NoIntent
<1>5. \A r \in Revs : n.owner[r] = IF r = rev THEN e ELSE d.owner[r]
  BY <1>1, <1>2, Parts
<1>6. Flagged(d) => Flagged(n)
  BY <1>2, <1>4 DEF Flagged, PendingIntents
<1>7. Bounded(d) => Bounded(n)
  <2>1. Rows(n) = (Rows(d) \ out) \cup {rev}
    <3>1. NewRow(d, e, 0).state # "absent" /\ NoRow.state = "absent"
      BY DEF NewRow, NoRow
    <3>2. \A r \in Revs : n.box[r] = IF r = rev THEN NewRow(d, e, 0)
                                     ELSE IF r \in out THEN NoRow ELSE d.box[r]
      BY <1>2
    <3>3. \A r \in Revs : r \in Rows(n) <=> r = rev \/ (r \in Rows(d) /\ r \notin out)
      BY <1>1, <3>1, <3>2 DEF Rows
    <3> HIDE DEF out, rev
    <3> QED
      BY <1>1, <3>3 DEF Rows
  <2>2. out \in SUBSET Rows(d) /\ Rows(d) \in SUBSET Revs
    BY <1>3 DEF Rows, Settled
  <2>3. IsFiniteSet(Rows(d)) /\ Cardinality(Rows(d)) \in Nat /\ MAX_OUTBOX \in Nat \ {0}
    BY <2>2, Finite, BoundsAssumption
  <2>4. /\ IsFiniteSet(Rows(d) \ out) /\ Cardinality(out) \in Nat
        /\ Cardinality(Rows(d) \ out) = Cardinality(Rows(d)) - Cardinality(out)
    <3>1. Rows(d) \cap out = out /\ out \in SUBSET Revs
      BY <2>2
    <3> QED
      BY <2>3, <3>1, Finite, FS_Difference
  <2>5. Cardinality(Rows(n)) <= Cardinality(Rows(d)) - Cardinality(out) + 1
    <3> DEFINE S == Rows(d) \ out
    <3>1. Cardinality(S \cup {rev}) = IF rev \in S THEN Cardinality(S) ELSE Cardinality(S) + 1
      BY <2>4, FS_AddElement
    <3> HIDE DEF out, rev
    <3>2. Cardinality(S) = Cardinality(Rows(d)) - Cardinality(out) /\ Cardinality(S) \in Int
      BY <2>3, <2>4
    <3>3. Cardinality(Rows(n)) = Cardinality(S \cup {rev})
      BY <2>1
    <3> HIDE DEF S
    <3> QED
      BY <3>1, <3>2, <3>3
  <2>6. Full(d) => Cardinality(out) = 1
    <3>1. Full(d) => Cardinality(Evictable(d)) >= 1
      <4>1. Evictable(d) \in SUBSET Revs
        BY DEF Evictable
      <4>2. IsFiniteSet(Evictable(d)) /\ Cardinality(Evictable(d)) \in Nat
        BY <4>1, Finite
      <4> QED
        BY <4>2, FS_EmptySet
    <3> QED
      BY <3>1, OldestAre
  <2>7. Cardinality(Rows(n)) \in Nat
    <3>1. Rows(n) \in SUBSET Revs
      BY DEF Rows
    <3> QED
      BY <3>1, Finite
  <2> QED
    BY <2>3, <2>4, <2>5, <2>6, <2>7 DEF Bounded, Full
<1>8. Stays(d, n)
  <2>1. \A r \in Revs : d.box[r].state = "queued" => n.box[r] = d.box[r]
    BY <1>1, <1>2, <1>3 DEF Settled
  <2> QED
    BY <1>4, <2>1 DEF Stays, Gone
<1>9. Heard(n, e)
  BY <1>1, <1>4, <1>5 DEF Heard
<1>10. \A f \in EpIds : f # e /\ Heard(d, f) => Heard(n, f)
  <2>1. SUFFICES ASSUME NEW f \in EpIds, f # e, Heard(d, f) PROVE Heard(n, f)
    OBVIOUS
  <2>2. d.ep[f].rev \in Revs
    BY Parts DEF Episode
  <2>3. d.owner[d.ep[f].rev] # None => n.owner[d.ep[f].rev] # None
    BY <1>1, <1>5, <2>2
  <2>4. n.ep[f] = d.ep[f]
    BY <1>4, <2>1
  <2> HIDE DEF rev
  <2> QED
    BY <2>1, <2>3, <2>4 DEF Heard
<1> QED
  BY <1>6, <1>7, <1>8, <1>9, <1>10 DEF Holds, n

\* An intent that has to wait raises the flag.
LEMMA DeferServes ==
  ASSUME NEW d \in Database, DatabaseInv(d), NEW e \in EpIds
  PROVE  LET n == Defer(d, e, d.ep[e].rev)
         IN /\ Holds(d, n) /\ Stays(d, n) /\ Heard(n, e)
            /\ \A f \in EpIds : f # e /\ Heard(d, f) => Heard(n, f)
<1> DEFINE n == Defer(d, e, d.ep[e].rev)
           i == [state |-> IF d.enabled THEN "pending" ELSE "suppressed",
                 rev |-> d.ep[e].rev, setrev |-> d.setrev, age |-> 0]
<1>1. /\ n.ep = [d.ep EXCEPT ![e] = [d.ep[e] EXCEPT !.intent = i]]
      /\ n.box = d.box /\ n.owner = d.owner
      /\ n.limited = (d.limited \/ d.enabled)
  BY DEF Defer, Database
<1> HIDE DEF n
<1>2. /\ n.ep[e].intent = i
      /\ \A f \in EpIds : /\ n.ep[f].status = d.ep[f].status /\ n.ep[f].rev = d.ep[f].rev
                          /\ n.ep[f].corr = d.ep[f].corr /\ n.ep[f].ack = d.ep[f].ack
                          /\ n.ep[f].sev = d.ep[f].sev
                          /\ f # e => n.ep[f] = d.ep[f]
  BY <1>1, Parts DEF Episode
<1>3. Flagged(d) => Flagged(n)
  <2>1. d.limited \/ d.enabled => n.limited
    BY <1>1
  <2>2. ~d.enabled => n.ep[e].intent.state # "pending"
    BY <1>2
  <2> HIDE DEF i
  <2>3. ~d.enabled => PendingIntents(n) \subseteq PendingIntents(d)
    BY <1>2, <2>2 DEF PendingIntents
  <2> QED
    BY <2>1, <2>3 DEF Flagged
<1>4. Bounded(d) => Bounded(n)
  BY <1>1 DEF Bounded, Rows
<1>5. Stays(d, n)
  BY <1>1, <1>2 DEF Stays, Gone
<1>6. Heard(n, e)
  BY <1>2 DEF Heard
<1>7. \A f \in EpIds : f # e /\ Heard(d, f) => Heard(n, f)
  BY <1>1, <1>2 DEF Heard
<1> QED
  BY <1>3, <1>4, <1>5, <1>6, <1>7 DEF Holds, n

\* admit leaves its episode heard, and the bound and the flag true.
LEMMA AdmitServes ==
  ASSUME NEW d \in Database, DatabaseInv(d), NEW e \in EpIds,
         d.owner[d.ep[e].rev] = None
  PROVE  LET n == Admit(d, e, d.ep[e].rev)
         IN /\ Holds(d, n) /\ Stays(d, n) /\ Heard(n, e)
            /\ \A f \in EpIds : f # e /\ Heard(d, f) => Heard(n, f)
<1>1. d.box[d.ep[e].rev].state = "absent"
  BY Parts DEF RowsAreOwned, DatabaseInv, Episode
<1>2. CASE Full(d) /\ Evictable(d) = {}
  BY <1>1, <1>2, DeferServes DEF Admit
<1>3. CASE Evictable(d) # {} \/ ~Full(d)
  BY <1>1, <1>3, InsertServes DEF Admit
<1> QED
  BY <1>2, <1>3

\* retry_pending raises the flag for every intent it leaves, fills the outbox no further
\* than its bound, and takes an intent away only with a row, a withdrawal or a failure.
LEMMA RetryServes ==
  ASSUME NEW d \in Database, DatabaseInv(d)
  PROVE  LET n == RetryPending(d)
         IN Flagged(n) /\ Holds(d, n) /\ Stays(d, n) /\ AllHeard(d, n)
<1> DEFINE n == RetryPending(d)
           admitted == Admissible(d) \cap Reached(d)
           rowOf(r) == {e \in admitted : d.ep[e].intent.rev = r}
           the(r) == CHOOSE x \in rowOf(r) : TRUE
           new(r) == NewRow(d, the(r), d.ep[the(r)].intent.age)
           k == Cardinality(Rows(d)) + Cardinality(admitted) - MAX_OUTBOX
           evicted == Oldest(d, k)
<1>1. /\ n.box = [r \in Revs |-> IF rowOf(r) # {} THEN new(r)
                                 ELSE IF r \in evicted THEN NoRow ELSE d.box[r]]
      /\ n.owner = [r \in Revs |-> IF rowOf(r) # {} THEN the(r) ELSE d.owner[r]]
      /\ n.ep = [e \in EpIds |->
                   IF e \notin Reached(d) THEN d.ep[e]
                   ELSE IF Withdrawn(d, e) THEN [d.ep[e] EXCEPT !.intent.state = "suppressed"]
                   ELSE IF ExpiredIntent(d, e) THEN [d.ep[e] EXCEPT !.intent.state = "failed"]
                   ELSE [d.ep[e] EXCEPT !.intent = NoIntent]]
      /\ n.limited = (d.limited \/ PendingIntents(d) \ Reached(d) # {})
  BY DEF RetryPending, Database
<1>2. Kept(d, n)
  BY RetryPendingKeeps
<1> HIDE DEF n
<1>3. ASSUME NEW e \in EpIds
      PROVE  /\ n.ep[e].status = d.ep[e].status /\ n.ep[e].rev = d.ep[e].rev
             /\ n.ep[e].corr = d.ep[e].corr /\ n.ep[e].ack = d.ep[e].ack
             /\ n.ep[e].sev = d.ep[e].sev
             /\ \/ e \notin Reached(d) /\ n.ep[e] = d.ep[e]
                \/ /\ n.ep[e].intent.state \in {"suppressed", "failed"}
                   /\ n.ep[e].intent.rev = d.ep[e].intent.rev /\ e \in Reached(d)
                \/ /\ n.ep[e].intent.state = "none"
                   /\ e \in Reached(d) /\ ~Withdrawn(d, e) /\ ~ExpiredIntent(d, e)
  <2>1. d.ep[e] \in Episode /\ d.ep[e].intent \in Intent
    BY Parts
  <2>2. CASE e \notin Reached(d)
    BY <1>1, <2>2
  <2>3. CASE e \in Reached(d) /\ Withdrawn(d, e)
    <3>1. n.ep[e] = [d.ep[e] EXCEPT !.intent = [d.ep[e].intent EXCEPT !.state = "suppressed"]]
      BY <1>1, <2>1, <2>3 DEF Episode
    <3>2. /\ n.ep[e].status = d.ep[e].status /\ n.ep[e].rev = d.ep[e].rev
          /\ n.ep[e].corr = d.ep[e].corr /\ n.ep[e].ack = d.ep[e].ack
          /\ n.ep[e].sev = d.ep[e].sev
          /\ n.ep[e].intent = [d.ep[e].intent EXCEPT !.state = "suppressed"]
      BY <2>1, <3>1 DEF Episode
    <3>3. n.ep[e].intent.state = "suppressed" /\ n.ep[e].intent.rev = d.ep[e].intent.rev
      BY <2>1, <3>2 DEF Intent
    <3> QED
      BY <2>3, <3>2, <3>3
  <2>4. CASE e \in Reached(d) /\ ~Withdrawn(d, e) /\ ExpiredIntent(d, e)
    <3>1. n.ep[e] = [d.ep[e] EXCEPT !.intent = [d.ep[e].intent EXCEPT !.state = "failed"]]
      BY <1>1, <2>1, <2>4 DEF Episode
    <3>2. /\ n.ep[e].status = d.ep[e].status /\ n.ep[e].rev = d.ep[e].rev
          /\ n.ep[e].corr = d.ep[e].corr /\ n.ep[e].ack = d.ep[e].ack
          /\ n.ep[e].sev = d.ep[e].sev
          /\ n.ep[e].intent = [d.ep[e].intent EXCEPT !.state = "failed"]
      BY <2>1, <3>1 DEF Episode
    <3>3. n.ep[e].intent.state = "failed" /\ n.ep[e].intent.rev = d.ep[e].intent.rev
      BY <2>1, <3>2 DEF Intent
    <3> QED
      BY <2>4, <3>2, <3>3
  <2>5. CASE e \in Reached(d) /\ ~Withdrawn(d, e) /\ ~ExpiredIntent(d, e)
    <3>1. n.ep[e] = [d.ep[e] EXCEPT !.intent = NoIntent]
      BY <1>1, <2>5
    <3> QED
      BY <2>1, <2>5, <3>1 DEF Episode, NoIntent
  <2> QED
    BY <2>2, <2>3, <2>4, <2>5
<1>4. Flagged(n)
  <2>1. PendingIntents(n) \subseteq PendingIntents(d) \ Reached(d)
    BY <1>3 DEF PendingIntents
  <2>2. PendingIntents(d) \ Reached(d) # {} => n.limited
    BY <1>1
  <2> QED
    BY <2>1, <2>2 DEF Flagged
<1>5. ASSUME NEW r \in Revs, rowOf(r) # {}
      PROVE  the(r) \in admitted /\ d.ep[the(r)].intent.rev = r /\ d.owner[r] = None
  <2>1. the(r) \in admitted /\ d.ep[the(r)].intent.rev = r
    BY <1>5
  <2>2. the(r) \in EpIds /\ d.ep[the(r)].intent.state = "pending"
    BY <2>1 DEF Admissible, Wanting, PendingIntents
  <2> HIDE DEF the, admitted
  <2> QED
    BY <2>1, <2>2 DEF DatabaseInv, IntentIsCurrent
<1>6. \A r \in evicted : r \in Revs /\ d.box[r].state \in Settled
  BY DEF Oldest, Evictable
<1>7. Stays(d, n)
  <2>1. ASSUME NEW r \in Revs, d.box[r].state = "queued" PROVE n.box[r] = d.box[r]
    <3>1. d.owner[r] # None
      BY <2>1 DEF DatabaseInv, RowsAreOwned
    <3>2. rowOf(r) = {} /\ r \notin evicted
      BY <1>5, <1>6, <2>1, <3>1 DEF Settled
    <3> HIDE DEF rowOf, evicted
    <3> QED
      BY <1>1, <3>2
  <2> QED
    BY <1>3, <2>1 DEF Stays, Gone
<1>8. AllHeard(d, n)
  <2>1. SUFFICES ASSUME NEW e \in EpIds, Heard(d, e) PROVE Heard(n, e)
    BY DEF AllHeard
  <2>2. d.ep[e].rev \in Revs
    BY Parts DEF Episode
  <2>3. d.owner[d.ep[e].rev] # None => n.owner[d.ep[e].rev] # None
    BY <1>2, <2>2 DEF Kept, RowsMove, RowMove
  <2>4. CASE n.ep[e].intent.state = "none" /\ e \in Reached(d) /\ ~Withdrawn(d, e)
             /\ ~ExpiredIntent(d, e)
    <3>1. d.ep[e].intent.state = "pending"
      BY <2>4 DEF Reached, PendingIntents
    <3>2. d.ep[e].intent.rev = d.ep[e].rev
      BY <3>1 DEF DatabaseInv, IntentIsCurrent
    <3>3. CASE e \in Wanting(d)
      <4>1. e \in Admissible(d)
        <5>1. ~OlderIntent(d, e, e)
          <6>1. d.ep[e].intent.age \in Nat /\ e \in Nat
            BY Parts, BoundsAssumption DEF Intent, Ages, EpIds
          <6> QED
            BY <6>1 DEF OlderIntent
        <5> QED
          BY <2>4, <3>3, <5>1 DEF Reached
      <4>2. rowOf(d.ep[e].rev) # {}
        BY <2>4, <3>2, <4>1
      <4>3. the(d.ep[e].rev) \in EpIds
        BY <1>5, <2>2, <4>2 DEF Admissible, Wanting, PendingIntents
      <4>4. None \notin EpIds
        BY BoundsAssumption, KeysAssumption DEF EpIds
      <4>5. n.owner[d.ep[e].rev] # None
        <5> HIDE DEF the, rowOf
        <5> QED
          BY <1>1, <2>2, <4>2, <4>3, <4>4
      <4> QED
        BY <1>3, <4>5 DEF Heard
    <3>4. CASE e \notin Wanting(d)
      <4>1. d.box[d.ep[e].rev].state # "absent"
        BY <2>4, <3>1, <3>2, <3>4 DEF Wanting, PendingIntents
      <4>2. d.owner[d.ep[e].rev] # None
        BY <2>2, <4>1 DEF DatabaseInv, RowsAreOwned
      <4> QED
        BY <1>3, <2>3, <4>2 DEF Heard
    <3> QED
      BY <3>3, <3>4
  <2>5. CASE e \notin Reached(d) /\ n.ep[e] = d.ep[e]
    BY <2>1, <2>3, <2>5 DEF Heard
  <2>6. CASE /\ n.ep[e].intent.state \in {"suppressed", "failed"}
             /\ n.ep[e].intent.rev = d.ep[e].intent.rev /\ e \in Reached(d)
    <3>1. d.ep[e].intent.rev = d.ep[e].rev
      BY <2>6 DEF Reached, PendingIntents, DatabaseInv, IntentIsCurrent
    <3> QED
      BY <1>3, <2>6, <3>1 DEF Heard
  <2> QED
    BY <1>3, <2>4, <2>5, <2>6
<1>9. Bounded(d) => Bounded(n)
  <2> DEFINE new_rows == {r \in Revs : rowOf(r) # {}}
             R == Cardinality(Rows(d))
             A == Cardinality(admitted)
             E == Cardinality(Evictable(d))
             O == Cardinality(evicted)
  <2>1. Rows(n) \in SUBSET ((Rows(d) \ evicted) \cup new_rows)
    <3>1. ASSUME NEW r \in Rows(n), r \notin new_rows PROVE r \in Rows(d) /\ r \notin evicted
      <4>1. r \in Revs /\ n.box[r].state # "absent" /\ rowOf(r) = {}
        BY <3>1 DEF Rows
      <4> HIDE DEF rowOf, evicted
      <4> QED
        BY <1>1, <4>1 DEF Rows, NoRow
    <3> QED
      BY <3>1
  <2>2. admitted \in SUBSET EpIds /\ admitted \in SUBSET Admissible(d)
    BY DEF Admissible, Wanting, PendingIntents
  <2>3. IsFiniteSet(admitted) /\ A \in Nat /\ IsFiniteSet(new_rows) /\ Cardinality(new_rows) \in Nat
    BY <2>2, Finite
  <2>4. Cardinality(new_rows) <= A
    <3> DEFINE f == [e \in admitted |-> d.ep[e].intent.rev]
    <3>1. \A e \in admitted : d.ep[e].intent.rev \in Revs
      BY <2>2, Parts DEF Intent
    <3>2. f \in [admitted -> new_rows] /\ \A r \in new_rows : \E e \in admitted : f[e] = r
      BY <3>1
    <3> HIDE DEF f, new_rows, admitted
    <3>3. f \in Surjection(admitted, new_rows)
      BY <3>2 DEF Surjection
    <3> QED
      BY <2>3, <3>3, FS_Surjection
  <2>5. R \in Nat /\ E \in Nat /\ IsFiniteSet(Rows(d)) /\ MAX_OUTBOX \in Nat
    BY Finite, BoundsAssumption DEF Rows, Evictable
  <2>6. O = IF k <= 0 THEN 0 ELSE IF k <= E THEN k ELSE E
    <3>1. k \in Int
      BY <2>3, <2>5
    <3> HIDE DEF k
    <3> QED
      BY <3>1, OldestAre
  <2>7. A <= IF MAX_OUTBOX + E - R <= 0 THEN 0 ELSE MAX_OUTBOX + E - R
    <3>1. IsFiniteSet(Admissible(d)) /\ Cardinality(Admissible(d)) \in Nat
      BY AdmissibleAre, FS_CardinalityType
    <3>2. A <= Cardinality(Admissible(d))
      BY <2>2, <3>1, FS_Subset
    <3>3. Cardinality(Admissible(d)) <= IF MAX_OUTBOX + E - R <= 0 THEN 0 ELSE MAX_OUTBOX + E - R
      BY AdmissibleAre
    <3> HIDE DEF A, E, R
    <3> QED
      BY <2>3, <2>5, <3>1, <3>2, <3>3
  <2>8. /\ IsFiniteSet(Rows(d) \ evicted) /\ O \in Nat
        /\ Cardinality(Rows(d) \ evicted) = R - O
    <3>1. Rows(d) \cap evicted = evicted /\ evicted \in SUBSET Revs
      BY <1>6 DEF Rows, Settled
    <3> HIDE DEF evicted
    <3> QED
      BY ZenonT(40), <2>5, <3>1, Finite, FS_Difference
  <2>9. Cardinality(Rows(n)) <= R - O + Cardinality(new_rows) /\ Cardinality(Rows(n)) \in Nat
    <3> DEFINE S == Rows(d) \ evicted
    <3> HIDE DEF new_rows, evicted
    <3>1. /\ IsFiniteSet(S \cup new_rows)
          /\ Cardinality(S \cup new_rows)
               = Cardinality(S) + Cardinality(new_rows) - Cardinality(S \cap new_rows)
      BY <2>3, <2>8, FS_Union
    <3>2. Cardinality(S \cap new_rows) \in Nat
      BY <2>3, FS_Intersection, FS_CardinalityType
    <3>3. Cardinality(Rows(n)) <= Cardinality(S \cup new_rows)
      BY <2>1, <3>1, FS_Subset
    <3>4. Cardinality(Rows(n)) \in Nat
      BY Finite DEF Rows
    <3>5. Cardinality(S) = R - O /\ Cardinality(S) \in Nat
      BY <2>8, FS_CardinalityType
    <3> HIDE DEF S, R, O
    <3> QED
      BY <2>3, <3>1, <3>2, <3>3, <3>4, <3>5
  <2> HIDE DEF R, A, E, O, new_rows
  <2>10. k = R + A - MAX_OUTBOX
    BY DEF R, A
  <2> HIDE DEF k
  <2> QED
    <3>1. Bounded(d) => R <= MAX_OUTBOX
      BY DEF Bounded, R
    <3> QED
      BY <2>3, <2>4, <2>5, <2>6, <2>7, <2>8, <2>9, <2>10, <3>1 DEF Bounded
<1> QED
  BY <1>4, <1>7, <1>8, <1>9 DEF Holds, n

-----------------------------------------------------------------------------
(* The handlers.                                                           *)

\* What an operator serves: the bound, the flag, the queued rows and the open concerns.
Serves(d, n) == Holds(d, n) /\ Stays(d, n) /\ AllHeard(d, n)

\* Operators that serve serve in turn.
LEMMA ServesTransitive ==
  ASSUME NEW d \in Database, NEW m, NEW n, Serves(d, m), Serves(m, n)
  PROVE  Serves(d, n)
<1>1. Holds(d, n) /\ AllHeard(d, n)
  BY DEF Serves, Holds, AllHeard
<1>2. \A r \in Revs : d.box[r].ep \in EpIds
  BY Parts DEF Row
<1>3. Stays(d, n)
  <2>1. Stays(d, m) /\ Stays(m, n)
    BY DEF Serves
  <2>2. \A e \in EpIds : Gone(d, e) => Gone(n, e)
    BY <2>1 DEF Stays
  <2>3. ASSUME NEW r \in Revs, d.box[r].state = "queued"
        PROVE  n.box[r] = d.box[r] \/ Gone(n, d.box[r].ep)
    <3>1. m.box[r] = d.box[r] \/ Gone(m, d.box[r].ep)
      BY <2>1, <2>3 DEF Stays
    <3>2. CASE m.box[r] = d.box[r]
      BY <2>1, <2>3, <3>2 DEF Stays
    <3>3. CASE Gone(m, d.box[r].ep)
      BY <1>2, <2>1, <3>3 DEF Stays
    <3> QED
      BY <3>1, <3>2, <3>3
  <2> QED
    BY <2>2, <2>3 DEF Stays
<1> QED
  BY <1>1, <1>3 DEF Serves

\* A change of one episode that keeps its intent, and that does not reopen it, is served
\* once the episode itself is heard.
LEMMA ChangedServes ==
  ASSUME NEW d \in Database, NEW e \in EpIds, NEW x, NEW n \in Database,
         n.ep = [d.ep EXCEPT ![e] = x], n.box = d.box, n.owner = d.owner,
         d.limited => n.limited, x.intent = d.ep[e].intent,
         Gone(d, e) => x.status \in {"resolved", "deleted"}
  PROVE  /\ Holds(d, n) /\ Stays(d, n) /\ n.ep[e] = x
         /\ \A f \in EpIds : f # e /\ Heard(d, f) => Heard(n, f)
<1>1. n.ep[e] = x /\ \A f \in EpIds : f # e => n.ep[f] = d.ep[f]
  BY Parts
<1>2. Holds(d, n)
  BY <1>1 DEF Holds, Flagged, Bounded, PendingIntents, Rows
<1>3. Stays(d, n)
  BY <1>1 DEF Stays, Gone
<1>4. \A f \in EpIds : f # e /\ Heard(d, f) => Heard(n, f)
  BY <1>1 DEF Heard
<1> QED
  BY <1>1, <1>2, <1>3, <1>4

\* cancel_intent only takes intents away from the pending ones, and marks them.
LEMMA CancelServes ==
  ASSUME NEW d \in Database, NEW S
  PROVE  LET n == CancelIntent(d, S)
         IN /\ n \in Database /\ Holds(d, n) /\ Stays(d, n)
            /\ n.box = d.box /\ n.limited = d.limited
            /\ \A e \in EpIds : /\ n.ep[e].status = d.ep[e].status
                                /\ n.ep[e].sev = d.ep[e].sev /\ n.ep[e].ack = d.ep[e].ack
                                /\ n.ep[e].rev = d.ep[e].rev /\ n.ep[e].corr = d.ep[e].corr
                                /\ Heard(d, e) => Heard(n, e)
<1> DEFINE n == CancelIntent(d, S)
<1>1. ASSUME NEW e \in EpIds
      PROVE  \E i \in Intent :
               /\ n.ep[e] = [d.ep[e] EXCEPT !.intent = i]
               /\ i.rev = d.ep[e].intent.rev
               /\ \/ i.state = d.ep[e].intent.state
                  \/ d.ep[e].intent.state = "pending" /\ i.state = "suppressed"
  <2>1. d.ep[e] \in Episode /\ d.ep[e].intent \in Intent
    BY Parts
  <2> DEFINE j == [d.ep[e].intent EXCEPT !.state = "suppressed"]
  <2>2. j \in Intent /\ j.rev = d.ep[e].intent.rev /\ j.state = "suppressed"
    BY <2>1 DEF Intent
  <2>3. /\ [d.ep[e] EXCEPT !.intent.state = "suppressed"] = [d.ep[e] EXCEPT !.intent = j]
        /\ d.ep[e] = [d.ep[e] EXCEPT !.intent = d.ep[e].intent]
    BY <2>1 DEF Episode
  <2>4. n.ep[e] = IF e \in S /\ d.ep[e].intent.state = "pending"
                  THEN [d.ep[e] EXCEPT !.intent.state = "suppressed"] ELSE d.ep[e]
    BY DEF CancelIntent, Database
  <2> HIDE DEF j, n
  <2> QED
    BY <2>1, <2>2, <2>3, <2>4
<1>2. n.box = d.box /\ n.owner = d.owner /\ n.limited = d.limited
  BY DEF CancelIntent, Database
<1>3. n \in Database
  <2>1. ASSUME NEW e \in EpIds PROVE n.ep[e] \in Episode
    <3>1. PICK i \in Intent : n.ep[e] = [d.ep[e] EXCEPT !.intent = i]
      BY <1>1
    <3>2. d.ep[e] \in Episode
      BY Parts
    <3> HIDE DEF n
    <3> QED
      BY <3>1, <3>2 DEF Episode
  <2>2. n.ep = [e \in EpIds |-> n.ep[e]] /\ n = [d EXCEPT !.ep = n.ep]
    BY DEF CancelIntent, Database
  <2> HIDE DEF n
  <2> QED
    BY <2>1, <2>2 DEF Database
<1> HIDE DEF n
<1>4. ASSUME NEW e \in EpIds
      PROVE  /\ n.ep[e].status = d.ep[e].status
             /\ n.ep[e].sev = d.ep[e].sev /\ n.ep[e].ack = d.ep[e].ack
             /\ n.ep[e].rev = d.ep[e].rev /\ n.ep[e].corr = d.ep[e].corr
             /\ n.ep[e].intent.rev = d.ep[e].intent.rev
             /\ \/ n.ep[e].intent.state = d.ep[e].intent.state
                \/ d.ep[e].intent.state = "pending" /\ n.ep[e].intent.state = "suppressed"
  <2>1. PICK i \in Intent :
          /\ n.ep[e] = [d.ep[e] EXCEPT !.intent = i]
          /\ i.rev = d.ep[e].intent.rev
          /\ \/ i.state = d.ep[e].intent.state
             \/ d.ep[e].intent.state = "pending" /\ i.state = "suppressed"
    BY <1>1
  <2>2. d.ep[e] \in Episode
    BY Parts
  <2>3. n.ep[e].intent = i
    BY <2>1, <2>2 DEF Episode
  <2> QED
    BY <2>1, <2>2, <2>3 DEF Episode
<1>5. \A e \in EpIds : Heard(d, e) => Heard(n, e)
  <2>1. SUFFICES ASSUME NEW e \in EpIds, Heard(d, e) PROVE Heard(n, e)
    OBVIOUS
  <2> QED
    BY <1>2, <1>4, <2>1 DEF Heard
<1>6. Holds(d, n)
  <2>1. PendingIntents(n) \subseteq PendingIntents(d)
    BY <1>4 DEF PendingIntents
  <2> QED
    BY <1>2, <2>1 DEF Holds, Flagged, Bounded, Rows
<1>7. Stays(d, n)
  BY <1>2, <1>4 DEF Stays, Gone
<1> QED
  BY <1>2, <1>3, <1>4, <1>5, <1>6, <1>7 DEF n

\* The suppression of the rows of recovered episodes.
LEMMA SuppressServes ==
  ASSUME NEW d \in Database, NEW S
  PROVE  LET n == SuppressQueued(d, S)
         IN /\ n.ep = d.ep /\ n.limited = d.limited /\ n.owner = d.owner
            /\ Rows(n) = Rows(d) /\ Holds(d, n)
            /\ \A e \in EpIds : Heard(d, e) => Heard(n, e)
            /\ (\A e \in S : Gone(d, e)) => Stays(d, n)
<1> DEFINE n == SuppressQueued(d, S)
<1>1. /\ n.ep = d.ep /\ n.limited = d.limited /\ n.owner = d.owner
      /\ n.box = [r \in Revs |-> IF d.box[r].ep \in S /\ d.box[r].state = "queued"
                                 THEN [d.box[r] EXCEPT !.state = "suppressed"]
                                 ELSE d.box[r]]
  BY DEF SuppressQueued, Database
<1> HIDE DEF n
<1>2. \A r \in Revs : \/ n.box[r] = d.box[r]
                      \/ /\ d.box[r].state = "queued" /\ d.box[r].ep \in S
                         /\ n.box[r].state = "suppressed"
  BY <1>1, Parts DEF Row
<1>3. Rows(n) = Rows(d)
  BY <1>2 DEF Rows
<1>4. Holds(d, n)
  BY <1>1, <1>3 DEF Holds, Flagged, Bounded, PendingIntents
<1>5. \A e \in EpIds : Heard(d, e) => Heard(n, e)
  BY <1>1 DEF Heard
<1>6. (\A e \in S : Gone(d, e)) => Stays(d, n)
  BY <1>1, <1>2 DEF Stays, Gone
<1> QED
  BY <1>1, <1>3, <1>4, <1>5, <1>6 DEF n

\* The hand-over of a notification to a follower.
LEMMA HandOverServes ==
  ASSUME NEW d \in Database, DatabaseInv(d), NEW e \in EpIds
  PROVE  Serves(d, HandOver(d, e))
<1> DEFINE f == First(Followers(d, e))
           x == [d.ep[f] EXCEPT !.corr = None, !.from = e]
           y == [d.ep[f] EXCEPT !.tp = TransferOf(d, e, f)]
           R == d.relieved \cup {e}
           taken == [d EXCEPT !.ep[f] = x, !.relieved = R]
           handed == [d EXCEPT !.ep[f] = y, !.relieved = R]
<1>1. CASE Followers(d, e) = {}
  BY <1>1 DEF HandOver, Serves, Holds, Stays, AllHeard
<1>2. CASE Followers(d, e) # {}
  <2>1. /\ f \in EpIds /\ d.ep[f].status = "open" /\ ~d.ep[f].ack /\ d.ep[f].corr = e
        /\ d.owner[d.ep[f].rev] = None /\ e # None
    BY <1>2, FollowersAre
  <2>2. HandOver(d, e) = IF d.ep[f].key \in Presence THEN handed
                         ELSE Admit(taken, f, d.ep[f].rev)
    BY <1>2 DEF HandOver
  <2>0. R \in SUBSET EpIds
    BY Parts
  <2> HIDE DEF f, R
  <2>3. d.ep[f] \in Episode /\ d.ep[f].intent \in Intent
    BY <2>1, Parts
  <2>4. TransferOf(d, e, f) \in Transfer
    BY <2>3, Parts, BoundsAssumption DEF TransferOf, Transfer, Episode, Ages
  <2>5. x \in Episode /\ y \in Episode
    BY <2>3, <2>4 DEF Episode
  <2>6. /\ x.rev = d.ep[f].rev /\ x.status = d.ep[f].status /\ x.ack = d.ep[f].ack
        /\ x.intent = d.ep[f].intent /\ x.corr = None /\ x.tp = d.ep[f].tp
        /\ y.rev = d.ep[f].rev /\ y.status = d.ep[f].status /\ y.ack = d.ep[f].ack
        /\ y.intent = d.ep[f].intent /\ y.corr = d.ep[f].corr /\ y.key = d.ep[f].key
    BY <2>3 DEF Episode
  <2>7. /\ taken.ep = [d.ep EXCEPT ![f] = x] /\ taken.box = d.box /\ taken.owner = d.owner
        /\ taken.limited = d.limited /\ taken \in Database
        /\ handed.ep = [d.ep EXCEPT ![f] = y] /\ handed.box = d.box /\ handed.owner = d.owner
        /\ handed.limited = d.limited /\ handed \in Database
    BY <2>0, <2>1, <2>5, Parts DEF Database
  <2>8. CASE d.ep[f].key \in Presence
    <3> HIDE DEF y, handed
    <3>1. /\ Holds(d, handed) /\ Stays(d, handed) /\ handed.ep[f] = y
          /\ \A g \in EpIds : g # f /\ Heard(d, g) => Heard(handed, g)
      BY <2>1, <2>6, <2>7, ChangedServes DEF Gone
    <3>2. Heard(handed, f)
      BY <2>1, <2>6, <3>1 DEF Heard
    <3> QED
      BY <2>2, <2>8, <3>1, <3>2 DEF Serves, AllHeard
  <2>9. CASE d.ep[f].key \notin Presence
    <3>1. x.tp = None
      BY <2>1, <2>6, <2>9 DEF DatabaseInv, MutedIsUnannounced
    <3>2. Kept(d, taken)
      BY <2>0, <2>1, <2>5, <2>6, <3>1, TouchKeeps
    <3> HIDE DEF x, taken
    <3>3. /\ Holds(d, taken) /\ Stays(d, taken) /\ taken.ep[f] = x
          /\ \A g \in EpIds : g # f /\ Heard(d, g) => Heard(taken, g)
      BY <2>1, <2>6, <2>7, ChangedServes DEF Gone
    <3> DEFINE n == Admit(taken, f, taken.ep[f].rev)
    <3>4. /\ Holds(taken, n) /\ Stays(taken, n) /\ Heard(n, f)
          /\ \A g \in EpIds : g # f /\ Heard(taken, g) => Heard(n, g)
      BY <2>1, <2>6, <2>7, <3>2, <3>3, AdmitServes DEF Kept
    <3>5. HandOver(d, e) = n
      BY <2>2, <2>6, <2>9, <3>3
    <3> HIDE DEF n
    <3>6. AllHeard(d, n)
      BY <3>3, <3>4 DEF AllHeard
    <3>7. Stays(d, n)
      <4>1. \A r \in Revs : taken.box[r] = d.box[r]
        BY <2>7
      <4> QED
        BY <3>3, <3>4, <4>1 DEF Stays
    <3> QED
      BY <3>3, <3>4, <3>5, <3>6, <3>7 DEF Serves, Holds
  <2> QED
    BY <2>8, <2>9
<1> QED
  BY <1>1, <1>2

\* A fresh recovery.
LEMMA RecoverServes ==
  ASSUME NEW d \in Database, DatabaseInv(d), NEW e \in EpIds,
         d.ep[e].status = "open", d.nextRev \in Revs
  PROVE  Serves(d, Recover(d, e))
<1> DEFINE x == [d.ep[e] EXCEPT !.status = "resolved", !.rev = d.nextRev, !.ack = FALSE,
                                !.epoch = None, !.corr = None, !.tp = None, !.from = None]
           m == Closed(d, e)
           c == CancelIntent(m, {e})
           w == SuppressQueued(c, {e})
<1>1. m \in Database /\ Kept(d, w)
  BY RecoverKeeps
<1>2. /\ m.ep = [d.ep EXCEPT ![e] = x] /\ m.box = d.box /\ m.owner = d.owner
      /\ m.limited = d.limited
  BY DEF Closed, Database
<1>3. x.intent = d.ep[e].intent /\ x.status = "resolved"
  BY Parts DEF Episode
<1>4. Recover(d, e) = IF AwaitsDelivery(d, e) THEN HandOver(w, e) ELSE w
  BY DEF Recover
<1> HIDE DEF x, m
<1>5. /\ Holds(d, m) /\ Stays(d, m) /\ m.ep[e] = x
      /\ \A f \in EpIds : f # e /\ Heard(d, f) => Heard(m, f)
  <2>1. Gone(d, e) => x.status \in {"resolved", "deleted"}
    BY <1>3
  <2>2. d.limited => m.limited
    BY <1>2
  <2> QED
    BY <1>1, <1>2, <1>3, <2>1, <2>2, ChangedServes
<1>6. Serves(d, m)
  <2>1. Heard(m, e)
    BY <1>3, <1>5 DEF Heard
  <2> QED
    BY <1>5, <2>1 DEF Serves, AllHeard
<1>7. c \in Database /\ Serves(m, c) /\ c.ep[e].status = "resolved"
  BY <1>1, <1>3, <1>5, CancelServes DEF Serves, AllHeard
<1> HIDE DEF c
<1>8. Serves(c, w)
  BY <1>7, SuppressServes DEF Serves, AllHeard, Gone
<1> HIDE DEF w
<1>9. Serves(d, w)
  BY <1>1, <1>6, <1>7, <1>8, ServesTransitive
<1>10. Serves(d, HandOver(w, e))
  BY <1>1, <1>9, HandOverServes, ServesTransitive DEF Kept
<1> QED
  BY <1>4, <1>9, <1>10

\* An opening or a change of severity: notified, or correlated, or of no concern.
LEMMA ReopenServes ==
  ASSUME NEW d \in Database, DatabaseInv(d), NEW e \in EpIds, NEW c \in Condition,
         e <= d.nextEp, d.nextRev \in Revs, d.ep[e].status \in {"open", "unused"}
  PROVE  Serves(d, Reopen(d, e, c))
<1> DEFINE x == [d.ep[e] EXCEPT !.key = c.key, !.status = "open", !.sev = SevOf(d, e, c),
                                !.rev = d.nextRev, !.ack = FALSE, !.epoch = c.epoch,
                                !.corr = CorrOf(d, e, c), !.tp = None, !.from = None]
           m == Opened(d, e, c)
           told == CancelIntent(m, {e})
           warns == CorrOf(d, e, c) = None /\ SevOf(d, e, c) \in {"warning", "critical"}
           n == Admit(told, e, told.ep[e].rev)
<1>1. /\ m \in Database /\ Kept(d, told) /\ told.owner[told.ep[e].rev] = None
      /\ Reopen(d, e, c) = IF warns THEN n ELSE told
  BY ReopenKeeps
<1>2. /\ m.ep = [d.ep EXCEPT ![e] = x] /\ m.box = d.box /\ m.owner = d.owner
      /\ m.limited = d.limited
  BY DEF Opened, Database
<1>3. x.intent = d.ep[e].intent /\ x.sev = SevOf(d, e, c) /\ x.corr = CorrOf(d, e, c)
  BY Parts DEF Episode
<1>4. Gone(d, e) => x.status \in {"resolved", "deleted"}
  BY DEF Gone
<1> HIDE DEF x, m
<1>5. /\ Holds(d, m) /\ Stays(d, m) /\ m.ep[e] = x
      /\ \A f \in EpIds : f # e /\ Heard(d, f) => Heard(m, f)
  <2>1. d.limited => m.limited
    BY <1>2
  <2> QED
    BY <1>1, <1>2, <1>3, <1>4, <2>1, ChangedServes
<1>6. /\ Holds(m, told) /\ Stays(m, told) /\ told.box = m.box
      /\ \A f \in EpIds : Heard(m, f) => Heard(told, f)
      /\ told.ep[e].sev = x.sev /\ told.ep[e].corr = x.corr
  BY <1>1, <1>5, CancelServes
<1> HIDE DEF told
<1>7. Holds(d, told) /\ Stays(d, told)
  <2>1. told.box = d.box
    BY <1>2, <1>6
  <2> QED
    BY <1>5, <1>6, <2>1 DEF Holds, Stays
<1>8. CASE warns
  <2>1. /\ Holds(told, n) /\ Stays(told, n) /\ Heard(n, e)
        /\ \A f \in EpIds : f # e /\ Heard(told, f) => Heard(n, f)
    BY <1>1, AdmitServes DEF Kept
  <2> HIDE DEF n
  <2>2. AllHeard(d, n)
    BY <1>5, <1>6, <2>1 DEF AllHeard
  <2>3. Stays(d, n)
    <3>1. told.box = d.box
      BY <1>2, <1>6
    <3> QED
      BY <1>7, <2>1, <3>1 DEF Stays
  <2> QED
    BY <1>1, <1>7, <1>8, <2>1, <2>2, <2>3 DEF Serves, Holds
<1>9. CASE ~warns
  <2>1. Heard(told, e)
    BY <1>3, <1>6, <1>9 DEF Heard
  <2> QED
    BY <1>1, <1>5, <1>6, <1>7, <1>9, <2>1 DEF Serves, AllHeard
<1> QED
  BY <1>8, <1>9

\* An observation without a transition, or one that redeems a transfer.
LEMMA RefreshServes ==
  ASSUME NEW d \in Database, DatabaseInv(d), NEW e \in EpIds, NEW c \in Condition,
         d.ep[e].status = "open", ~Transition(d, e, c)
  PROVE  Serves(d, Refresh(d, e, c))
<1> DEFINE old == d.ep[e]
           sev == IF c.fresh THEN c.sev ELSE old.sev
           x == [old EXCEPT !.sev = sev, !.epoch = c.epoch]
           y == [old EXCEPT !.sev = sev, !.epoch = c.epoch, !.tp = None, !.corr = None,
                            !.from = old.tp.from]
           seen == [d EXCEPT !.ep[e] = x]
           redeemed == [d EXCEPT !.ep[e] = y]
<1>1. old \in Episode /\ c.epoch \in Epochs \cup {None} /\ sev = old.sev
  <2>1. old \in Episode
    BY Parts
  <2> QED
    BY <2>1 DEF Transition, Condition
<1>2. Refresh(d, e, c) = IF Redeems(d, e, c) THEN Admit(redeemed, e, old.rev) ELSE seen
  BY DEF Refresh
<1> HIDE DEF sev
<1>3. /\ x \in Episode /\ x.rev = old.rev /\ x.status = old.status /\ x.ack = old.ack
      /\ x.intent = old.intent /\ x.corr = old.corr /\ x.sev = old.sev
  BY <1>1 DEF Episode
<1>4. ~Gone(d, e)
  BY DEF Gone
<1>5. Serves(d, seen)
  <2>1. /\ seen.ep = [d.ep EXCEPT ![e] = x] /\ seen.box = d.box /\ seen.owner = d.owner
        /\ seen.limited = d.limited /\ seen \in Database
    BY <1>3, Parts DEF Database
  <2> HIDE DEF x, seen
  <2>2. /\ Holds(d, seen) /\ Stays(d, seen) /\ seen.ep[e] = x
        /\ \A f \in EpIds : f # e /\ Heard(d, f) => Heard(seen, f)
    <3>1. d.limited => seen.limited
      BY <2>1
    <3> QED
      BY <1>3, <1>4, <2>1, <3>1, ChangedServes
  <2>3. Heard(d, e) => Heard(seen, e)
    BY <1>3, <2>1, <2>2 DEF Heard
  <2> QED
    BY <2>2, <2>3 DEF Serves, AllHeard
<1>6. ASSUME Redeems(d, e, c)
      PROVE  Serves(d, Admit(redeemed, e, old.rev))
  <2>1. old.tp \in Transfer /\ old.tp # None /\ ~old.ack
    BY <1>1, <1>6 DEF Redeems, Episode
  <2>2. old.tp.from \in EpIds
    BY <2>1 DEF Transfer
  <2>3. /\ y \in Episode /\ y.rev = old.rev /\ y.status = old.status /\ y.ack = old.ack
        /\ y.intent = old.intent /\ y.corr = None /\ y.tp = None /\ y.sev = old.sev
    BY <1>1, <2>2 DEF Episode
  <2>4. d.owner[old.rev] = None
    BY <2>1 DEF DatabaseInv, MutedIsUnannounced
  <2> HIDE DEF y
  <2>5. Kept(d, redeemed)
    BY <1>4, <2>3, TouchKeeps DEF Gone
  <2>6. /\ redeemed.ep = [d.ep EXCEPT ![e] = y] /\ redeemed.box = d.box
        /\ redeemed.owner = d.owner /\ redeemed.limited = d.limited
    BY DEF Database
  <2> HIDE DEF redeemed
  <2>7. /\ Holds(d, redeemed) /\ Stays(d, redeemed) /\ redeemed.ep[e] = y
        /\ \A f \in EpIds : f # e /\ Heard(d, f) => Heard(redeemed, f)
    <3>1. d.limited => redeemed.limited
      BY <2>6
    <3> QED
      BY <1>4, <2>3, <2>5, <2>6, <3>1, ChangedServes DEF Kept
  <2> DEFINE n == Admit(redeemed, e, redeemed.ep[e].rev)
  <2>8. /\ Holds(redeemed, n) /\ Stays(redeemed, n) /\ Heard(n, e)
        /\ \A f \in EpIds : f # e /\ Heard(redeemed, f) => Heard(n, f)
    BY <2>3, <2>4, <2>5, <2>6, <2>7, AdmitServes DEF Kept
  <2>9. Admit(redeemed, e, old.rev) = n
    BY <2>3, <2>7
  <2> HIDE DEF n
  <2>10. AllHeard(d, n)
    BY <2>7, <2>8 DEF AllHeard
  <2>11. Stays(d, n)
    BY <2>6, <2>7, <2>8 DEF Stays
  <2> QED
    BY <2>7, <2>8, <2>9, <2>10, <2>11 DEF Serves, Holds
<1> QED
  BY <1>2, <1>5, <1>6

\* observe_condition, whichever branch it takes.
LEMMA ObserveServes ==
  ASSUME NEW d \in Database, DatabaseInv(d), NEW c \in Condition,
         d.nextEp \in EpIds, d.nextRev \in Revs
  PROVE  Serves(d, Observe(d, c))
<1> DEFINE open == OpenEpisodes(d, c.key)
           e == IF open = {} THEN d.nextEp ELSE First(open)
           flagged == [d EXCEPT !.limited = TRUE]
<1>1. open # {} => e \in EpIds /\ d.ep[e].status = "open"
  <2>1. open \in SUBSET EpIds
    BY DEF OpenEpisodes
  <2>2. open # {} => e \in open
    BY <2>1, FirstIsIn
  <2> QED
    BY <2>2 DEF OpenEpisodes
<1>2. e \in EpIds /\ e <= d.nextEp /\ d.ep[e].status \in {"open", "unused"}
  BY <1>1, Parts, BoundsAssumption DEF EpIds, DatabaseInv, Fresh
<1>3. Serves(d, d)
  BY DEF Serves, Holds, Stays, AllHeard
<1>4. Serves(d, flagged)
  <2>1. /\ flagged.ep = d.ep /\ flagged.box = d.box /\ flagged.owner = d.owner
        /\ flagged.limited
    BY DEF Database
  <2> HIDE DEF flagged
  <2> QED
    BY <2>1 DEF Serves, Holds, Stays, AllHeard, Heard, Gone, Flagged, Bounded, Rows
<1>5. open # {} => Serves(d, Recover(d, e))
  BY <1>1, RecoverServes
<1>6. Serves(d, Reopen(d, e, c))
  BY <1>2, ReopenServes
<1>7. open # {} /\ ~Transition(d, e, c) => Serves(d, Refresh(d, e, c))
  BY <1>1, RefreshServes
<1>8. \/ Observe(d, c) = d \/ Observe(d, c) = flagged
      \/ open # {} /\ Observe(d, c) = Recover(d, e)
      \/ Observe(d, c) = Reopen(d, e, c)
      \/ open # {} /\ ~Transition(d, e, c) /\ Observe(d, c) = Refresh(d, e, c)
  BY DEF Observe
<1> HIDE DEF open, e, flagged
<1> QED
  BY <1>3, <1>4, <1>5, <1>6, <1>7, <1>8

\* acknowledge suppresses, and removes no row.
LEMMA AcknowledgeServes ==
  ASSUME NEW d \in Database, NEW e \in EpIds, d.ep[e].status = "open", d.nextRev \in Revs
  PROVE  LET n == Acknowledge(d, e)
         IN Holds(d, n) /\ AllHeard(d, n) /\ Rows(n) = Rows(d)
<1> DEFINE x == [d.ep[e] EXCEPT !.ack = TRUE, !.rev = d.nextRev]
           m == Noted(d, e)
           c == CancelIntent(m, {e})
           n == SuppressQueued(c, {e})
<1>1. /\ m.ep = [d.ep EXCEPT ![e] = x] /\ m.box = d.box /\ m.owner = d.owner
      /\ m.limited = d.limited
  BY DEF Noted, Database
<1>2. x.intent = d.ep[e].intent /\ x.ack = TRUE /\ x \in Episode
  <2>1. d.ep[e] \in Episode
    BY Parts
  <2> QED
    BY <2>1 DEF Episode
<1>3. m \in Database
  <2>1. [d.ep EXCEPT ![e] = x] \in [EpIds -> Episode] /\ d.nextRev + 1 \in 1..(MaxRev + 1)
    BY <1>2, Parts, BoundsAssumption DEF Revs
  <2> QED
    BY <2>1 DEF Noted, Database
<1>4. Acknowledge(d, e) = n
  BY DEF Acknowledge
<1> HIDE DEF x, m
<1>5. /\ Holds(d, m) /\ Stays(d, m) /\ m.ep[e] = x
      /\ \A f \in EpIds : f # e /\ Heard(d, f) => Heard(m, f)
  <2>1. d.limited => m.limited
    BY <1>1
  <2>2. Gone(d, e) => x.status \in {"resolved", "deleted"}
    BY DEF Gone
  <2> QED
    BY <1>1, <1>2, <1>3, <2>1, <2>2, ChangedServes
<1>6. /\ c \in Database /\ Holds(m, c) /\ Rows(c) = Rows(d)
      /\ \A f \in EpIds : f # e /\ Heard(d, f) => Heard(c, f)
      /\ Heard(c, e)
  <2>1. /\ c \in Database /\ Holds(m, c) /\ c.box = m.box /\ c.ep[e].ack = TRUE
        /\ \A f \in EpIds : Heard(m, f) => Heard(c, f)
    BY <1>2, <1>3, <1>5, CancelServes
  <2> HIDE DEF c
  <2> QED
    BY <1>1, <1>5, <2>1 DEF Heard, Rows
<1> HIDE DEF c
<1>7. /\ Holds(c, n) /\ Rows(n) = Rows(c)
      /\ \A f \in EpIds : Heard(c, f) => Heard(n, f)
  BY <1>6, SuppressServes
<1> HIDE DEF n
<1> QED
  BY <1>4, <1>5, <1>6, <1>7 DEF Holds, AllHeard

\* configure suppresses, and removes no row.
LEMMA ConfigureServes ==
  ASSUME NEW d \in Database, NEW enabled \in BOOLEAN
  PROVE  LET n == Configure(d, enabled)
         IN Holds(d, n) /\ AllHeard(d, n) /\ Rows(n) = Rows(d)
<1> DEFINE c == CancelIntent(d, EpIds)
           s == SuppressQueued(c, EpIds)
           n == Configure(d, enabled)
<1>1. /\ c \in Database /\ Holds(d, c) /\ c.box = d.box
      /\ \A e \in EpIds : Heard(d, e) => Heard(c, e)
  BY CancelServes
<1>2. n = [s EXCEPT !.enabled = enabled, !.setrev = @ + 1]
  BY DEF Configure
<1>3. n.ep = s.ep /\ n.box = s.box /\ n.owner = s.owner /\ n.limited = s.limited
  BY <1>1, <1>2 DEF SuppressQueued, Database
<1> HIDE DEF c
<1>4. /\ Holds(c, s) /\ Rows(s) = Rows(c)
      /\ \A e \in EpIds : Heard(c, e) => Heard(s, e)
  BY <1>1, SuppressServes
<1> HIDE DEF s, n
<1>5. Rows(c) = Rows(d)
  BY <1>1 DEF Rows
<1>6. Holds(s, n) /\ Rows(n) = Rows(s) /\ \A e \in EpIds : Heard(s, e) => Heard(n, e)
  BY <1>3 DEF Holds, Flagged, Bounded, PendingIntents, Rows, Heard
<1> QED
  BY <1>1, <1>4, <1>5, <1>6 DEF Holds, AllHeard, n

\* The retention at the head of reconcile lowers the flag, and the pass over the pending
\* intents raises it again if one is left.
LEMMA RetainServes ==
  ASSUME NEW d \in Database, DatabaseInv(d), NEW rs \in SUBSET Forgettable(d),
         NEW es \in SUBSET Unreferenced(d, rs)
  PROVE  Serves(d, Retain(d, rs, es))
<1> DEFINE m == Pruned(d, rs, es)
           n == RetryPending(m)
<1>1. /\ Kept(d, m)
      /\ \A r \in rs : r \in Revs /\ d.box[r].state \in Settled
      /\ \A e \in es : e \in EpIds /\ d.ep[e].status = "resolved"
      /\ m.box = [r \in Revs |-> IF r \in rs THEN NoRow ELSE d.box[r]]
      /\ \A e \in EpIds :
           /\ m.ep[e].rev = d.ep[e].rev /\ m.ep[e].ack = d.ep[e].ack
           /\ m.ep[e].corr = d.ep[e].corr /\ m.ep[e].sev = d.ep[e].sev
           /\ m.ep[e].intent = d.ep[e].intent
           /\ m.ep[e].status = IF e \in es THEN "deleted" ELSE d.ep[e].status
  BY PrunedKeeps
<1>2. Retain(d, rs, es) = n /\ m.owner = d.owner
  BY DEF Retain, Pruned, Database
<1> HIDE DEF m
<1>3. Flagged(n) /\ Holds(m, n) /\ Stays(m, n) /\ AllHeard(m, n)
  BY <1>1, RetryServes DEF Kept
<1> HIDE DEF n
<1>4. Bounded(d) => Bounded(m)
  <2>1. Rows(m) \in SUBSET Rows(d) /\ Rows(d) \in SUBSET Revs
    BY <1>1 DEF Rows, NoRow
  <2>2. /\ Cardinality(Rows(m)) <= Cardinality(Rows(d)) /\ Cardinality(Rows(m)) \in Nat
        /\ Cardinality(Rows(d)) \in Nat
    <3>1. IsFiniteSet(Rows(d)) /\ Cardinality(Rows(d)) \in Nat
      BY <2>1, Finite
    <3>2. Rows(m) \in SUBSET Revs
      BY DEF Rows
    <3> QED
      BY <2>1, <3>1, <3>2, Finite, FS_Subset
  <2> QED
    BY <2>2, BoundsAssumption DEF Bounded
<1>5. Stays(d, m)
  BY <1>1 DEF Stays, Gone, Settled
<1>6. \A e \in EpIds : Heard(d, e) => Heard(m, e)
  <2>1. SUFFICES ASSUME NEW e \in EpIds, Heard(d, e) PROVE Heard(m, e)
    OBVIOUS
  <2> QED
    BY <1>1, <1>2, <2>1 DEF Heard
<1>7. Stays(d, n)
  <2>1. \A r \in Revs : d.box[r].state = "queued" => m.box[r] = d.box[r]
    BY <1>1 DEF Settled
  <2> QED
    BY <1>3, <1>5, <2>1 DEF Stays
<1> QED
  BY <1>2, <1>3, <1>4, <1>6, <1>7 DEF Serves, Holds, AllHeard

\* The tail of reconcile.
LEMMA ReconciledServes ==
  ASSUME NEW d \in Database, DatabaseInv(d)
  PROVE  Serves(d, Reconciled(d))
<1> DEFINE m == RetryPending(d)
           n == Reconciled(d)
<1>1. m \in Database /\ Serves(d, m)
  BY RetryPendingKeeps, RetryServes DEF Kept, Serves
<1>2. /\ n.ep = m.ep /\ n.box = m.box /\ n.owner = m.owner /\ (m.limited => n.limited)
  BY <1>1 DEF Reconciled, Database
<1> HIDE DEF m, n
<1>3. Serves(m, n)
  BY <1>2 DEF Serves, Holds, Stays, AllHeard, Heard, Gone, Flagged, Bounded, PendingIntents,
              Rows
<1> QED
  BY <1>1, <1>3, ServesTransitive DEF n

-----------------------------------------------------------------------------
(* The steps of the specification.                                         *)

\* A live row of LiveRowsStay, in a step.
Live(r) ==
  LET row == db.box[r]
  IN \/ /\ row.state = "queued" /\ row.age < MaxAge
        /\ db'.ep[row.ep].status = "open"
     \/ row.state = "accepted" /\ row.age < MaxAge
     \/ row.state = "sending" /\ worker.pc \in {"http", "record"}

Preserves ==
  /\ Holds(db, db') /\ AllHeard(db, db')
  /\ \A r \in Revs : Live(r) => db'.box[r].state # "absent"

\* A handler that serves keeps the live rows.
LEMMA ServingStep ==
  ASSUME IInv, Kept(db, db'), Serves(db, db')
  PROVE  Preserves
<1>1. ASSUME NEW r \in Revs, Live(r) PROVE db'.box[r].state # "absent"
  <2>1. RowMove(db, db', r) /\ (db.owner[r] = None => db.box[r].state = "absent")
    BY DEF IInv, DatabaseInv, RowsAreOwned, Kept, RowsMove
  <2>2. CASE db.box[r].state \in {"accepted", "sending"}
    BY <2>1, <2>2 DEF RowMove, Settled
  <2>3. CASE db.box[r].state = "queued" /\ db'.ep[db.box[r].ep].status = "open"
    BY <2>3 DEF Serves, Stays, Gone
  <2> QED
    BY <1>1, <2>2, <2>3 DEF Live
<1> QED
  BY <1>1 DEF Preserves, Serves

\* A step that leaves the rows where they are keeps the live ones.
LEMMA RowsStayStep ==
  ASSUME Holds(db, db'), AllHeard(db, db'), Rows(db) \subseteq Rows(db')
  PROVE  Preserves
BY DEF Preserves, Live, Rows

\* A reported condition.
LEMMA IngestServes ==
  ASSUME IInv, NEW c \in Reports, Ingest(c)
  PROVE  Preserves
<1>1. db \in Database /\ DatabaseInv(db) /\ c \in Condition
  BY ReportsAssumption DEF IInv, TypeOK
<1>2. db.nextEp \in EpIds /\ db.nextRev \in Revs
  BY <1>1, Parts, BoundsAssumption DEF Ingest, Room, EpIds, Revs
<1>3. Serves(db, db') /\ Kept(db, db')
  BY <1>1, <1>2, ObserveServes, IngestStep DEF Ingest
<1> QED
  BY <1>3, ServingStep

\* A reconciliation pass: retention, two observations, and the pending intents again.
LEMMA ReconcileServes ==
  ASSUME IInv, NEW batch \in Batches, NEW rs \in SUBSET Forgettable(db),
         NEW es \in SUBSET Unreferenced(db, rs), Reconcile(batch, rs, es)
  PROVE  Preserves
<1> DEFINE a == Retain(db, rs, es)
           b == Observe(a, batch[1])
           c == Observe(b, batch[2])
<1>1. db \in Database /\ DatabaseInv(db) /\ batch[1] \in Condition /\ batch[2] \in Condition
  BY ReportsAssumption DEF IInv, TypeOK
<1>2. db.nextEp \in Nat /\ db.nextRev \in Nat /\ db.nextEp >= 1 /\ db.nextRev >= 1
      /\ db.nextEp + 2 <= MaxEp + 1 /\ db.nextRev + 2 <= MaxRev + 1
  BY <1>1, Parts, BoundsAssumption DEF Reconcile, Room
<1>3. Kept(db, a) /\ SameCounters(db, a) /\ Serves(db, a)
  BY <1>1, RetainKeeps, RetainServes
<1> HIDE DEF a
<1>4. a.nextEp \in EpIds /\ a.nextRev \in Revs
  BY <1>2, <1>3, BoundsAssumption DEF SameCounters, EpIds, Revs
<1>5. Kept(a, b) /\ Advances(a, b) /\ Serves(a, b)
  BY <1>1, <1>3, <1>4, ObserveKeeps, ObserveServes DEF Kept
<1> HIDE DEF b
<1>6. b.nextEp \in EpIds /\ b.nextRev \in Revs
  <2>1. b \in Database
    BY <1>5 DEF Kept
  <2> QED
    BY SMTT(30), <1>2, <1>3, <1>5, <2>1, Parts, BoundsAssumption DEF SameCounters, Advances, EpIds, Revs
<1>7. Kept(b, c) /\ Serves(b, c)
  BY <1>1, <1>5, <1>6, ObserveKeeps, ObserveServes DEF Kept
<1> HIDE DEF c
<1>8. Serves(c, Reconciled(c))
  BY <1>7, ReconciledServes DEF Kept
<1>9. db' = Reconciled(c)
  BY DEF Reconcile, a, b, c
<1>10. Serves(db, b)
  BY <1>1, <1>3, <1>5, ServesTransitive
<1>11. Serves(db, c)
  BY <1>1, <1>7, <1>10, ServesTransitive
<1>12. Serves(db, db')
  BY <1>1, <1>8, <1>9, <1>11, ServesTransitive
<1>13. Kept(db, db')
  BY ReconcileStep
<1> QED
  BY <1>12, <1>13, ServingStep

\* The passing of time.
LEMMA TickServes ==
  ASSUME IInv, Tick
  PROVE  Preserves
<1>1. /\ db'.owner = db.owner
      /\ \A r \in Revs : db'.box[r].state = db.box[r].state
      /\ \A e \in EpIds :
           /\ db'.ep[e].rev = db.ep[e].rev /\ db'.ep[e].sev = db.ep[e].sev
           /\ db'.ep[e].status = db.ep[e].status /\ db'.ep[e].ack = db.ep[e].ack
           /\ db'.ep[e].corr = db.ep[e].corr
           /\ db'.ep[e].intent.state = db.ep[e].intent.state
           /\ db'.ep[e].intent.rev = db.ep[e].intent.rev
  BY TickStep
<1>2. db'.limited = db.limited
  BY DEF Tick, IInv, TypeOK, Database
<1>3. Rows(db') = Rows(db) /\ PendingIntents(db') = PendingIntents(db)
  BY <1>1 DEF Rows, PendingIntents
<1>4. Holds(db, db')
  BY <1>2, <1>3 DEF Holds, Flagged, Bounded
<1>5. ASSUME NEW e \in EpIds, Heard(db, e) PROVE Heard(db', e)
  BY <1>1, <1>5 DEF Heard
<1> QED
  BY <1>3, <1>4, <1>5, RowsStayStep DEF AllHeard

\* The sweep of a worker step that finds no step in flight.
LEMMA SweepServes ==
  ASSUME NEW d \in Database, DatabaseInv(d)
  PROVE  LET s == Sweep(d)
         IN /\ Holds(d, s) /\ AllHeard(d, s)
            /\ \A r \in Revs :
                 \/ /\ d.box[r].state = "queued" /\ d.box[r].age < MaxAge
                    /\ s.ep[d.box[r].ep].status = "open"
                 \/ d.box[r].state = "accepted" /\ d.box[r].age < MaxAge
                 => s.box[r] = d.box[r]
<1> DEFINE m == Swept(d)
           s == Sweep(d)
<1>1. /\ m \in Database /\ DatabaseInv(m)
      /\ m.ep = d.ep /\ m.owner = d.owner /\ m.limited = d.limited
      /\ \A r \in Revs :
           \/ m.box[r] = d.box[r] /\ d.box[r].state # "sending"
           \/ /\ \/ d.box[r].state = "sending"
                 \/ d.box[r].state \in {"accepted", "queued"} /\ d.box[r].age = MaxAge
              /\ m.box[r].state \in Settled
  BY SweptKeeps
<1>2. s = RetryPending(m)
  BY DEF Sweep, Swept
<1> HIDE DEF m, s
<1>3. Serves(m, s) /\ Kept(m, s)
  BY <1>1, <1>2, RetryServes, RetryPendingKeeps DEF Serves
<1>4. Rows(m) = Rows(d)
  BY <1>1 DEF Rows, Settled
<1>5. Holds(d, m)
  BY <1>1, <1>4 DEF Holds, Flagged, Bounded, PendingIntents
<1>6. \A e \in EpIds : Heard(d, e) => Heard(m, e)
  BY <1>1 DEF Heard
<1>7. ASSUME NEW r \in Revs,
             \/ /\ d.box[r].state = "queued" /\ d.box[r].age < MaxAge
                /\ s.ep[d.box[r].ep].status = "open"
             \/ d.box[r].state = "accepted" /\ d.box[r].age < MaxAge
      PROVE  s.box[r] = d.box[r]
  <2>1. d.box[r].age # MaxAge
    BY <1>7, Parts, BoundsAssumption DEF Row, Ages
  <2>2. m.box[r] = d.box[r]
    BY <1>1, <1>7, <2>1
  <2>3. CASE d.box[r].state = "queued"
    BY <1>3, <1>7, <2>2, <2>3 DEF Serves, Stays, Gone
  <2>4. CASE d.box[r].state = "accepted"
    <3>1. RowMove(m, s, r) /\ (m.owner[r] = None => m.box[r].state = "absent")
      BY <1>1, <1>3 DEF DatabaseInv, RowsAreOwned, Kept, RowsMove
    <3> QED
      BY <2>2, <2>4, <3>1 DEF RowMove, Settled
  <2> QED
    BY <1>7, <2>3, <2>4
<1> QED
  BY <1>3, <1>5, <1>6, <1>7 DEF Serves, Holds, AllHeard, s

\* A step of the worker: the sweep, and at most a claim.
LEMMA WorkerServes ==
  ASSUME IInv, WorkerStep
  PROVE  Preserves
<1> DEFINE s == Sweep(db)
<1>1. /\ Holds(db, s) /\ AllHeard(db, s) /\ s \in Database
      /\ \A r \in Revs :
           \/ /\ db.box[r].state = "queued" /\ db.box[r].age < MaxAge
              /\ s.ep[db.box[r].ep].status = "open"
           \/ db.box[r].state = "accepted" /\ db.box[r].age < MaxAge
           => s.box[r] = db.box[r]
  BY SweepServes, SweepKeeps DEF IInv, TypeOK
<1>2. worker.pc = "idle"
  BY DEF WorkerStep, SweepOnly, ClaimSend, ClaimPoll
<1>3. CASE db' = s
  BY <1>1, <1>2, <1>3 DEF Preserves, Live
<1>4. ASSUME NEW r \in Revs, ClaimSend(r) PROVE Preserves
  <2>1. /\ db' = [s EXCEPT !.box[r].state = "sending", !.box[r].attempts = @ + 1]
        /\ s.box[r].state = "queued"
    BY <1>4 DEF ClaimSend, Sendable
  <2> HIDE DEF s
  <2>2. /\ db'.ep = s.ep /\ db'.owner = s.owner /\ db'.limited = s.limited
        /\ \A q \in Revs : q # r => db'.box[q] = s.box[q]
        /\ db'.box[r].state = "sending"
    BY <1>1, <2>1 DEF Database, Row
  <2>3. Rows(db') = Rows(s)
    BY <2>1, <2>2 DEF Rows
  <2>4. Holds(s, db')
    BY <2>2, <2>3 DEF Holds, Flagged, Bounded, PendingIntents
  <2>5. \A e \in EpIds : Heard(s, e) => Heard(db', e)
    BY <2>2 DEF Heard
  <2>6. ASSUME NEW q \in Revs, Live(q) PROVE db'.box[q].state # "absent"
    <3>1. q # r => s.box[q] = db.box[q]
      BY <1>1, <1>2, <2>2, <2>6 DEF Live
    <3> QED
      BY <2>2, <2>6, <3>1 DEF Live
  <2> QED
    BY <1>1, <2>4, <2>5, <2>6 DEF Preserves, Holds, AllHeard
<1>5. ASSUME NEW r \in Revs, ClaimPoll(r) PROVE Preserves
  BY <1>3, <1>5 DEF ClaimPoll
<1> QED
  BY <1>3, <1>4, <1>5 DEF WorkerStep, SweepOnly

\* The recording of an outcome removes no row.
LEMMA RecordServes ==
  ASSUME IInv, Record
  PROVE  Preserves
<1> DEFINE r == worker.rev
           final == Final(worker.poll, worker.outcome, db.box[r].attempts)
<1>1. db \in Database /\ worker \in Worker /\ r \in Revs
  BY DEF IInv, TypeOK, Worker
<1>2. final # "absent"
  <2>1. worker.outcome.state # "absent"
    BY <1>1 DEF Worker, Outcome
  <2> QED
    BY <2>1 DEF Final
<1>3. db' = IF db.box[r].state = "absent" THEN db
            ELSE [db EXCEPT !.box[r].state = final, !.box[r].sid = @ \/ worker.outcome.sid]
  BY DEF Record
<1> HIDE DEF final, r
<1>4. /\ db'.ep = db.ep /\ db'.owner = db.owner /\ db'.limited = db.limited
      /\ \A q \in Revs : q # r => db'.box[q] = db.box[q]
      /\ db.box[r].state = "absent" => db'.box[r] = db.box[r]
      /\ db.box[r].state # "absent" => db'.box[r].state = final
  <2>1. CASE db.box[r].state = "absent"
    BY <1>3, <2>1
  <2>2. CASE db.box[r].state # "absent"
    <3>1. db' = [db EXCEPT !.box[r].state = final, !.box[r].sid = @ \/ worker.outcome.sid]
      BY <1>3, <2>2
    <3>2. db.box \in [Revs -> Row] /\ db.box[r] \in Row
      BY <1>1, Parts
    <3> QED
      BY <1>1, <2>2, <3>1, <3>2 DEF Database, Row
  <2> QED
    BY <2>1, <2>2
<1>5. Rows(db') = Rows(db)
  BY <1>2, <1>4 DEF Rows
<1>6. Holds(db, db')
  BY <1>4, <1>5 DEF Holds, Flagged, Bounded, PendingIntents
<1>7. \A e \in EpIds : Heard(db, e) => Heard(db', e)
  BY <1>4 DEF Heard
<1> QED
  BY <1>5, <1>6, <1>7, RowsStayStep DEF AllHeard

\* The recovery at the start of the worker removes no row.
LEMMA StartServes ==
  ASSUME IInv, NEW client \in BOOLEAN, Start(client)
  PROVE  Preserves
<1>1. /\ db'.ep = db.ep /\ db'.owner = db.owner /\ db'.limited = db.limited
      /\ db'.box = [r \in Revs |-> IF db.box[r].state = "sending"
                                   THEN [db.box[r] EXCEPT !.state = "uncertain"]
                                   ELSE db.box[r]]
  BY DEF Start, IInv, TypeOK, Database
<1>2. \A r \in Revs : \/ db'.box[r] = db.box[r]
                      \/ db.box[r].state = "sending" /\ db'.box[r].state = "uncertain"
  BY <1>1, Parts DEF Row, IInv, TypeOK
<1>3. Rows(db') = Rows(db)
  BY <1>2 DEF Rows
<1>4. Holds(db, db')
  BY <1>1, <1>3 DEF Holds, Flagged, Bounded, PendingIntents
<1>5. \A e \in EpIds : Heard(db, e) => Heard(db', e)
  BY <1>1 DEF Heard
<1> QED
  BY <1>3, <1>4, <1>5, RowsStayStep DEF AllHeard

\* Every step keeps the bound, the flag, the concerns and the live rows.
LEMMA NextPreserves == IInv /\ [Next]_vars => Preserves
<1> SUFFICES ASSUME IInv, [Next]_vars PROVE Preserves
  OBVIOUS
<1>1. ASSUME NEW c \in Reports, Ingest(c) PROVE Preserves
  BY <1>1, IngestServes
<1>2. CASE ReconcileAny
  BY <1>2, ReconcileServes DEF ReconcileAny
<1>3. ASSUME NEW e \in EpIds, AcknowledgeEpisode(e) PROVE Preserves
  <2>1. db \in Database /\ db.nextRev \in Revs /\ db.ep[e].status = "open"
    BY <1>3, Parts, BoundsAssumption DEF AcknowledgeEpisode, Room, Revs, IInv, TypeOK
  <2>2. Holds(db, db') /\ AllHeard(db, db') /\ Rows(db') = Rows(db)
    BY <1>3, <2>1, AcknowledgeServes DEF AcknowledgeEpisode
  <2> QED
    BY <2>2, RowsStayStep
<1>4. ASSUME NEW enabled \in BOOLEAN, ChangeSettings(enabled) PROVE Preserves
  <2>1. Holds(db, db') /\ AllHeard(db, db') /\ Rows(db') = Rows(db)
    BY <1>4, ConfigureServes DEF ChangeSettings, IInv, TypeOK
  <2> QED
    BY <2>1, RowsStayStep
<1>5. CASE Tick
  BY <1>5, TickServes
<1>6. CASE WorkerStep
  BY <1>6, WorkerServes
<1>7. CASE Record
  BY <1>7, RecordServes
<1>8. ASSUME NEW client \in BOOLEAN, Start(client) PROVE Preserves
  BY <1>8, StartServes
<1>9. CASE db' = db
  <2>1. Holds(db, db') /\ AllHeard(db, db') /\ Rows(db') = Rows(db)
    BY <1>9 DEF Holds, AllHeard
  <2> QED
    BY <2>1, RowsStayStep
<1> QED
  BY <1>1, <1>2, <1>3, <1>4, <1>5, <1>6, <1>7, <1>8, <1>9
     DEF Next, Respond, RecordFails, Crash, vars

-----------------------------------------------------------------------------
(* The properties.                                                         *)

\* The inductive invariant of NotificationsProofs with what this module adds.
OutboxInv == IInv /\ Flagged(db) /\ Bounded(db) /\ \A e \in EpIds : Heard(db, e)

\* The empty outbox is within its bound, and nothing waits or concerns.
LEMMA InitOutboxInv == Init => OutboxInv
<1> SUFFICES ASSUME Init PROVE OutboxInv
  OBVIOUS
<1>1. IInv
  BY InitIInv
<1>2. Flagged(db) /\ \A e \in EpIds : Heard(db, e)
  BY DEF Init, Flagged, PendingIntents, NoIntent, Heard
<1>3. Rows(db) = {}
  BY DEF Init, Rows, NoRow
<1>4. Bounded(db)
  BY <1>3, FS_EmptySet, BoundsAssumption DEF Bounded
<1> QED
  BY <1>1, <1>2, <1>4 DEF OutboxInv

\* OutboxInv is an invariant of the specification.
THEOREM OutboxInvariance == Spec => []OutboxInv
<1>1. Init => OutboxInv
  BY InitOutboxInv
<1>2. OutboxInv /\ [Next]_vars => OutboxInv'
  <2> SUFFICES ASSUME OutboxInv, [Next]_vars PROVE OutboxInv'
    OBVIOUS
  <2>1. IInv' /\ Preserves
    BY NextKeepsIInv, NextPreserves DEF OutboxInv
  <2> QED
    BY <2>1 DEF OutboxInv, Preserves, Holds, AllHeard
<1> QED
  BY <1>1, <1>2, PTL DEF Spec

\* The outbox never exceeds its bound, however many rows one pass over the pending
\* intents admits.
THEOREM OutboxIsBounded == Spec => []OutboxBounded
<1>1. OutboxInv => OutboxBounded
  BY DEF OutboxInv, Bounded, OutboxBounded
<1> QED
  BY <1>1, OutboxInvariance, PTL

\* admission_limited is true whenever an admission waits.
THEOREM LimitIsShown == Spec => []LimitedWhilePending
<1>1. OutboxInv => LimitedWhilePending
  BY DEF OutboxInv, Flagged, LimitedWhilePending
<1> QED
  BY <1>1, OutboxInvariance, PTL

\* No eviction, retention or retry removes a row that may still be delivered.
THEOREM LiveRowsAreKept == Spec => LiveRowsStay
<1>1. OutboxInv /\ [Next]_vars =>
        [\A r \in Revs : Live(r) => db'.box[r].state # "absent"]_vars
  BY NextPreserves DEF OutboxInv, Preserves
<1>2. (\A r \in Revs : Live(r) => db'.box[r].state # "absent") =>
        \A r \in Revs :
          LET row == db.box[r]
          IN \/ /\ row.state = "queued" /\ row.age < MaxAge
                /\ db'.ep[row.ep].status = "open"
             \/ row.state = "accepted" /\ row.age < MaxAge
             \/ row.state = "sending" /\ worker.pc \in {"http", "record"}
             => db'.box[r].state # "absent"
  BY DEF Live
<1> QED
  BY <1>1, <1>2, OutboxInvariance, PTL DEF Spec, LiveRowsStay

-----------------------------------------------------------------------------
(* One message per disconnect.                                             *)

Disconnects == Presence \cup Removals

\* The episodes whose notification an episode has taken over or is about to take over.
From(x) == ({x.from} \cup IF x.tp = None THEN {} ELSE {x.tp.from}) \ {None}

\* An episode that is recovered without a message, and that will not get one.  M[r]
\* messages were made of the row r.
Unsent(d, M, e) ==
  /\ Gone(d, e)
  /\ \A r \in Revs : d.owner[r] = e => M[r] = 0 /\ d.box[r].state \notin Active

Unmade(d, M) == \A r \in Revs : d.owner[r] = None \/ d.box[r].state = "queued" => M[r] = 0

\* A row is of its owner, and its owner has been opened.
Attributed(d) ==
  \A r \in Revs : /\ d.owner[r] # None => d.owner[r] < d.nextEp
                  /\ d.box[r].state # "absent" => d.box[r].ep = d.owner[r]

Unannounced(d, e) == \A r \in Revs : d.owner[r] # e

\* The severity of a disconnect never changes, so it has one transition to announce, which
\* it has not announced while an intent or another episode stands for it.
Single(d) ==
  \A e \in EpIds : d.ep[e].key \in Disconnects =>
    /\ e < d.nextEp => d.ep[e].sev = "warning"
    /\ \A r, s \in Revs : d.owner[r] = e /\ d.owner[s] = e => r = s
    /\ d.ep[e].corr # None \/ d.ep[e].intent.state = "pending" => Unannounced(d, e)

\* Only disconnects rely on each other.
Correlated(d) ==
  \A e \in EpIds : d.ep[e].corr # None =>
    /\ d.ep[e].key \in Disconnects
    /\ d.ep[e].corr < d.nextEp /\ d.ep[d.ep[e].corr].key \in Disconnects

\* What was taken over was not sent.
TakenUnsent(d, M) == \A e \in EpIds : \A s \in From(d.ep[e]) : s \in EpIds /\ Unsent(d, M, s)

Paired(d, M) == Attributed(d) /\ Single(d) /\ Correlated(d) /\ TakenUnsent(d, M)

\* A change of an episode that adds nothing to announce.
Alike(x, y) ==
  /\ y.key = x.key /\ (x.key \in Disconnects => y.sev = x.sev)
  /\ y.corr \in {x.corr, None}
  /\ y.intent.state = "pending" => x.intent.state = "pending"
  /\ x.status \in {"resolved", "deleted"} => y.status \in {"resolved", "deleted"}

\* A change of a row that settles or removes it, or none.
Fades(x, y) ==
  /\ y.state # "absent" => x.state # "absent" /\ y.ep = x.ep
  /\ y.state \in Active => x.state \in Active

\* A row queued by a handler has made no message.
LEMMA UnmadeKept ==
  ASSUME NEW d \in Database, NEW n, NEW M, Kept(d, n), Unmade(d, M)
  PROVE  Unmade(n, M)
BY DEF Kept, RowsMove, RowMove, Unmade, Settled

\* Changes of that kind keep the pairs, with what is taken over from an unsent episode.
LEMMA FrameKeeps ==
  ASSUME NEW d \in Database, NEW n \in Database, NEW M, Paired(d, M),
         n.owner = d.owner, n.nextEp = d.nextEp,
         \A r \in Revs : Fades(d.box[r], n.box[r]),
         \A e \in EpIds : Alike(d.ep[e], n.ep[e]),
         \A e \in EpIds : \A s \in From(n.ep[e]) :
           s \in From(d.ep[e]) \/ (s \in EpIds /\ Unsent(d, M, s))
  PROVE  Paired(n, M)
<1>1. Attributed(n)
  BY DEF Paired, Attributed, Fades
<1>2. Single(n)
  <2>1. SUFFICES ASSUME NEW e \in EpIds, n.ep[e].key \in Disconnects
                 PROVE  /\ e < n.nextEp => n.ep[e].sev = "warning"
                        /\ \A r, s \in Revs : n.owner[r] = e /\ n.owner[s] = e => r = s
                        /\ n.ep[e].corr # None \/ n.ep[e].intent.state = "pending"
                           => Unannounced(n, e)
    BY DEF Single
  <2>2. /\ d.ep[e].key \in Disconnects /\ n.ep[e].sev = d.ep[e].sev
        /\ n.ep[e].corr # None => d.ep[e].corr # None
        /\ n.ep[e].intent.state = "pending" => d.ep[e].intent.state = "pending"
    BY <2>1 DEF Alike
  <2> QED
    BY <2>2 DEF Paired, Single, Unannounced
<1>3. Correlated(n)
  <2>1. SUFFICES ASSUME NEW e \in EpIds, n.ep[e].corr # None
                 PROVE  /\ n.ep[e].key \in Disconnects
                        /\ n.ep[e].corr < n.nextEp /\ n.ep[n.ep[e].corr].key \in Disconnects
    BY DEF Correlated
  <2>2. n.ep[e].key = d.ep[e].key /\ n.ep[e].corr = d.ep[e].corr
    BY <2>1 DEF Alike
  <2>3. d.ep[e].corr \in EpIds
    BY <2>1, <2>2, Parts DEF Episode
  <2> QED
    BY <2>1, <2>2, <2>3 DEF Paired, Correlated, Alike
<1>4. TakenUnsent(n, M)
  <2>1. SUFFICES ASSUME NEW e \in EpIds, NEW s \in From(n.ep[e])
                 PROVE  s \in EpIds /\ Unsent(n, M, s)
    BY DEF TakenUnsent
  <2>2. s \in EpIds /\ Unsent(d, M, s)
    BY <2>1 DEF Paired, TakenUnsent
  <2>3. Gone(n, s)
    BY <2>2 DEF Unsent, Gone, Alike
  <2>4. \A r \in Revs : n.owner[r] = s => M[r] = 0 /\ n.box[r].state \notin Active
    BY <2>2 DEF Unsent, Fades
  <2> QED
    BY <2>2, <2>3, <2>4 DEF Unsent
<1> QED
  BY <1>1, <1>2, <1>3, <1>4 DEF Paired

\* A row that does not change.
LEMMA NoFade == \A x : Fades(x, x) /\ Alike(x, x)
BY DEF Fades, Alike

\* A row is inserted for an episode that has announced nothing.
LEMMA InsertPaired ==
  ASSUME NEW d \in Database, NEW M, Paired(d, M), NEW e \in EpIds,
         d.ep[e].status = "open", d.ep[e].corr = None, e < d.nextEp,
         d.owner[d.ep[e].rev] = None,
         d.ep[e].key \in Disconnects => Unannounced(d, e)
  PROVE  Paired(Insert(d, e, d.ep[e].rev), M)
<1> DEFINE rev == d.ep[e].rev
           out == IF Full(d) THEN Oldest(d, 1) ELSE {}
           n == Insert(d, e, rev)
<1>1. rev \in Revs /\ d.ep[e] \in Episode /\ None \notin EpIds
  <2>1. d.ep[e] \in Episode
    BY Parts
  <2> QED
    BY <2>1, KeysAssumption DEF Episode, EpIds
<1>2. /\ n.box = [r \in Revs |-> IF r = rev THEN NewRow(d, e, 0)
                                 ELSE IF r \in out THEN NoRow ELSE d.box[r]]
      /\ n.owner = [d.owner EXCEPT ![rev] = e]
      /\ n.ep = [d.ep EXCEPT ![e] = [d.ep[e] EXCEPT !.intent = NoIntent]]
      /\ n.nextEp = d.nextEp
  BY DEF Insert, Database
<1>3. NewRow(d, e, 0).ep = e /\ NoRow.state = "absent"
  BY DEF NewRow, NoRow
<1> HIDE DEF n, rev, out
<1>4. n.owner[rev] = e /\ \A r \in Revs : r # rev => n.owner[r] = d.owner[r]
  BY <1>1, <1>2, Parts
<1>5. \A f \in EpIds :
        /\ n.ep[f].key = d.ep[f].key /\ n.ep[f].sev = d.ep[f].sev
        /\ n.ep[f].corr = d.ep[f].corr /\ n.ep[f].status = d.ep[f].status
        /\ From(n.ep[f]) = From(d.ep[f])
        /\ f # e => n.ep[f] = d.ep[f]
  BY <1>1, <1>2, Parts DEF Episode, From
<1>6. n.ep[e].intent.state = "none"
  BY <1>1, <1>2, Parts DEF Episode, NoIntent
<1>7. \A r \in Revs : r # rev => n.box[r] = d.box[r] \/ n.box[r] = NoRow
  BY <1>2
<1>8. n.box[rev].ep = e
  BY <1>1, <1>2, <1>3
<1>9. d.owner[rev] = None
  BY DEF rev
<1>10. Attributed(n)
  <2>1. SUFFICES ASSUME NEW r \in Revs
                 PROVE  /\ n.owner[r] # None => n.owner[r] < n.nextEp
                        /\ n.box[r].state # "absent" => n.box[r].ep = n.owner[r]
    BY DEF Attributed
  <2>2. CASE r = rev
    BY <1>2, <1>4, <1>8, <2>2
  <2>3. CASE r # rev
    BY <1>2, <1>3, <1>4, <1>7, <2>3 DEF Paired, Attributed
  <2> QED
    BY <2>2, <2>3
<1>11. Single(n)
  <2>1. SUFFICES ASSUME NEW f \in EpIds, n.ep[f].key \in Disconnects
                 PROVE  /\ f < n.nextEp => n.ep[f].sev = "warning"
                        /\ \A r, s \in Revs : n.owner[r] = f /\ n.owner[s] = f => r = s
                        /\ n.ep[f].corr # None \/ n.ep[f].intent.state = "pending"
                           => Unannounced(n, f)
    BY DEF Single
  <2>2. CASE f = e
    <3>1. \A r \in Revs : n.owner[r] = e => r = rev
      BY <1>4, <1>5, <2>1, <2>2 DEF Unannounced
    <3>2. n.ep[f].corr = None /\ n.ep[f].intent.state # "pending"
      BY <1>5, <1>6, <2>2
    <3>3. f < n.nextEp => n.ep[f].sev = "warning"
      BY <1>2, <1>5, <2>1 DEF Paired, Single
    <3> QED
      BY <2>2, <3>1, <3>2, <3>3
  <2>3. CASE f # e
    <3>1. \A r \in Revs : n.owner[r] = f <=> d.owner[r] = f
      BY <1>1, <1>4, <1>9, <2>3
    <3>2. n.ep[f] = d.ep[f]
      BY <1>5, <2>3
    <3> QED
      BY <1>2, <2>1, <3>1, <3>2 DEF Paired, Single, Unannounced
  <2> QED
    BY <2>2, <2>3
<1>12. Correlated(n)
  <2>1. \A f \in EpIds : d.ep[f].corr # None => d.ep[f].corr \in EpIds
    BY Parts DEF Episode
  <2> QED
    BY <1>2, <1>5, <2>1 DEF Paired, Correlated
<1>13. TakenUnsent(n, M)
  <2>1. SUFFICES ASSUME NEW f \in EpIds, NEW s \in From(n.ep[f])
                 PROVE  s \in EpIds /\ Unsent(n, M, s)
    BY DEF TakenUnsent
  <2>2. s \in EpIds /\ Unsent(d, M, s)
    BY <1>5, <2>1 DEF Paired, TakenUnsent
  <2>3. s # e /\ Gone(n, s)
    BY <1>5, <2>2 DEF Unsent, Gone
  <2>4. ASSUME NEW r \in Revs, n.owner[r] = s PROVE M[r] = 0 /\ n.box[r].state \notin Active
    <3>1. r # rev /\ d.owner[r] = s
      BY <1>4, <2>3, <2>4
    <3> QED
      BY <1>3, <1>7, <2>2, <3>1 DEF Unsent, Active
  <2> QED
    BY <2>2, <2>3, <2>4 DEF Unsent
<1> QED
  BY <1>10, <1>11, <1>12, <1>13 DEF Paired, n, rev

\* An admission for an episode that has announced nothing.
LEMMA AdmitPaired ==
  ASSUME NEW d \in Database, DatabaseInv(d), NEW M, Paired(d, M), NEW e \in EpIds,
         d.ep[e].status = "open", d.ep[e].corr = None,
         d.owner[d.ep[e].rev] = None,
         d.ep[e].key \in Disconnects => Unannounced(d, e)
  PROVE  Paired(Admit(d, e, d.ep[e].rev), M)
<1>1. d.box[d.ep[e].rev].state = "absent" /\ e < d.nextEp
  <2>1. d.ep[e].rev \in Revs
    BY Parts DEF Episode
  <2>2. e \in Nat /\ d.nextEp \in Nat
    BY Parts, BoundsAssumption DEF EpIds
  <2> QED
    BY <2>1, <2>2 DEF DatabaseInv, RowsAreOwned, Fresh
<1> DEFINE n == Defer(d, e, d.ep[e].rev)
           i == [state |-> IF d.enabled THEN "pending" ELSE "suppressed",
                 rev |-> d.ep[e].rev, setrev |-> d.setrev, age |-> 0]
<1>2. Paired(n, M)
  <2>1. /\ n.ep = [d.ep EXCEPT ![e] = [d.ep[e] EXCEPT !.intent = i]]
        /\ n.box = d.box /\ n.owner = d.owner /\ n.nextEp = d.nextEp
    BY DEF Defer, Database
  <2> HIDE DEF n, i
  <2>2. \A f \in EpIds :
          /\ n.ep[f].key = d.ep[f].key /\ n.ep[f].sev = d.ep[f].sev
          /\ n.ep[f].corr = d.ep[f].corr /\ n.ep[f].status = d.ep[f].status
          /\ From(n.ep[f]) = From(d.ep[f])
          /\ f # e => n.ep[f] = d.ep[f]
    BY <2>1, Parts DEF Episode, From
  <2>3. Attributed(n)
    BY <2>1 DEF Paired, Attributed
  <2>4. Single(n)
    <3>1. SUFFICES ASSUME NEW f \in EpIds, n.ep[f].key \in Disconnects
                   PROVE  /\ f < n.nextEp => n.ep[f].sev = "warning"
                          /\ \A r, s \in Revs : n.owner[r] = f /\ n.owner[s] = f => r = s
                          /\ n.ep[f].corr # None \/ n.ep[f].intent.state = "pending"
                             => Unannounced(n, f)
      BY DEF Single
    <3>2. f = e => Unannounced(n, f)
      BY <2>1, <2>2, <3>1 DEF Unannounced
    <3> QED
      BY <2>1, <2>2, <3>1, <3>2 DEF Paired, Single, Unannounced
  <2>5. Correlated(n)
    <3>1. \A f \in EpIds : d.ep[f].corr # None => d.ep[f].corr \in EpIds
      BY Parts DEF Episode
    <3> QED
      BY <2>1, <2>2, <3>1 DEF Paired, Correlated
  <2>6. TakenUnsent(n, M)
    BY <2>1, <2>2 DEF Paired, TakenUnsent, Unsent, Gone
  <2> QED
    BY <2>3, <2>4, <2>5, <2>6 DEF Paired
<1>3. Paired(Insert(d, e, d.ep[e].rev), M)
  BY <1>1, InsertPaired
<1> HIDE DEF n
<1>4. Admit(d, e, d.ep[e].rev) \in {n, Insert(d, e, d.ep[e].rev)}
  BY <1>1 DEF Admit, n
<1> QED
  BY <1>2, <1>3, <1>4

\* The pending intents that are admitted are of episodes that have announced nothing.
LEMMA RetryPaired ==
  ASSUME NEW d \in Database, DatabaseInv(d), NEW M, Paired(d, M)
  PROVE  Paired(RetryPending(d), M)
<1> DEFINE n == RetryPending(d)
           admitted == Admissible(d) \cap Reached(d)
           rowOf(r) == {e \in admitted : d.ep[e].intent.rev = r}
           the(r) == CHOOSE x \in rowOf(r) : TRUE
           new(r) == NewRow(d, the(r), d.ep[the(r)].intent.age)
           evicted == Oldest(d, Cardinality(Rows(d)) + Cardinality(admitted) - MAX_OUTBOX)
           intent(e) == IF e \notin Reached(d) THEN d.ep[e].intent
                        ELSE IF Withdrawn(d, e)
                        THEN [d.ep[e].intent EXCEPT !.state = "suppressed"]
                        ELSE IF ExpiredIntent(d, e)
                        THEN [d.ep[e].intent EXCEPT !.state = "failed"]
                        ELSE NoIntent
<1>1. /\ n.box = [r \in Revs |-> IF rowOf(r) # {} THEN new(r)
                                 ELSE IF r \in evicted THEN NoRow ELSE d.box[r]]
      /\ n.owner = [r \in Revs |-> IF rowOf(r) # {} THEN the(r) ELSE d.owner[r]]
      /\ n.ep = [e \in EpIds |->
                   IF e \notin Reached(d) THEN d.ep[e]
                   ELSE IF Withdrawn(d, e) THEN [d.ep[e] EXCEPT !.intent.state = "suppressed"]
                   ELSE IF ExpiredIntent(d, e) THEN [d.ep[e] EXCEPT !.intent.state = "failed"]
                   ELSE [d.ep[e] EXCEPT !.intent = NoIntent]]
      /\ n.nextEp = d.nextEp
  BY DEF RetryPending, Database
<1> HIDE DEF n
<1>2. ASSUME NEW e \in EpIds
      PROVE  /\ n.ep[e].key = d.ep[e].key /\ n.ep[e].sev = d.ep[e].sev
             /\ n.ep[e].corr = d.ep[e].corr /\ n.ep[e].status = d.ep[e].status
             /\ From(n.ep[e]) = From(d.ep[e])
             /\ n.ep[e].intent.state = "pending" =>
                  d.ep[e].intent.state = "pending" /\ e \notin Reached(d)
  <2>1. d.ep[e] \in Episode /\ d.ep[e].intent \in Intent
    BY Parts
  <2>2. n.ep[e] = [d.ep[e] EXCEPT !.intent = intent(e)]
    BY <1>1, <2>1 DEF Episode
  <2>3. intent(e).state = "pending" => d.ep[e].intent.state = "pending" /\ e \notin Reached(d)
    BY <2>1 DEF Intent, NoIntent
  <2> HIDE DEF intent
  <2> QED
    BY <2>1, <2>2, <2>3 DEF Episode, From
<1>3. ASSUME NEW r \in Revs, rowOf(r) # {}
      PROVE  /\ the(r) \in EpIds /\ d.ep[the(r)].status = "open"
             /\ d.ep[the(r)].intent.state = "pending" /\ the(r) \in Reached(d)
             /\ d.ep[the(r)].rev = r /\ d.owner[r] = None /\ new(r).ep = the(r)
             /\ the(r) < d.nextEp /\ the(r) # None
  <2>1. the(r) \in admitted /\ d.ep[the(r)].intent.rev = r
    BY <1>3
  <2>2. the(r) \in EpIds /\ d.ep[the(r)].intent.state = "pending" /\ the(r) \in Reached(d)
    BY <2>1 DEF Admissible, Wanting, PendingIntents
  <2>3. new(r).ep = the(r)
    BY DEF NewRow, NoRow
  <2> HIDE DEF the, admitted, new
  <2>4. d.ep[the(r)].status = "open" /\ d.ep[the(r)].rev = r /\ d.owner[r] = None
    BY <2>1, <2>2 DEF DatabaseInv, IntentIsCurrent
  <2>5. the(r) \in Nat /\ d.nextEp \in Nat /\ None \notin Nat
    BY <2>2, Parts, BoundsAssumption, KeysAssumption DEF EpIds
  <2> QED
    BY <2>2, <2>3, <2>4, <2>5 DEF DatabaseInv, Fresh
<1> HIDE DEF the, new, rowOf, evicted
<1>4. ASSUME NEW r \in Revs
      PROVE  \/ /\ rowOf(r) # {} /\ n.owner[r] = the(r) /\ n.box[r].ep = the(r)
             \/ n.owner[r] = d.owner[r] /\ (n.box[r] = d.box[r] \/ n.box[r] = NoRow)
  BY <1>1, <1>3
<1>5. NoRow.state = "absent"
  BY DEF NoRow
<1>6. Attributed(n)
  <2>1. SUFFICES ASSUME NEW r \in Revs
                 PROVE  /\ n.owner[r] # None => n.owner[r] < n.nextEp
                        /\ n.box[r].state # "absent" => n.box[r].ep = n.owner[r]
    BY DEF Attributed
  <2>2. CASE rowOf(r) # {} /\ n.owner[r] = the(r) /\ n.box[r].ep = the(r)
    BY <1>1, <1>3, <2>2
  <2>3. CASE n.owner[r] = d.owner[r] /\ (n.box[r] = d.box[r] \/ n.box[r] = NoRow)
    BY <1>1, <1>5, <2>3 DEF Paired, Attributed
  <2> QED
    BY <1>4, <2>2, <2>3
<1>7. ASSUME NEW r \in Revs, NEW e \in EpIds, n.owner[r] = e
      PROVE  \/ d.owner[r] = e
             \/ /\ d.ep[e].rev = r /\ d.ep[e].intent.state = "pending" /\ e \in Reached(d)
                /\ d.ep[e].status = "open"
  BY <1>3, <1>4, <1>7
<1>8. Single(n)
  <2>1. SUFFICES ASSUME NEW e \in EpIds, n.ep[e].key \in Disconnects
                 PROVE  /\ e < n.nextEp => n.ep[e].sev = "warning"
                        /\ \A r, s \in Revs : n.owner[r] = e /\ n.owner[s] = e => r = s
                        /\ n.ep[e].corr # None \/ n.ep[e].intent.state = "pending"
                           => Unannounced(n, e)
    BY DEF Single
  <2>2. d.ep[e].key \in Disconnects
    BY <1>2, <2>1
  <2>3. e < n.nextEp => n.ep[e].sev = "warning"
    BY <1>1, <1>2, <2>2 DEF Paired, Single
  <2>4. d.ep[e].intent.state = "pending" => Unannounced(d, e) /\ d.ep[e].corr = None
    BY <2>2 DEF Paired, Single, DatabaseInv, IntentIsCurrent
  <2>5. \A r, s \in Revs : n.owner[r] = e /\ n.owner[s] = e => r = s
    <3>1. \A r, s \in Revs : d.owner[r] = e /\ d.owner[s] = e => r = s
      BY <2>2 DEF Paired, Single
    <3> QED
      BY <1>7, <2>4, <3>1 DEF Unannounced
  <2>6. ASSUME n.ep[e].corr # None \/ n.ep[e].intent.state = "pending"
        PROVE  Unannounced(n, e)
    <3>1. Unannounced(d, e)
      BY <1>2, <2>2, <2>6 DEF Paired, Single
    <3>2. d.ep[e].intent.state = "pending" => e \notin Reached(d)
      BY <1>2, <2>4, <2>6
    <3> QED
      BY <1>7, <3>1, <3>2 DEF Unannounced
  <2> QED
    BY <2>3, <2>5, <2>6
<1>9. Correlated(n)
  <2>1. \A f \in EpIds : d.ep[f].corr # None => d.ep[f].corr \in EpIds
    BY Parts DEF Episode
  <2> QED
    BY <1>1, <1>2, <2>1 DEF Paired, Correlated
<1>10. TakenUnsent(n, M)
  <2>1. SUFFICES ASSUME NEW f \in EpIds, NEW s \in From(n.ep[f])
                 PROVE  s \in EpIds /\ Unsent(n, M, s)
    BY DEF TakenUnsent
  <2>2. s \in EpIds /\ Unsent(d, M, s)
    BY <1>2, <2>1 DEF Paired, TakenUnsent
  <2>3. Gone(n, s) /\ d.ep[s].status # "open"
    BY <1>2, <2>2 DEF Unsent, Gone
  <2>4. ASSUME NEW r \in Revs, n.owner[r] = s PROVE M[r] = 0 /\ n.box[r].state \notin Active
    <3>1. d.owner[r] = s
      BY <1>7, <2>2, <2>3, <2>4
    <3>2. s # None
      BY <2>1 DEF From
    <3>3. rowOf(r) = {}
      BY <1>3, <3>1, <3>2
    <3>4. n.box[r] = d.box[r] \/ n.box[r] = NoRow
      BY <1>4, <3>3
    <3> QED
      BY <1>5, <2>2, <3>1, <3>4 DEF Unsent, Active
  <2> QED
    BY <2>2, <2>3, <2>4 DEF Unsent
<1> QED
  BY <1>6, <1>8, <1>9, <1>10 DEF Paired, n

\* cancel_intent leaves the pairs.
LEMMA CancelPaired ==
  ASSUME NEW d \in Database, NEW M, Paired(d, M), NEW S
  PROVE  Paired(CancelIntent(d, S), M)
<1> DEFINE n == CancelIntent(d, S)
<1>1. n \in Database
  BY CancelServes
<1>2. /\ n.box = d.box /\ n.owner = d.owner /\ n.nextEp = d.nextEp
      /\ n.ep = [e \in EpIds |-> IF e \in S /\ d.ep[e].intent.state = "pending"
                                 THEN [d.ep[e] EXCEPT !.intent.state = "suppressed"]
                                 ELSE d.ep[e]]
  BY DEF CancelIntent, Database
<1> HIDE DEF n
<1>3. ASSUME NEW e \in EpIds
      PROVE  Alike(d.ep[e], n.ep[e]) /\ From(n.ep[e]) = From(d.ep[e])
  <2>1. d.ep[e] \in Episode
    BY Parts
  <2>2. n.ep[e] = IF e \in S /\ d.ep[e].intent.state = "pending"
                  THEN [d.ep[e] EXCEPT !.intent.state = "suppressed"] ELSE d.ep[e]
    BY <1>2
  <2>3. n.ep[e].intent.state = "pending" => d.ep[e].intent.state = "pending"
    BY <2>1, <2>2 DEF Episode
  <2>4. /\ n.ep[e].key = d.ep[e].key /\ n.ep[e].sev = d.ep[e].sev
        /\ n.ep[e].corr = d.ep[e].corr /\ n.ep[e].status = d.ep[e].status
        /\ n.ep[e].from = d.ep[e].from /\ n.ep[e].tp = d.ep[e].tp
    BY <2>1, <2>2 DEF Episode
  <2> QED
    BY <2>3, <2>4 DEF Alike, From
<1>4. \A r \in Revs : Fades(d.box[r], n.box[r])
  BY <1>2, NoFade
<1> QED
  BY ZenonT(40), <1>1, <1>2, <1>3, <1>4, FrameKeeps DEF n

\* So does the suppression of queued rows.
LEMMA SuppressPaired ==
  ASSUME NEW d \in Database, NEW M, Paired(d, M), NEW S
  PROVE  Paired(SuppressQueued(d, S), M)
<1> DEFINE n == SuppressQueued(d, S)
<1>1. /\ n.ep = d.ep /\ n.owner = d.owner /\ n.nextEp = d.nextEp
      /\ n.box = [r \in Revs |-> IF d.box[r].ep \in S /\ d.box[r].state = "queued"
                                 THEN [d.box[r] EXCEPT !.state = "suppressed"]
                                 ELSE d.box[r]]
      /\ n = [d EXCEPT !.box = n.box]
  BY DEF SuppressQueued, Database
<1> HIDE DEF n
<1>2. ASSUME NEW r \in Revs PROVE n.box[r] \in Row /\ Fades(d.box[r], n.box[r])
  <2>1. d.box[r] \in Row
    BY Parts
  <2> QED
    BY <1>1, <2>1 DEF Row, Fades, Active, Settled
<1>3. n \in Database
  BY <1>1, <1>2 DEF Database
<1>4. \A e \in EpIds : Alike(d.ep[e], n.ep[e])
  BY <1>1, NoFade
<1> QED
  BY <1>1, <1>2, <1>3, <1>4, FrameKeeps DEF n

\* A hand-over from an episode that is unsent.
LEMMA HandOverPaired ==
  ASSUME NEW d \in Database, DatabaseInv(d), NEW M, Paired(d, M), NEW e \in EpIds,
         Followers(d, e) # {} => Unsent(d, M, e)
  PROVE  Paired(HandOver(d, e), M)
<1> DEFINE f == First(Followers(d, e))
           x == [d.ep[f] EXCEPT !.corr = None, !.from = e]
           y == [d.ep[f] EXCEPT !.tp = TransferOf(d, e, f)]
           R == d.relieved \cup {e}
           taken == [d EXCEPT !.ep[f] = x, !.relieved = R]
           handed == [d EXCEPT !.ep[f] = y, !.relieved = R]
<1>1. CASE Followers(d, e) = {}
  BY <1>1 DEF HandOver
<1>2. CASE Followers(d, e) # {}
  <2>1. /\ f \in EpIds /\ d.ep[f].status = "open" /\ ~d.ep[f].ack /\ d.ep[f].corr = e
        /\ d.owner[d.ep[f].rev] = None /\ e # None
    BY <1>2, FollowersAre
  <2>2. HandOver(d, e) = IF d.ep[f].key \in Presence THEN handed
                         ELSE Admit(taken, f, d.ep[f].rev)
    BY <1>2 DEF HandOver
  <2>0. R \in SUBSET EpIds
    BY Parts
  <2> HIDE DEF f, R
  <2>3. d.ep[f] \in Episode /\ d.ep[f].intent \in Intent
    BY <2>1, Parts
  <2>4. TransferOf(d, e, f) \in Transfer /\ TransferOf(d, e, f).from = e
    BY <2>3, Parts, BoundsAssumption DEF TransferOf, Transfer, Episode, Ages
  <2>5. x \in Episode /\ y \in Episode
    BY <2>3, <2>4 DEF Episode
  <2>6. /\ Alike(d.ep[f], x) /\ Alike(d.ep[f], y)
        /\ x.corr = None /\ x.rev = d.ep[f].rev /\ x.status = "open" /\ x.ack = d.ep[f].ack
        /\ x.key = d.ep[f].key /\ x.tp = d.ep[f].tp
        /\ x.intent = d.ep[f].intent
        /\ From(x) \subseteq From(d.ep[f]) \cup {e}
        /\ From(y) \subseteq From(d.ep[f]) \cup {e}
    <3>1. Alike(d.ep[f], x) /\ Alike(d.ep[f], y)
      BY <2>1, <2>3 DEF Alike, Episode
    <3>2. /\ x.corr = None /\ x.rev = d.ep[f].rev /\ x.status = "open" /\ x.ack = d.ep[f].ack
          /\ x.key = d.ep[f].key /\ x.intent = d.ep[f].intent
          /\ x.tp = d.ep[f].tp /\ x.from = e
      BY <2>1, <2>3 DEF Episode
    <3>3. y.tp = TransferOf(d, e, f) /\ y.from = d.ep[f].from
      BY <2>3 DEF Episode
    <3> HIDE DEF x, y
    <3> QED
      BY <2>4, <3>1, <3>2, <3>3 DEF From
  <2>7. /\ taken.ep = [d.ep EXCEPT ![f] = x] /\ taken.box = d.box /\ taken.owner = d.owner
        /\ taken.nextEp = d.nextEp /\ taken \in Database
        /\ handed.ep = [d.ep EXCEPT ![f] = y] /\ handed.box = d.box
        /\ handed.owner = d.owner /\ handed.nextEp = d.nextEp /\ handed \in Database
    BY <2>0, <2>1, <2>5, Parts DEF Database
  <2> HIDE DEF x, y
  <2>8. taken.ep[f] = x /\ handed.ep[f] = y
        /\ \A g \in EpIds : g # f => taken.ep[g] = d.ep[g] /\ handed.ep[g] = d.ep[g]
    BY <2>1, <2>7, Parts
  <2> HIDE DEF taken, handed
  <2>9. \A r \in Revs : Fades(d.box[r], taken.box[r]) /\ Fades(d.box[r], handed.box[r])
    BY <2>7, NoFade
  <2>10. \A g \in EpIds : Alike(d.ep[g], taken.ep[g]) /\ Alike(d.ep[g], handed.ep[g])
    BY <2>6, <2>8, NoFade
  <2>11. \A g \in EpIds : \A s \in From(taken.ep[g]) \cup From(handed.ep[g]) :
           s \in From(d.ep[g]) \/ (s \in EpIds /\ Unsent(d, M, s))
    BY <1>2, <2>6, <2>8
  <2>12. Paired(taken, M) /\ Paired(handed, M)
    BY <2>7, <2>9, <2>10, <2>11, FrameKeeps
  <2>13. CASE d.ep[f].key \in Presence
    BY <2>2, <2>12, <2>13
  <2>14. CASE d.ep[f].key \notin Presence
    <3>1. d.ep[f].key \in Disconnects /\ Unannounced(d, f)
      BY <2>1 DEF Paired, Correlated, Single
    <3>2. DatabaseInv(taken)
      <4>1. x.tp = None
        BY <2>1, <2>6, <2>14 DEF DatabaseInv, MutedIsUnannounced
      <4>2. Kept(d, taken)
        BY <2>0, <2>1, <2>5, <2>6, <4>1, TouchKeeps DEF taken
      <4> QED
        BY <4>2 DEF Kept
    <3>3. Unannounced(taken, f)
      BY <2>7, <3>1 DEF Unannounced
    <3>4. /\ taken.ep[f].status = "open" /\ taken.ep[f].corr = None
          /\ taken.owner[taken.ep[f].rev] = None /\ taken.ep[f].rev = d.ep[f].rev
      BY <2>1, <2>6, <2>7, <2>8
    <3>5. Paired(Admit(taken, f, taken.ep[f].rev), M)
      BY <2>1, <2>7, <2>12, <3>2, <3>3, <3>4, AdmitPaired
    <3> QED
      BY <2>2, <2>14, <3>4, <3>5
  <2> QED
    BY <2>13, <2>14
<1> QED
  BY <1>1, <1>2

\* A recovery hands over only what it withdraws: the row was queued, or the intent pending.
LEMMA RecoverPaired ==
  ASSUME NEW d \in Database, DatabaseInv(d), NEW M, Paired(d, M), Unmade(d, M),
         NEW e \in EpIds, d.ep[e].status = "open", d.nextRev \in Revs
  PROVE  Paired(Recover(d, e), M)
<1> DEFINE x == [d.ep[e] EXCEPT !.status = "resolved", !.rev = d.nextRev, !.ack = FALSE,
                                !.epoch = None, !.corr = None, !.tp = None, !.from = None]
           m == Closed(d, e)
           c == CancelIntent(m, {e})
           w == SuppressQueued(c, {e})
<1>1. m \in Database /\ Kept(d, w)
  BY RecoverKeeps
<1>2. /\ m.ep = [d.ep EXCEPT ![e] = x] /\ m.box = d.box /\ m.owner = d.owner
      /\ m.nextEp = d.nextEp
  BY DEF Closed, Database
<1>3. Alike(d.ep[e], x) /\ From(x) = {} /\ x.status = "resolved"
  <2>1. d.ep[e] \in Episode
    BY Parts
  <2>2. x.from = None /\ x.tp = None
    BY <2>1 DEF Episode
  <2>3. Alike(d.ep[e], x) /\ x.status = "resolved"
    BY <2>1 DEF Alike, Episode
  <2> HIDE DEF x
  <2> QED
    BY <2>2, <2>3 DEF From
<1>4. Recover(d, e) = IF AwaitsDelivery(d, e) THEN HandOver(w, e) ELSE w
  BY DEF Recover
<1> HIDE DEF x, m
<1>5. m.ep[e] = x /\ \A f \in EpIds : f # e => m.ep[f] = d.ep[f]
  BY <1>2, Parts
<1>6. Paired(m, M)
  <2>1. \A r \in Revs : Fades(d.box[r], m.box[r])
    BY <1>2, NoFade
  <2>2. \A f \in EpIds : Alike(d.ep[f], m.ep[f]) /\ From(m.ep[f]) \subseteq From(d.ep[f])
    BY <1>3, <1>5, NoFade
  <2> QED
    BY <1>1, <1>2, <2>1, <2>2, FrameKeeps
<1>7. Paired(c, M) /\ c \in Database /\ c.box = m.box
      /\ \A f \in EpIds : c.ep[f].status = m.ep[f].status /\ c.ep[f].corr = m.ep[f].corr
  BY <1>1, <1>6, CancelPaired, CancelServes
<1>8. c.owner = m.owner
  BY <1>1 DEF CancelIntent, Database
<1> HIDE DEF c
<1>9. Paired(w, M) /\ w.ep = c.ep /\ w.owner = c.owner
  BY <1>7, SuppressPaired, SuppressServes
<1>10. w.box = [r \in Revs |-> IF c.box[r].ep \in {e} /\ c.box[r].state = "queued"
                               THEN [c.box[r] EXCEPT !.state = "suppressed"]
                               ELSE c.box[r]]
  BY <1>7 DEF SuppressQueued, Database
<1> HIDE DEF w
<1>11. ASSUME AwaitsDelivery(d, e), Followers(w, e) # {}
       PROVE  Unsent(w, M, e)
  <2>1. PICK f \in EpIds : w.ep[f].corr = e
    BY <1>11 DEF Followers
  <2>2. e # None
    BY KeysAssumption DEF EpIds
  <2>3. d.ep[f].corr = e
    BY <1>3, <1>5, <1>7, <1>9, <2>1, <2>2 DEF Alike
  <2>4. d.ep[e].key \in Disconnects
    BY <2>2, <2>3 DEF Paired, Correlated
  <2>5. ASSUME NEW r \in Revs, w.owner[r] = e
        PROVE  M[r] = 0 /\ w.box[r].state \notin Active
    <3>1. d.owner[r] = e
      BY <1>2, <1>8, <1>9, <2>5
    <3>2. d.ep[e].intent.state # "pending"
      BY <2>4, <3>1 DEF Paired, Single, Unannounced
    <3>3. PICK q \in Revs : d.box[q].ep = e /\ d.box[q].state = "queued"
      BY <1>11, <3>2 DEF AwaitsDelivery
    <3>4. q = r
      BY <2>4, <3>1, <3>3 DEF Paired, Single, Attributed
    <3>5. w.box[r] = [d.box[r] EXCEPT !.state = "suppressed"]
      BY <1>2, <1>7, <1>10, <3>3, <3>4
    <3>6. w.box[r].state = "suppressed"
      BY <3>5, Parts DEF Row
    <3> QED
      BY <3>3, <3>4, <3>6 DEF Unmade, Active
  <2>6. Gone(w, e)
    BY <1>3, <1>5, <1>7, <1>9 DEF Gone
  <2> QED
    BY <2>5, <2>6 DEF Unsent
<1>12. AwaitsDelivery(d, e) => Paired(HandOver(w, e), M)
  BY <1>1, <1>9, <1>11, HandOverPaired DEF Kept
<1> QED
  BY <1>4, <1>9, <1>12

\* A condition of a disconnect is a warning.
Steady(c) == c.key \in Disconnects => c.sev = "warning"

\* A disconnect is opened once, and opened it has announced nothing.
LEMMA ReopenPaired ==
  ASSUME NEW d \in Database, DatabaseInv(d), NEW M, Paired(d, M),
         NEW e \in EpIds, NEW c \in Condition, Steady(c), d.nextRev \in Revs,
         \/ e = d.nextEp
         \/ d.ep[e].status = "open" /\ d.ep[e].key = c.key /\ Transition(d, e, c)
  PROVE  Paired(Reopen(d, e, c), M)
<1> DEFINE x == [d.ep[e] EXCEPT !.key = c.key, !.status = "open", !.sev = SevOf(d, e, c),
                                !.rev = d.nextRev, !.ack = FALSE, !.epoch = c.epoch,
                                !.corr = CorrOf(d, e, c), !.tp = None, !.from = None]
           m == Opened(d, e, c)
           told == CancelIntent(m, {e})
           warns == CorrOf(d, e, c) = None /\ SevOf(d, e, c) \in {"warning", "critical"}
           n == Admit(told, e, told.ep[e].rev)
<1>1. /\ \A f \in EpIds : f \in Nat
      /\ d.nextEp \in Nat /\ None \notin Nat
      /\ \A f \in EpIds : d.ep[f].status \in {"open", "resolved", "deleted"} => f < d.nextEp
      /\ e = d.nextEp => d.ep[e].status = "unused"
      /\ e <= d.nextEp
  <2>1. /\ \A f \in EpIds : f \in Nat
        /\ d.nextEp \in Nat /\ None \notin Nat
    BY Parts, BoundsAssumption, KeysAssumption DEF EpIds
  <2>2. \A f \in EpIds : d.ep[f].status = "unused" <=> f >= d.nextEp
    BY DEF DatabaseInv, Fresh
  <2> QED
    BY <2>1, <2>2
<1>2. /\ m \in Database /\ Kept(d, told) /\ told.owner[told.ep[e].rev] = None
      /\ Reopen(d, e, c) = IF warns THEN n ELSE told
  BY <1>1, ReopenKeeps
<1>3. /\ m.ep = [d.ep EXCEPT ![e] = x] /\ m.box = d.box /\ m.owner = d.owner
      /\ m.nextEp = IF e = d.nextEp THEN d.nextEp + 1 ELSE d.nextEp
  BY DEF Opened, Database
<1>4. /\ x.key = c.key /\ x.sev = SevOf(d, e, c) /\ x.corr = CorrOf(d, e, c)
      /\ x.status = "open" /\ x.tp = None /\ x.from = None
  BY Parts DEF Episode
<1> HIDE DEF x, m
<1>5. m.ep[e] = x /\ \A f \in EpIds : f # e => m.ep[f] = d.ep[f]
  BY <1>3, Parts
<1>6. From(x) = {}
  BY <1>4 DEF From
<1>7. e < d.nextEp => d.ep[e].key = c.key /\ c.key \notin Disconnects
  <2>1. SUFFICES ASSUME e < d.nextEp PROVE d.ep[e].key = c.key /\ c.key \notin Disconnects
    OBVIOUS
  <2>2. d.ep[e].key = c.key /\ d.ep[e].sev # c.sev
    BY <1>1, <2>1 DEF Transition
  <2>3. c.key \in Disconnects => d.ep[e].sev = "warning"
    BY <2>1, <2>2 DEF Paired, Single
  <2> QED
    BY <2>2, <2>3 DEF Steady
<1>8. c.key \in Disconnects =>
        /\ e = d.nextEp /\ SevOf(d, e, c) = "warning" /\ Unannounced(d, e)
  <2>1. SUFFICES ASSUME c.key \in Disconnects
                 PROVE  /\ e = d.nextEp /\ SevOf(d, e, c) = "warning" /\ Unannounced(d, e)
    OBVIOUS
  <2>2. e = d.nextEp /\ d.ep[e].status = "unused"
    BY <1>1, <1>7, <2>1
  <2>3. SevOf(d, e, c) = "warning"
    BY <2>1, <2>2 DEF SevOf, Steady
  <2>4. ASSUME NEW r \in Revs, d.owner[r] = e PROVE FALSE
    <3>1. e # None /\ ~(e < e)
      BY <1>1
    <3>2. e < e
      BY <2>2, <2>4, <3>1 DEF Paired, Attributed
    <3> QED
      BY <3>1, <3>2
  <2> QED
    BY <2>2, <2>3, <2>4 DEF Unannounced
<1>9. x.corr # None =>
        /\ c.key \in Disconnects
        /\ x.corr \in EpIds /\ x.corr # e /\ x.corr < d.nextEp
        /\ d.ep[x.corr].key \in Disconnects
  <2>1. SUFFICES ASSUME x.corr # None
                 PROVE  /\ c.key \in Disconnects
                        /\ x.corr \in EpIds /\ x.corr # e /\ x.corr < d.nextEp
                        /\ d.ep[x.corr].key \in Disconnects
    OBVIOUS
  <2>2. RelatedTo(d, e, c) # {} /\ x.corr = First(RelatedTo(d, e, c))
    BY <1>4, <2>1 DEF CorrOf
  <2>3. c.key \in Disconnects /\ RelatedTo(d, e, c) = SameDisconnect(d, e, c)
    BY <2>2 DEF RelatedTo, Disconnects
  <2>4. SameDisconnect(d, e, c) \in SUBSET EpIds
    BY DEF SameDisconnect
  <2>5. x.corr \in SameDisconnect(d, e, c)
    BY <2>2, <2>3, <2>4, FirstIsIn
  <2> QED
    BY <1>1, <2>3, <2>5 DEF SameDisconnect, Disconnects
<1>10. d.nextEp <= m.nextEp /\ m.nextEp \in Nat /\ e < m.nextEp
  BY <1>1, <1>3
<1>11. Attributed(m)
  <2>1. \A r \in Revs : d.owner[r] # None => d.owner[r] \in Nat
    BY <1>1, Parts
  <2> QED
    BY <1>1, <1>3, <1>10, <2>1 DEF Paired, Attributed
<1>12. Single(m)
  <2>1. SUFFICES ASSUME NEW f \in EpIds, m.ep[f].key \in Disconnects
                 PROVE  /\ f < m.nextEp => m.ep[f].sev = "warning"
                        /\ \A r, s \in Revs : m.owner[r] = f /\ m.owner[s] = f => r = s
                        /\ m.ep[f].corr # None \/ m.ep[f].intent.state = "pending"
                           => Unannounced(m, f)
    BY DEF Single
  <2>2. CASE f = e
    <3>1. c.key \in Disconnects
      BY <1>4, <1>5, <2>1, <2>2
    <3>2. m.ep[f].sev = "warning" /\ Unannounced(m, f)
      BY <1>3, <1>4, <1>5, <1>8, <2>2, <3>1 DEF Unannounced
    <3> QED
      BY <3>2 DEF Unannounced
  <2>3. CASE f # e
    <3>1. m.ep[f] = d.ep[f] /\ (f < m.nextEp => f < d.nextEp)
      BY <1>1, <1>3, <1>5, <2>3
    <3> QED
      BY <1>3, <2>1, <3>1 DEF Paired, Single, Unannounced
  <2> QED
    BY <2>2, <2>3
<1>13. Correlated(m)
  <2>1. SUFFICES ASSUME NEW f \in EpIds, m.ep[f].corr # None
                 PROVE  /\ m.ep[f].key \in Disconnects
                        /\ m.ep[f].corr < m.nextEp /\ m.ep[m.ep[f].corr].key \in Disconnects
    BY DEF Correlated
  <2>2. CASE f = e
    BY <1>1, <1>4, <1>5, <1>9, <1>10, <2>1, <2>2
  <2>3. CASE f # e
    <3>1. /\ m.ep[f] = d.ep[f] /\ d.ep[f].corr \in EpIds /\ d.ep[f].corr # None
          /\ d.ep[f].key \in Disconnects
          /\ d.ep[f].corr < d.nextEp /\ d.ep[d.ep[f].corr].key \in Disconnects
      BY <1>5, <2>1, <2>3, Parts DEF Episode, Paired, Correlated
    <3>2. d.ep[f].corr < m.nextEp
      BY <1>1, <1>10, <3>1
    <3>3. m.ep[d.ep[f].corr].key \in Disconnects
      BY <1>4, <1>5, <1>7, <3>1
    <3> QED
      BY <3>1, <3>2, <3>3
  <2> QED
    BY <2>2, <2>3
<1>14. TakenUnsent(m, M)
  <2>1. SUFFICES ASSUME NEW f \in EpIds, NEW s \in From(m.ep[f])
                 PROVE  s \in EpIds /\ Unsent(m, M, s)
    BY DEF TakenUnsent
  <2>2. s \in EpIds /\ Unsent(d, M, s)
    BY <1>5, <1>6, <2>1 DEF Paired, TakenUnsent
  <2>3. s # e
    BY <1>1, <2>2 DEF Unsent, Gone
  <2> QED
    BY <1>3, <1>5, <2>2, <2>3 DEF Unsent, Gone
<1>15. Paired(m, M)
  BY <1>11, <1>12, <1>13, <1>14 DEF Paired
<1>16. /\ Paired(told, M)
       /\ told.ep[e].status = "open" /\ told.ep[e].corr = CorrOf(d, e, c)
  BY <1>2, <1>4, <1>5, <1>15, CancelPaired, CancelServes
<1>17. told.ep[e].key = c.key /\ told.owner = d.owner
  BY <1>2, <1>3, <1>4, <1>5, Parts DEF CancelIntent, Database, Episode
<1> HIDE DEF told
<1>18. warns => Paired(n, M)
  <2>1. c.key \in Disconnects => Unannounced(told, e)
    BY <1>8, <1>17 DEF Unannounced
  <2>2. told \in Database /\ DatabaseInv(told)
    BY <1>2 DEF Kept
  <2> QED
    BY <1>2, <1>16, <1>17, <2>1, <2>2, AdmitPaired
<1> QED
  BY <1>2, <1>16, <1>18

\* An observation without a transition takes over only what was noted as unsent.
LEMMA RefreshPaired ==
  ASSUME NEW d \in Database, DatabaseInv(d), NEW M, Paired(d, M),
         NEW e \in EpIds, NEW c \in Condition,
         d.ep[e].status = "open", ~Transition(d, e, c)
  PROVE  Paired(Refresh(d, e, c), M)
<1> DEFINE old == d.ep[e]
           sev == IF c.fresh THEN c.sev ELSE old.sev
           x == [old EXCEPT !.sev = sev, !.epoch = c.epoch]
           y == [old EXCEPT !.sev = sev, !.epoch = c.epoch, !.tp = None, !.corr = None,
                            !.from = old.tp.from]
           seen == [d EXCEPT !.ep[e] = x]
           redeemed == [d EXCEPT !.ep[e] = y]
<1>1. old \in Episode /\ c.epoch \in Epochs \cup {None} /\ sev = old.sev
  <2>1. old \in Episode
    BY Parts
  <2> QED
    BY <2>1 DEF Transition, Condition
<1>2. Refresh(d, e, c) = IF Redeems(d, e, c) THEN Admit(redeemed, e, old.rev) ELSE seen
  BY DEF Refresh
<1> HIDE DEF sev
<1>3. \A r \in Revs : Fades(d.box[r], d.box[r])
  BY NoFade
<1>4. Paired(seen, M)
  <2>1. x \in Episode /\ Alike(old, x) /\ x.from = old.from /\ x.tp = old.tp
    BY <1>1 DEF Alike, Episode
  <2>2. From(x) = From(old)
    BY <2>1 DEF From
  <2>3. /\ seen.ep = [d.ep EXCEPT ![e] = x] /\ seen.box = d.box /\ seen.owner = d.owner
        /\ seen.nextEp = d.nextEp /\ seen \in Database
    BY <2>1, Parts DEF Database
  <2> HIDE DEF x, seen
  <2>4. \A f \in EpIds : Alike(d.ep[f], seen.ep[f]) /\ From(seen.ep[f]) = From(d.ep[f])
    BY <2>1, <2>2, <2>3, NoFade, Parts
  <2> QED
    BY ZenonT(40), <1>3, <2>3, <2>4, FrameKeeps
<1>5. ASSUME Redeems(d, e, c)
      PROVE  Paired(Admit(redeemed, e, old.rev), M)
  <2>1. old.tp \in Transfer /\ old.tp # None
    BY <1>1, <1>5 DEF Redeems, Episode
  <2>2. old.tp.from \in EpIds
    BY <2>1 DEF Transfer
  <2>3. d.owner[old.rev] = None /\ old.corr # None
    BY <2>1 DEF DatabaseInv, MutedIsUnannounced
  <2>4. Unannounced(d, e)
    BY <2>3 DEF Paired, Correlated, Single
  <2>5. /\ y \in Episode /\ Alike(old, y) /\ y.from = old.tp.from /\ y.tp = None
        /\ y.corr = None /\ y.rev = old.rev /\ y.status = "open" /\ y.ack = old.ack
        /\ y.intent = old.intent
    BY <1>1, <2>2 DEF Alike, Episode
  <2>6. From(y) \subseteq From(old)
    BY <2>1, <2>5 DEF From
  <2>7. /\ redeemed.ep = [d.ep EXCEPT ![e] = y] /\ redeemed.box = d.box
        /\ redeemed.owner = d.owner /\ redeemed.nextEp = d.nextEp /\ redeemed \in Database
    BY <2>5, Parts DEF Database
  <2> HIDE DEF y
  <2>8. Kept(d, redeemed)
    <3>1. y.tp # None => y.corr # None /\ y.key \in Presence
      BY <2>5
    <3>2. y.corr \in {d.ep[e].corr, None} /\ d.ep[e].status # "unused"
      BY <2>5
    <3> QED
      BY <2>5, <3>1, <3>2, TouchKeeps
  <2> HIDE DEF redeemed
  <2>9. redeemed.ep[e] = y /\ \A f \in EpIds : f # e => redeemed.ep[f] = d.ep[f]
    BY <2>7, Parts
  <2>10. \A f \in EpIds :
           Alike(d.ep[f], redeemed.ep[f]) /\ From(redeemed.ep[f]) \subseteq From(d.ep[f])
    BY <2>5, <2>6, <2>9, NoFade
  <2>11. Paired(redeemed, M)
    BY <1>3, <2>7, <2>10, FrameKeeps
  <2>12. Unannounced(redeemed, e)
    BY <2>4, <2>7 DEF Unannounced
  <2>13. DatabaseInv(redeemed)
    BY <2>8 DEF Kept
  <2>14. redeemed.owner[redeemed.ep[e].rev] = None /\ redeemed.ep[e].rev = old.rev
    BY <2>3, <2>5, <2>7, <2>9
  <2>15. Paired(Admit(redeemed, e, redeemed.ep[e].rev), M)
    BY <2>5, <2>7, <2>9, <2>11, <2>12, <2>13, <2>14, AdmitPaired
  <2> QED
    BY <2>14, <2>15
<1> QED
  BY <1>2, <1>4, <1>5

\* observe_condition, whichever branch it takes.
LEMMA ObservePaired ==
  ASSUME NEW d \in Database, DatabaseInv(d), NEW M, Paired(d, M), Unmade(d, M),
         NEW c \in Condition, Steady(c), d.nextEp \in EpIds, d.nextRev \in Revs
  PROVE  Paired(Observe(d, c), M)
<1> DEFINE open == OpenEpisodes(d, c.key)
           e == IF open = {} THEN d.nextEp ELSE First(open)
           flagged == [d EXCEPT !.limited = TRUE]
<1>1. open # {} => e \in EpIds /\ d.ep[e].status = "open" /\ d.ep[e].key = c.key
  <2>1. open \in SUBSET EpIds
    BY DEF OpenEpisodes
  <2>2. open # {} => e \in open
    BY <2>1, FirstIsIn
  <2> QED
    BY <2>2 DEF OpenEpisodes
<1>2. Paired(flagged, M)
  <2>1. /\ flagged.ep = d.ep /\ flagged.box = d.box /\ flagged.owner = d.owner
        /\ flagged.nextEp = d.nextEp /\ flagged \in Database
    BY DEF Database
  <2> HIDE DEF flagged
  <2>2. \A r \in Revs : Fades(d.box[r], flagged.box[r])
    BY <2>1, NoFade
  <2>3. \A f \in EpIds : Alike(d.ep[f], flagged.ep[f])
    BY <2>1, NoFade
  <2> QED
    BY <2>1, <2>2, <2>3, FrameKeeps
<1>3. open # {} => Paired(Recover(d, e), M)
  BY <1>1, RecoverPaired
<1>4. open = {} \/ Transition(d, e, c) => Paired(Reopen(d, e, c), M)
  <2>1. CASE open = {}
    BY <2>1, ReopenPaired
  <2>2. CASE open # {}
    BY <1>1, <2>2, ReopenPaired
  <2> QED
    BY <2>1, <2>2
<1>5. open # {} /\ ~Transition(d, e, c) => Paired(Refresh(d, e, c), M)
  BY <1>1, RefreshPaired
<1>6. \/ Observe(d, c) = d \/ Observe(d, c) = flagged
      \/ open # {} /\ Observe(d, c) = Recover(d, e)
      \/ (open = {} \/ Transition(d, e, c)) /\ Observe(d, c) = Reopen(d, e, c)
      \/ open # {} /\ ~Transition(d, e, c) /\ Observe(d, c) = Refresh(d, e, c)
  BY DEF Observe
<1> HIDE DEF open, e, flagged
<1> QED
  BY <1>2, <1>3, <1>4, <1>5, <1>6

\* acknowledge
LEMMA AcknowledgePaired ==
  ASSUME NEW d \in Database, DatabaseInv(d), NEW M, Paired(d, M), NEW e \in EpIds,
         d.ep[e].status = "open", d.nextRev \in Revs
  PROVE  Paired(Acknowledge(d, e), M)
<1> DEFINE x == [d.ep[e] EXCEPT !.ack = TRUE, !.rev = d.nextRev]
           m == Noted(d, e)
<1>1. /\ m.ep = [d.ep EXCEPT ![e] = x] /\ m.box = d.box /\ m.owner = d.owner
      /\ m.nextEp = d.nextEp
  BY DEF Noted, Database
<1>2. x \in Episode /\ Alike(d.ep[e], x) /\ From(x) = From(d.ep[e])
  <2>1. d.ep[e] \in Episode
    BY Parts
  <2>2. x \in Episode /\ Alike(d.ep[e], x) /\ x.from = d.ep[e].from /\ x.tp = d.ep[e].tp
    BY <2>1 DEF Episode, Alike
  <2> HIDE DEF x
  <2> QED
    BY <2>2 DEF From
<1>3. m \in Database
  <2>1. [d.ep EXCEPT ![e] = x] \in [EpIds -> Episode] /\ d.nextRev + 1 \in 1..(MaxRev + 1)
    BY <1>2, Parts, BoundsAssumption DEF Revs
  <2> QED
    BY <2>1 DEF Noted, Database
<1> HIDE DEF x, m
<1>4. \A f \in EpIds : Alike(d.ep[f], m.ep[f]) /\ From(m.ep[f]) = From(d.ep[f])
  BY <1>1, <1>2, NoFade, Parts
<1>5. \A r \in Revs : Fades(d.box[r], m.box[r])
  BY <1>1, NoFade
<1>6. Paired(m, M)
  BY ZenonT(40), <1>1, <1>3, <1>4, <1>5, FrameKeeps
<1>7. CancelIntent(m, {e}) \in Database /\ Paired(CancelIntent(m, {e}), M)
  BY <1>3, <1>6, CancelPaired, CancelServes
<1> QED
  BY <1>7, SuppressPaired DEF Acknowledge, m

\* configure
LEMMA ConfigurePaired ==
  ASSUME NEW d \in Database, NEW M, Paired(d, M), NEW enabled \in BOOLEAN
  PROVE  Paired(Configure(d, enabled), M)
<1> DEFINE c == CancelIntent(d, EpIds)
           s == SuppressQueued(c, EpIds)
           n == Configure(d, enabled)
<1>1. c \in Database /\ Paired(c, M)
  BY CancelPaired, CancelServes
<1> HIDE DEF c
<1>2. Paired(s, M)
  BY <1>1, SuppressPaired
<1>3. /\ n.ep = s.ep /\ n.box = s.box /\ n.owner = s.owner /\ n.nextEp = s.nextEp
  BY <1>1 DEF Configure, SuppressQueued, Database, c
<1> HIDE DEF n, s
<1> QED
  BY <1>2, <1>3 DEF Paired, Attributed, Single, Correlated, TakenUnsent, Unsent, Gone,
                    Unannounced, n

\* The head of reconcile.
LEMMA RetainPaired ==
  ASSUME NEW d \in Database, DatabaseInv(d), NEW M, Paired(d, M),
         NEW rs \in SUBSET Forgettable(d), NEW es \in SUBSET Unreferenced(d, rs)
  PROVE  Paired(Retain(d, rs, es), M)
<1> DEFINE m == Pruned(d, rs, es)
<1>1. /\ Kept(d, m) /\ SameCounters(d, m)
      /\ m.box = [r \in Revs |-> IF r \in rs THEN NoRow ELSE d.box[r]]
      /\ \A e \in es : e \in EpIds /\ d.ep[e].status = "resolved"
      /\ \A e \in EpIds :
           /\ m.ep[e].corr = d.ep[e].corr /\ m.ep[e].sev = d.ep[e].sev
           /\ m.ep[e].intent = d.ep[e].intent /\ m.ep[e].key = d.ep[e].key
           /\ m.ep[e].from = d.ep[e].from /\ m.ep[e].tp = d.ep[e].tp
           /\ m.ep[e].status = IF e \in es THEN "deleted" ELSE d.ep[e].status
  BY PrunedKeeps
<1>2. Retain(d, rs, es) = RetryPending(m) /\ m.owner = d.owner
  BY DEF Retain, Pruned, Database
<1> HIDE DEF m
<1>3. \A r \in Revs : Fades(d.box[r], m.box[r])
  BY <1>1 DEF Fades, NoRow, Active
<1>4. \A e \in EpIds : Alike(d.ep[e], m.ep[e])
  BY <1>1 DEF Alike
<1>5. \A e \in EpIds : From(m.ep[e]) = From(d.ep[e])
  BY <1>1 DEF From
<1>6. m \in Database /\ DatabaseInv(m) /\ m.nextEp = d.nextEp
  BY <1>1 DEF Kept, SameCounters
<1>7. Paired(m, M)
  BY <1>2, <1>3, <1>4, <1>5, <1>6, FrameKeeps
<1> QED
  BY <1>2, <1>6, <1>7, RetryPaired

\* The tail of reconcile.
LEMMA ReconciledPaired ==
  ASSUME NEW d \in Database, DatabaseInv(d), NEW M, Paired(d, M)
  PROVE  Paired(Reconciled(d), M)
<1> DEFINE m == RetryPending(d)
           n == Reconciled(d)
<1>1. m \in Database /\ Paired(m, M)
  BY RetryPendingKeeps, RetryPaired DEF Kept
<1>2. /\ n.ep = m.ep /\ n.box = m.box /\ n.owner = m.owner /\ n.nextEp = m.nextEp
  BY <1>1 DEF Reconciled, Database
<1> HIDE DEF m, n
<1> QED
  BY <1>1, <1>2 DEF Paired, Attributed, Single, Correlated, TakenUnsent, Unsent, Gone,
                    Unannounced, n

\* The sweep.
LEMMA SweepPaired ==
  ASSUME NEW d \in Database, DatabaseInv(d), NEW M, Paired(d, M)
  PROVE  Paired(Sweep(d), M)
<1> DEFINE m == Swept(d)
<1>1. /\ m \in Database /\ DatabaseInv(m)
      /\ m.ep = d.ep /\ m.owner = d.owner /\ m.nextEp = d.nextEp
      /\ \A r \in Revs : m.box[r].ep = d.box[r].ep
      /\ \A r \in Revs :
           \/ m.box[r] = d.box[r]
           \/ d.box[r].state \in Active /\ m.box[r].state \in Settled
  <2>1. /\ m \in Database /\ DatabaseInv(m)
        /\ m.ep = d.ep /\ m.owner = d.owner /\ m.nextEp = d.nextEp
        /\ \A r \in Revs : m.box[r].ep = d.box[r].ep
        /\ \A r \in Revs :
             \/ m.box[r] = d.box[r] /\ d.box[r].state # "sending"
             \/ /\ \/ d.box[r].state = "sending"
                   \/ d.box[r].state \in {"accepted", "queued"} /\ d.box[r].age = MaxAge
                /\ m.box[r].state \in Settled
    BY SweptKeeps
  <2> HIDE DEF m
  <2> QED
    BY <2>1 DEF Active
<1>2. Sweep(d) = RetryPending(m)
  BY DEF Sweep, Swept
<1> HIDE DEF m
<1>3. \A r \in Revs : Fades(d.box[r], m.box[r])
  BY <1>1 DEF Fades, Active
<1>4. \A e \in EpIds : Alike(d.ep[e], m.ep[e])
  BY <1>1, NoFade
<1>5. Paired(m, M)
  BY <1>1, <1>3, <1>4, FrameKeeps
<1> QED
  BY <1>1, <1>2, <1>5, RetryPaired

-----------------------------------------------------------------------------
(* The pairs along the steps of the specification.                         *)

PairedInv == IInv /\ Paired(db, made)

\* As RowInv says of each row.
LEMMA NothingMade == IInv => Unmade(db, made)
BY DEF IInv, RowInv, Unmade

\* A message made of a row that is still active changes no unsent episode.
LEMMA MadePaired ==
  ASSUME NEW d, NEW M, NEW N, Paired(d, M), NEW w \in Revs, d.box[w].state \in Active,
         \A r \in Revs : r # w => N[r] = M[r]
  PROVE  Paired(d, N)
<1>1. \A e : Unsent(d, M, e) => Unsent(d, N, e)
  BY DEF Unsent
<1> QED
  BY <1>1 DEF Paired, TakenUnsent

\* A reported condition.
LEMMA IngestPaired ==
  ASSUME PairedInv, NEW c \in Reports, Ingest(c)
  PROVE  Paired(db', made')
<1>1. db \in Database /\ DatabaseInv(db) /\ c \in Condition
  BY ReportsAssumption DEF PairedInv, IInv, TypeOK
<1>2. db.nextEp \in EpIds /\ db.nextRev \in Revs
  BY <1>1, Parts, BoundsAssumption DEF Ingest, Room, EpIds, Revs
<1>3. Steady(c)
  BY DisconnectAssumption DEF Steady, Disconnects
<1>4. Paired(db, made) /\ Unmade(db, made)
  BY NothingMade DEF PairedInv
<1>5. Paired(Observe(db, c), made)
  BY <1>1, <1>2, <1>3, <1>4, ObservePaired
<1> QED
  BY <1>5 DEF Ingest

\* A reconciliation pass.
LEMMA ReconcilePaired ==
  ASSUME PairedInv, NEW batch \in Batches, NEW rs \in SUBSET Forgettable(db),
         NEW es \in SUBSET Unreferenced(db, rs), Reconcile(batch, rs, es)
  PROVE  Paired(db', made')
<1> DEFINE a == Retain(db, rs, es)
           b == Observe(a, batch[1])
           c == Observe(b, batch[2])
<1>1. db \in Database /\ DatabaseInv(db) /\ batch[1] \in Condition /\ batch[2] \in Condition
  BY ReportsAssumption DEF PairedInv, IInv, TypeOK
<1>2. db.nextEp \in Nat /\ db.nextRev \in Nat /\ db.nextEp >= 1 /\ db.nextRev >= 1
      /\ db.nextEp + 2 <= MaxEp + 1 /\ db.nextRev + 2 <= MaxRev + 1
  BY <1>1, Parts, BoundsAssumption DEF Reconcile, Room
<1>3. Steady(batch[1]) /\ Steady(batch[2])
  BY DisconnectAssumption DEF Steady, Disconnects
<1>4. Paired(db, made) /\ Unmade(db, made)
  BY NothingMade DEF PairedInv
<1>5. db' = Reconciled(c) /\ made' = made
  BY DEF Reconcile
<1>6. Kept(db, a) /\ SameCounters(db, a) /\ Paired(a, made)
  BY <1>1, <1>4, RetainKeeps, RetainPaired
<1> HIDE DEF a
<1>7. /\ a \in Database /\ DatabaseInv(a) /\ Unmade(a, made)
      /\ a.nextEp \in EpIds /\ a.nextRev \in Revs
  <2>1. Unmade(a, made)
    BY <1>1, <1>4, <1>6, UnmadeKept
  <2> QED
    BY <1>2, <1>6, <2>1, BoundsAssumption DEF Kept, SameCounters, EpIds, Revs
<1>8. Kept(a, b) /\ Advances(a, b) /\ Paired(b, made)
  BY <1>1, <1>3, <1>6, <1>7, ObserveKeeps, ObservePaired
<1> HIDE DEF b
<1>9. b \in Database /\ DatabaseInv(b) /\ Unmade(b, made)
  <2>1. Unmade(b, made)
    BY <1>7, <1>8, UnmadeKept
  <2> QED
    BY <1>8, <2>1 DEF Kept
<1>10. b.nextEp \in EpIds /\ b.nextRev \in Revs
  BY SMTT(30), <1>2, <1>6, <1>8, <1>9, Parts, BoundsAssumption DEF SameCounters, Advances, EpIds, Revs
<1>11. Kept(b, c) /\ Paired(c, made)
  BY <1>1, <1>3, <1>8, <1>9, <1>10, ObserveKeeps, ObservePaired
<1> HIDE DEF c
<1>12. Paired(Reconciled(c), made)
  BY <1>11, ReconciledPaired DEF Kept
<1> QED
  BY <1>5, <1>12

\* The passing of time.
LEMMA TickPaired ==
  ASSUME PairedInv, Tick
  PROVE  Paired(db', made')
<1>1. /\ db'.owner = db.owner /\ db'.nextEp = db.nextEp
      /\ \A r \in Revs : /\ db'.box[r].state = db.box[r].state
                         /\ db'.box[r].ep = db.box[r].ep
      /\ \A e \in EpIds :
           /\ db'.ep[e].sev = db.ep[e].sev /\ db'.ep[e].status = db.ep[e].status
           /\ db'.ep[e].corr = db.ep[e].corr /\ db'.ep[e].key = db.ep[e].key
           /\ db'.ep[e].from = db.ep[e].from
           /\ db.ep[e].tp = None => db'.ep[e].tp = None
           /\ db.ep[e].tp # None => db'.ep[e].tp.from = db.ep[e].tp.from
           /\ db'.ep[e].intent.state = db.ep[e].intent.state
  BY TickStep DEF PairedInv
<1>2. db \in Database /\ db' \in Database /\ Paired(db, made) /\ made' = made
  BY TickStep DEF PairedInv, IInv, TypeOK, Tick
<1>3. \A r \in Revs : Fades(db.box[r], db'.box[r])
  BY <1>1 DEF Fades
<1>4. \A e \in EpIds : Alike(db.ep[e], db'.ep[e])
  BY <1>1 DEF Alike
<1>5. \A e \in EpIds : From(db'.ep[e]) \subseteq From(db.ep[e])
  BY <1>1 DEF From
<1> QED
  BY <1>1, <1>2, <1>3, <1>4, <1>5, FrameKeeps

\* The sweep, and a claim of an active row.
LEMMA WorkerPaired ==
  ASSUME PairedInv, WorkerStep
  PROVE  Paired(db', made')
<1> DEFINE s == Sweep(db)
<1>1. s \in Database /\ Paired(s, made)
  BY SweepKeeps, SweepPaired DEF PairedInv, IInv, TypeOK
<1>2. made' = made
  BY DEF WorkerStep, SweepOnly, ClaimSend, ClaimPoll
<1>3. CASE db' = s
  BY <1>1, <1>2, <1>3
<1>4. ASSUME NEW r \in Revs, ClaimSend(r) PROVE Paired(db', made')
  <2>1. /\ db' = [s EXCEPT !.box[r].state = "sending", !.box[r].attempts = @ + 1]
        /\ s.box[r].state = "queued"
    BY <1>4 DEF ClaimSend, Sendable
  <2> HIDE DEF s
  <2>2. s.box[r] \in Row
    BY <1>1, Parts
  <2>3. /\ db'.ep = s.ep /\ db'.owner = s.owner /\ db'.nextEp = s.nextEp
        /\ \A q \in Revs : q # r => db'.box[q] = s.box[q]
        /\ db'.box[r].state = "sending" /\ db'.box[r].ep = s.box[r].ep
    BY <1>1, <2>1, <2>2 DEF Database, Row
  <2>4. ASSUME NEW q \in Revs PROVE Fades(s.box[q], db'.box[q])
    BY <2>1, <2>3, NoFade DEF Fades, Active
  <2>5. db' \in Database
    BY <1>4, ClaimStep DEF PairedInv, IInv, TypeOK, WorkerStep
  <2>6. \A e \in EpIds : Alike(s.ep[e], db'.ep[e]) /\ From(db'.ep[e]) = From(s.ep[e])
    BY <2>3, NoFade
  <2> QED
    BY <1>1, <1>2, <2>3, <2>4, <2>5, <2>6, FrameKeeps
<1>5. ASSUME NEW r \in Revs, ClaimPoll(r) PROVE Paired(db', made')
  BY <1>3, <1>5 DEF ClaimPoll
<1> QED
  BY <1>3, <1>4, <1>5 DEF WorkerStep, SweepOnly

\* A response: only a claimed row makes a message.
LEMMA RespondPaired ==
  ASSUME PairedInv, NEW o \in Outcome, Respond(o)
  PROVE  Paired(db', made')
<1>1. PICK n \in Created(o) : made' = [made EXCEPT ![worker.rev] = @ + n]
  BY DEF Respond
<1>2. /\ worker.rev \in Revs /\ made \in [Revs -> Nat] /\ worker.pc = "http"
      /\ db' = db /\ JobInv /\ Paired(db, made)
  BY DEF PairedInv, IInv, TypeOK, Worker, Respond
<1>3. db.box[worker.rev].state \in Active
  BY <1>2 DEF JobInv, Active
<1>4. \A r \in Revs : r # worker.rev => made'[r] = made[r]
  BY <1>1, <1>2
<1> QED
  BY <1>2, <1>3, <1>4, MadePaired

\* The recording of an outcome settles the claimed row, or leaves it active.
LEMMA RecordPaired ==
  ASSUME PairedInv, Record
  PROVE  Paired(db', made')
<1> DEFINE w == worker.rev
           final == Final(worker.poll, worker.outcome, db.box[w].attempts)
<1>1. /\ w \in Revs /\ made' = made /\ db'.owner = db.owner
      /\ db.box[w].state \in Active
      /\ \A r \in Revs : r # w => db'.box[r] = db.box[r]
  BY RecordStep DEF PairedInv, Active
<1>2. db \in Database /\ db' \in Database /\ Paired(db, made)
  BY RecordStep DEF PairedInv, IInv, TypeOK
<1>3. db.box[w] \in Row
  BY <1>1, <1>2, Parts
<1>4. db' = IF db.box[w].state = "absent" THEN db
            ELSE [db EXCEPT !.box[w].state = final, !.box[w].sid = @ \/ worker.outcome.sid]
  BY DEF Record
<1> HIDE DEF final, w
<1>5. db'.ep = db.ep /\ db'.nextEp = db.nextEp /\ db'.box[w].ep = db.box[w].ep
  <2>1. db.box[w].state # "absent"
    BY <1>1 DEF Active
  <2>2. db' = [db EXCEPT !.box[w].state = final, !.box[w].sid = @ \/ worker.outcome.sid]
    BY <1>4, <2>1
  <2> QED
    BY <1>1, <1>2, <1>3, <2>2 DEF Database, Row
<1>6. ASSUME NEW r \in Revs PROVE Fades(db.box[r], db'.box[r])
  BY <1>1, <1>5, NoFade DEF Fades, Active
<1>7. \A e \in EpIds : Alike(db.ep[e], db'.ep[e]) /\ From(db'.ep[e]) = From(db.ep[e])
  BY <1>5, NoFade
<1> QED
  BY <1>1, <1>2, <1>5, <1>6, <1>7, FrameKeeps

\* The recovery at the start of the worker settles what was in flight.
LEMMA StartPaired ==
  ASSUME PairedInv, NEW client \in BOOLEAN, Start(client)
  PROVE  Paired(db', made')
<1>1. db \in Database /\ db' \in Database /\ Paired(db, made) /\ made' = made
  BY StartStep DEF PairedInv, IInv, TypeOK
<1>2. /\ db'.ep = db.ep /\ db'.owner = db.owner /\ db'.nextEp = db.nextEp
      /\ db'.box = [r \in Revs |-> IF db.box[r].state = "sending"
                                   THEN [db.box[r] EXCEPT !.state = "uncertain"]
                                   ELSE db.box[r]]
  BY <1>1 DEF Start, Database
<1>3. ASSUME NEW r \in Revs PROVE Fades(db.box[r], db'.box[r])
  <2>1. db.box[r] \in Row
    BY <1>1, Parts
  <2>2. \/ db'.box[r] = db.box[r]
        \/ /\ db.box[r].state = "sending" /\ db'.box[r].state = "uncertain"
           /\ db'.box[r].ep = db.box[r].ep
    BY <1>2, <2>1 DEF Row
  <2> QED
    BY <2>2, NoFade DEF Fades, Active
<1>4. \A e \in EpIds : Alike(db.ep[e], db'.ep[e]) /\ From(db'.ep[e]) = From(db.ep[e])
  BY <1>2, NoFade
<1> QED
  BY <1>1, <1>2, <1>3, <1>4, FrameKeeps

\* Every step keeps the pairs.
LEMMA NextPaired == PairedInv /\ [Next]_vars => Paired(db', made')
<1> SUFFICES ASSUME PairedInv, [Next]_vars PROVE Paired(db', made')
  OBVIOUS
<1>1. ASSUME NEW c \in Reports, Ingest(c) PROVE Paired(db', made')
  BY <1>1, IngestPaired
<1>2. CASE ReconcileAny
  BY <1>2, ReconcilePaired DEF ReconcileAny
<1>3. ASSUME NEW e \in EpIds, AcknowledgeEpisode(e) PROVE Paired(db', made')
  <2>1. /\ db \in Database /\ DatabaseInv(db) /\ Paired(db, made)
        /\ db.ep[e].status = "open" /\ db' = Acknowledge(db, e) /\ made' = made
    BY <1>3 DEF AcknowledgeEpisode, PairedInv, IInv, TypeOK
  <2>2. db.nextRev \in Revs
    BY <1>3, <2>1, Parts, BoundsAssumption DEF AcknowledgeEpisode, Room, Revs
  <2> QED
    BY <2>1, <2>2, AcknowledgePaired
<1>4. ASSUME NEW enabled \in BOOLEAN, ChangeSettings(enabled) PROVE Paired(db', made')
  <2>1. db \in Database /\ Paired(db, made) /\ db' = Configure(db, enabled) /\ made' = made
    BY <1>4 DEF ChangeSettings, PairedInv, IInv, TypeOK
  <2> QED
    BY <2>1, ConfigurePaired
<1>5. CASE Tick
  BY <1>5, TickPaired
<1>6. CASE WorkerStep
  BY <1>6, WorkerPaired
<1>7. ASSUME NEW o \in Outcome, Respond(o) PROVE Paired(db', made')
  BY <1>7, RespondPaired
<1>8. CASE Record
  BY <1>8, RecordPaired
<1>9. CASE Crash
  <2>1. /\ db' = db /\ Paired(db, made)
        /\ \/ made' = made
           \/ /\ worker.rev \in Revs /\ db.box[worker.rev].state = "sending"
              /\ made' = [made EXCEPT ![worker.rev] = 1]
    BY <1>9, CrashStep DEF PairedInv
  <2>2. CASE made' = made
    BY <2>1, <2>2
  <2>3. CASE made' # made
    <3>1. /\ worker.rev \in Revs /\ db.box[worker.rev].state \in Active
          /\ \A r \in Revs : r # worker.rev => made'[r] = made[r]
      BY <2>1, <2>3 DEF Active, PairedInv, IInv, TypeOK
    <3> QED
      BY <2>1, <3>1, MadePaired
  <2> QED
    BY <2>2, <2>3
<1>10. ASSUME NEW client \in BOOLEAN, Start(client) PROVE Paired(db', made')
  BY <1>10, StartPaired
<1>11. CASE RecordFails \/ UNCHANGED vars
  BY <1>11 DEF RecordFails, vars, PairedInv
<1> QED
  BY <1>1, <1>2, <1>3, <1>4, <1>5, <1>6, <1>7, <1>8, <1>9, <1>10, <1>11 DEF Next

\* Nothing is opened, so nothing is paired.
LEMMA InitPaired == Init => PairedInv
<1> SUFFICES ASSUME Init PROVE PairedInv
  OBVIOUS
<1>1. IInv
  BY InitIInv
<1>2. /\ \A r \in Revs : db.owner[r] = None /\ db.box[r].state = "absent"
      /\ \A e \in EpIds : /\ db.ep[e].corr = None /\ db.ep[e].tp = None
                          /\ db.ep[e].from = None /\ db.ep[e].intent.state = "none"
      /\ db.nextEp = 1
  BY DEF Init, NoRow, NoIntent
<1>3. \A e \in EpIds : e # None /\ ~(e < 1)
  BY KeysAssumption DEF EpIds
<1>4. Attributed(db) /\ Correlated(db)
  BY <1>2 DEF Attributed, Correlated
<1>5. Single(db)
  BY <1>2, <1>3 DEF Single
<1>6. TakenUnsent(db, made)
  BY <1>2 DEF TakenUnsent, From
<1> QED
  BY <1>1, <1>4, <1>5, <1>6 DEF PairedInv, Paired

\* PairedInv is an invariant of the specification.
THEOREM PairedInvariance == Spec => []PairedInv
<1>1. Init => PairedInv
  BY InitPaired
<1>2. PairedInv /\ [Next]_vars => PairedInv'
  BY NextPaired, NextKeepsIInv DEF PairedInv
<1> QED
  BY <1>1, <1>2, PTL DEF Spec

\* A disconnect that two observations report is announced by one message, whichever of
\* them comes first, whichever recovers, and wherever the worker is in a request.
THEOREM DisconnectsAnnouncedOnce == Spec => []OneMessagePerDisconnect
<1>1. PairedInv => OneMessagePerDisconnect
  <2> SUFFICES ASSUME PairedInv, NEW e \in EpIds, NEW f \in EpIds, db.ep[f].from = e,
                      NEW r \in Revs, NEW s \in Revs, db.owner[r] = e, db.owner[s] = f
               PROVE  made[r] + made[s] <= 1
    BY DEF OneMessagePerDisconnect
  <2>1. e \in From(db.ep[f])
    BY KeysAssumption DEF From, EpIds
  <2>2. made[r] = 0
    BY <2>1 DEF PairedInv, Paired, TakenUnsent, Unsent
  <2>3. made[s] \in {0, 1}
    BY DEF PairedInv, IInv, RowInv
  <2> QED
    BY <2>2, <2>3
<1> QED
  BY <1>1, PairedInvariance, PTL

-----------------------------------------------------------------------------
(* No concern is silenced.                                                 *)

\* The open, unacknowledged e relies on the notification of x, and is not about to take
\* it over.
Relies(d, e, x) ==
  d.ep[e].status = "open" /\ ~d.ep[e].ack /\ d.ep[e].corr = x /\ d.ep[e].tp = None

\* A notification of x was withdrawn, and the settings that asked for it are in force.
Silenced(d, x) ==
  /\ d.enabled
  /\ \/ \E r \in Revs : /\ d.box[r].ep = x /\ d.box[r].setrev = d.setrev
                        /\ d.box[r].state = "suppressed"
     \/ /\ d.ep[x].intent.state = "suppressed"
        /\ d.ep[x].intent.setrev = d.setrev /\ d.ep[x].intent.age < MaxAge

\* No row of a recovered episode waits that was never claimed, and nobody relies on a
\* disconnect whose notification was withdrawn, unless it was acknowledged or handed over.
Served(d, x) ==
  /\ Gone(d, x) => \A r \in Revs : d.box[r].ep = x /\ d.box[r].state = "queued"
                                   => d.box[r].attempts # 0
  /\ d.ep[x].key \in Disconnects /\ x \notin d.relieved /\ Silenced(d, x)
     => Gone(d, x) /\ \A e \in EpIds : ~Relies(d, e, x)

\* Every episode but those of S is served.
Tended(d, S) ==
  /\ \A r \in Revs : /\ d.box[r].setrev <= d.setrev
                     /\ d.box[r].state = "sending" => d.box[r].attempts # 0
  /\ \A e \in EpIds : /\ d.ep[e].intent.setrev <= d.setrev
                      /\ d.ep[e].corr # None => d.ep[e].corr < e
  /\ \A x \in EpIds \ S : Served(d, x)

\* A change of a row that withdraws nothing under the settings in force, but for the
\* episodes of S.
CalmRow(d, n, S, r) ==
  /\ n.box[r].setrev <= d.setrev
  /\ n.box[r].state = "sending" => n.box[r].attempts # 0
  /\ n.box[r].ep \notin S =>
       /\ /\ n.box[r].state = "suppressed" /\ n.box[r].setrev = d.setrev /\ d.enabled
          => /\ d.box[r].state = "suppressed" /\ d.box[r].setrev = d.setrev
             /\ d.box[r].ep = n.box[r].ep
       /\ n.box[r].state = "queued" /\ n.box[r].attempts = 0
          => \/ ~Gone(n, n.box[r].ep)
             \/ /\ d.box[r].state = "queued" /\ d.box[r].attempts = 0
                /\ d.box[r].ep = n.box[r].ep

\* A change of an episode that withdraws no intent and relies on no recovered episode anew.
CalmEpisode(d, n, S, e) ==
  /\ n.ep[e].intent.setrev <= d.setrev
  /\ n.ep[e].corr # None => n.ep[e].corr < e
  /\ Gone(d, e) => Gone(n, e)
  /\ \A x \in EpIds : Relies(n, e, x) => Relies(d, e, x) \/ ~Gone(n, x)
  /\ e \notin S =>
       /\ n.ep[e].key = d.ep[e].key
       /\ Gone(n, e) => Gone(d, e)
       /\ /\ n.ep[e].intent.state = "suppressed" /\ n.ep[e].intent.setrev = d.setrev
          /\ d.enabled /\ n.ep[e].intent.age < MaxAge
          => d.ep[e].intent = n.ep[e].intent

\* What does not change is calm.
LEMMA CalmSame ==
  ASSUME NEW d, NEW n, NEW S, Tended(d, S)
  PROVE  /\ \A r \in Revs : n.box[r] = d.box[r] => CalmRow(d, n, S, r)
         /\ \A e \in EpIds : n.ep[e] = d.ep[e] => CalmEpisode(d, n, S, e)
<1>1. ASSUME NEW r \in Revs, n.box[r] = d.box[r] PROVE CalmRow(d, n, S, r)
  BY <1>1 DEF CalmRow, Tended
<1>2. ASSUME NEW e \in EpIds, n.ep[e] = d.ep[e] PROVE CalmEpisode(d, n, S, e)
  BY <1>2 DEF CalmEpisode, Tended, Relies, Gone
<1> QED
  BY <1>1, <1>2

\* Calm changes leave every episode served.
LEMMA CalmKeeps ==
  ASSUME NEW d, NEW n, NEW S, Tended(d, S),
         n.setrev = d.setrev, n.enabled = d.enabled, d.relieved \subseteq n.relieved,
         \A r \in Revs : CalmRow(d, n, S, r),
         \A e \in EpIds : CalmEpisode(d, n, S, e)
  PROVE  Tended(n, S)
<1>1. ASSUME NEW r \in Revs
      PROVE  /\ n.box[r].setrev <= n.setrev
             /\ n.box[r].state = "sending" => n.box[r].attempts # 0
  BY DEF CalmRow
<1>2. ASSUME NEW e \in EpIds
      PROVE  /\ n.ep[e].intent.setrev <= n.setrev
             /\ n.ep[e].corr # None => n.ep[e].corr < e
  BY DEF CalmEpisode
<1>3. ASSUME NEW x \in EpIds \ S PROVE Served(n, x)
  <2>1. Served(d, x)
    BY DEF Tended
  <2>2. ASSUME Gone(n, x), NEW r \in Revs, n.box[r].ep = x, n.box[r].state = "queued"
        PROVE  n.box[r].attempts # 0
    <3>1. Gone(d, x)
      BY <2>2 DEF CalmEpisode
    <3> QED
      BY <2>1, <2>2, <3>1 DEF CalmRow, Served
  <2>3. ASSUME n.ep[x].key \in Disconnects, x \notin n.relieved, Silenced(n, x)
        PROVE  Gone(n, x) /\ \A e \in EpIds : ~Relies(n, e, x)
    <3>1. Silenced(d, x)
      <4>1. CASE \E r \in Revs : /\ n.box[r].ep = x /\ n.box[r].setrev = n.setrev
                                 /\ n.box[r].state = "suppressed"
        BY <2>3, <4>1 DEF Silenced, CalmRow
      <4>2. CASE /\ n.ep[x].intent.state = "suppressed"
                 /\ n.ep[x].intent.setrev = n.setrev /\ n.ep[x].intent.age < MaxAge
        BY <2>3, <4>2 DEF Silenced, CalmEpisode
      <4> QED
        BY <2>3, <4>1, <4>2 DEF Silenced
    <3>2. d.ep[x].key \in Disconnects /\ x \notin d.relieved
      BY <2>3 DEF CalmEpisode
    <3>3. Gone(d, x) /\ \A e \in EpIds : ~Relies(d, e, x)
      BY <2>1, <3>1, <3>2 DEF Served
    <3>4. Gone(n, x)
      BY <3>3 DEF CalmEpisode
    <3> QED
      BY <3>3, <3>4 DEF CalmEpisode
  <2> QED
    BY <2>2, <2>3 DEF Served
<1> QED
  BY <1>1, <1>2, <1>3 DEF Tended

\* The last episode is served.
LEMMA TendedClosed ==
  ASSUME NEW d, NEW e, Tended(d, {e}), Served(d, e)
  PROVE  Tended(d, {})
BY DEF Tended

\* An insertion queues a row of an open episode, or records that notifications are off.
LEMMA InsertTended ==
  ASSUME NEW d \in Database, Tended(d, {}), NEW e \in EpIds, d.ep[e].status = "open"
  PROVE  Tended(Insert(d, e, d.ep[e].rev), {})
<1> DEFINE rev == d.ep[e].rev
           out == IF Full(d) THEN Oldest(d, 1) ELSE {}
           n == Insert(d, e, rev)
<1>1. rev \in Revs /\ d.ep[e] \in Episode /\ d.setrev \in Nat /\ d.enabled \in BOOLEAN
  BY Parts DEF Episode
<1>2. /\ n.box = [r \in Revs |-> IF r = rev THEN NewRow(d, e, 0)
                                 ELSE IF r \in out THEN NoRow ELSE d.box[r]]
      /\ n.ep = [d.ep EXCEPT ![e] = [d.ep[e] EXCEPT !.intent = NoIntent]]
      /\ n.setrev = d.setrev /\ n.enabled = d.enabled /\ n.relieved = d.relieved
  BY DEF Insert, Database
<1>3. /\ NewRow(d, e, 0).ep = e /\ NewRow(d, e, 0).setrev = d.setrev
      /\ NewRow(d, e, 0).state \in {"queued", "suppressed"}
      /\ NewRow(d, e, 0).state = "suppressed" => ~d.enabled
      /\ NoRow.state = "absent" /\ NoRow.setrev = 0
  BY DEF NewRow, NoRow
<1> HIDE DEF n, rev, out
<1>4. /\ n.ep[e].intent.state = "none" /\ n.ep[e].intent.setrev = 0
      /\ n.ep[e].corr = d.ep[e].corr /\ n.ep[e].key = d.ep[e].key
      /\ n.ep[e].status = d.ep[e].status /\ n.ep[e].ack = d.ep[e].ack
      /\ n.ep[e].tp = d.ep[e].tp
      /\ \A f \in EpIds : f # e => n.ep[f] = d.ep[f]
  BY <1>1, <1>2, Parts DEF Episode, NoIntent
<1>5. ASSUME NEW r \in Revs PROVE CalmRow(d, n, {}, r)
  <2>1. CASE n.box[r] = d.box[r]
    BY <2>1, CalmSame
  <2>2. CASE n.box[r] = NoRow
    BY <1>1, <1>3, <2>2 DEF CalmRow
  <2>3. CASE n.box[r] = NewRow(d, e, 0)
    BY <1>1, <1>3, <1>4, <2>3 DEF CalmRow, Gone
  <2> QED
    BY <1>2, <2>1, <2>2, <2>3
<1>6. ASSUME NEW f \in EpIds PROVE CalmEpisode(d, n, {}, f)
  <2>1. CASE f # e
    BY <1>4, <2>1, CalmSame
  <2>2. CASE f = e
    <3>1. n.ep[e].corr # None => n.ep[e].corr < e
      BY <1>4 DEF Tended
    <3> QED
      BY <1>1, <1>4, <2>2, <3>1 DEF CalmEpisode, Relies, Gone
  <2> QED
    BY <2>1, <2>2
<1> QED
  BY <1>2, <1>5, <1>6, CalmKeeps DEF n, rev

\* An admission of an open episode.
LEMMA AdmitTended ==
  ASSUME NEW d \in Database, DatabaseInv(d), Tended(d, {}), NEW e \in EpIds,
         d.ep[e].status = "open", d.owner[d.ep[e].rev] = None
  PROVE  Tended(Admit(d, e, d.ep[e].rev), {})
<1>1. d.box[d.ep[e].rev].state = "absent"
  <2>1. d.ep[e].rev \in Revs
    BY Parts DEF Episode
  <2> QED
    BY <2>1 DEF DatabaseInv, RowsAreOwned
<1> DEFINE n == Defer(d, e, d.ep[e].rev)
           i == [state |-> IF d.enabled THEN "pending" ELSE "suppressed",
                 rev |-> d.ep[e].rev, setrev |-> d.setrev, age |-> 0]
<1>2. Tended(n, {})
  <2>1. /\ n.ep = [d.ep EXCEPT ![e] = [d.ep[e] EXCEPT !.intent = i]]
        /\ n.box = d.box /\ n.setrev = d.setrev /\ n.enabled = d.enabled
        /\ n.relieved = d.relieved
    BY DEF Defer, Database
  <2>2. i.setrev = d.setrev /\ (d.enabled => i.state = "pending") /\ d.setrev \in Nat
    BY Parts
  <2> HIDE DEF n, i
  <2>3. /\ n.ep[e].intent = i
        /\ n.ep[e].corr = d.ep[e].corr /\ n.ep[e].key = d.ep[e].key
        /\ n.ep[e].status = d.ep[e].status /\ n.ep[e].ack = d.ep[e].ack
        /\ n.ep[e].tp = d.ep[e].tp
        /\ \A f \in EpIds : f # e => n.ep[f] = d.ep[f]
    BY <2>1, Parts DEF Episode
  <2>4. \A r \in Revs : CalmRow(d, n, {}, r)
    BY <2>1, CalmSame
  <2>5. ASSUME NEW f \in EpIds PROVE CalmEpisode(d, n, {}, f)
    <3>1. CASE f # e
      BY <2>3, <3>1, CalmSame
    <3>2. CASE f = e
      <4>1. n.ep[e].corr # None => n.ep[e].corr < e
        BY <2>3 DEF Tended
      <4> QED
        BY <2>2, <2>3, <3>2, <4>1 DEF CalmEpisode, Relies, Gone
    <3> QED
      BY <3>1, <3>2
  <2> QED
    BY <2>1, <2>4, <2>5, CalmKeeps
<1>3. Tended(Insert(d, e, d.ep[e].rev), {})
  BY InsertTended
<1> HIDE DEF n
<1>4. Admit(d, e, d.ep[e].rev) \in {n, Insert(d, e, d.ep[e].rev)}
  BY <1>1 DEF Admit, n
<1> QED
  BY <1>2, <1>3, <1>4

\* cancel_intent withdraws only what is of the episodes of S.
LEMMA CancelTended ==
  ASSUME NEW d \in Database, NEW S, Tended(d, S)
  PROVE  Tended(CancelIntent(d, S), S)
<1> DEFINE n == CancelIntent(d, S)
<1>1. /\ n.box = d.box /\ n.setrev = d.setrev /\ n.enabled = d.enabled
      /\ n.relieved = d.relieved
      /\ n.ep = [e \in EpIds |-> IF e \in S /\ d.ep[e].intent.state = "pending"
                                 THEN [d.ep[e] EXCEPT !.intent.state = "suppressed"]
                                 ELSE d.ep[e]]
  BY DEF CancelIntent, Database
<1> HIDE DEF n
<1>2. \A r \in Revs : CalmRow(d, n, S, r)
  BY <1>1, CalmSame
<1>3. ASSUME NEW e \in EpIds PROVE CalmEpisode(d, n, S, e)
  <2>1. CASE n.ep[e] = d.ep[e]
    BY <2>1, CalmSame
  <2>2. CASE n.ep[e] # d.ep[e]
    <3>1. e \in S /\ n.ep[e] = [d.ep[e] EXCEPT !.intent.state = "suppressed"]
      BY <1>1, <2>2
    <3>2. d.ep[e] \in Episode /\ d.ep[e].intent \in Intent
      BY Parts
    <3>3. /\ n.ep[e].intent.setrev = d.ep[e].intent.setrev
          /\ n.ep[e].corr = d.ep[e].corr /\ n.ep[e].status = d.ep[e].status
          /\ n.ep[e].ack = d.ep[e].ack /\ n.ep[e].tp = d.ep[e].tp
      BY <3>1, <3>2 DEF Episode, Intent
    <3> QED
      BY <3>1, <3>3 DEF CalmEpisode, Relies, Gone, Tended
  <2> QED
    BY <2>1, <2>2
<1> QED
  BY <1>1, <1>2, <1>3, CalmKeeps DEF n

\* So does the suppression of queued rows.
LEMMA SuppressTended ==
  ASSUME NEW d \in Database, NEW S, Tended(d, S)
  PROVE  Tended(SuppressQueued(d, S), S)
<1> DEFINE n == SuppressQueued(d, S)
<1>1. /\ n.ep = d.ep /\ n.setrev = d.setrev /\ n.enabled = d.enabled
      /\ n.relieved = d.relieved
      /\ n.box = [r \in Revs |-> IF d.box[r].ep \in S /\ d.box[r].state = "queued"
                                 THEN [d.box[r] EXCEPT !.state = "suppressed"]
                                 ELSE d.box[r]]
  BY DEF SuppressQueued, Database
<1> HIDE DEF n
<1>2. \A e \in EpIds : CalmEpisode(d, n, S, e)
  BY <1>1, CalmSame
<1>3. ASSUME NEW r \in Revs PROVE CalmRow(d, n, S, r)
  <2>1. CASE n.box[r] = d.box[r]
    BY <2>1, CalmSame
  <2>2. CASE n.box[r] # d.box[r]
    <3>1. d.box[r].ep \in S /\ n.box[r] = [d.box[r] EXCEPT !.state = "suppressed"]
      BY <1>1, <2>2
    <3>2. d.box[r] \in Row
      BY Parts
    <3>3. /\ n.box[r].ep \in S /\ n.box[r].setrev = d.box[r].setrev
          /\ n.box[r].state = "suppressed"
      BY <3>1, <3>2 DEF Row
    <3> QED
      BY <3>3 DEF CalmRow, Tended
  <2> QED
    BY <2>1, <2>2
<1> QED
  BY <1>1, <1>2, <1>3, CalmKeeps DEF n

\* retry_pending withdraws nothing: what is pending is current.
LEMMA RetryTended ==
  ASSUME NEW d \in Database, DatabaseInv(d), Tended(d, {})
  PROVE  Tended(RetryPending(d), {})
<1> DEFINE n == RetryPending(d)
           admitted == Admissible(d) \cap Reached(d)
           rowOf(r) == {e \in admitted : d.ep[e].intent.rev = r}
           the(r) == CHOOSE x \in rowOf(r) : TRUE
           new(r) == NewRow(d, the(r), d.ep[the(r)].intent.age)
           evicted == Oldest(d, Cardinality(Rows(d)) + Cardinality(admitted) - MAX_OUTBOX)
           failed(e) == [d.ep[e] EXCEPT !.intent.state = "failed"]
           admit(e) == [d.ep[e] EXCEPT !.intent = NoIntent]
<1>1. /\ n.box = [r \in Revs |-> IF rowOf(r) # {} THEN new(r)
                                 ELSE IF r \in evicted THEN NoRow ELSE d.box[r]]
      /\ n.ep = [e \in EpIds |->
                   IF e \notin Reached(d) THEN d.ep[e]
                   ELSE IF Withdrawn(d, e) THEN [d.ep[e] EXCEPT !.intent.state = "suppressed"]
                   ELSE IF ExpiredIntent(d, e) THEN failed(e) ELSE admit(e)]
      /\ n.setrev = d.setrev /\ n.enabled = d.enabled /\ n.relieved = d.relieved
  BY DEF RetryPending, Database
<1> HIDE DEF n
<1>2. d.setrev \in Nat /\ NoRow.state = "absent" /\ NoRow.setrev = 0
  BY Parts DEF NoRow
<1>3. ASSUME NEW e \in EpIds
      PROVE  n.ep[e] \in {d.ep[e], failed(e), admit(e)}
  <2>1. e \in Reached(d) => ~Withdrawn(d, e)
    BY DEF Reached, PendingIntents, Withdrawn, DatabaseInv, IntentIsCurrent
  <2> HIDE DEF failed, admit
  <2> QED
    BY <1>1, <2>1
<1>4. ASSUME NEW e \in EpIds
      PROVE  /\ CalmEpisode(d, n, {}, e)
             /\ n.ep[e].status = d.ep[e].status
  <2>1. CASE n.ep[e] = d.ep[e]
    BY <2>1, CalmSame
  <2>2. CASE n.ep[e] \in {failed(e), admit(e)}
    <3>1. d.ep[e] \in Episode /\ d.ep[e].intent \in Intent
      BY Parts
    <3>2. /\ failed(e).intent.state = "failed" /\ admit(e).intent.state = "none"
          /\ failed(e).intent.setrev = d.ep[e].intent.setrev /\ admit(e).intent.setrev = 0
      BY <3>1 DEF Episode, Intent, NoIntent
    <3>3. /\ n.ep[e].corr = d.ep[e].corr /\ n.ep[e].status = d.ep[e].status
          /\ n.ep[e].ack = d.ep[e].ack /\ n.ep[e].tp = d.ep[e].tp
          /\ n.ep[e].key = d.ep[e].key
      BY <2>2, <3>1 DEF Episode
    <3> HIDE DEF failed, admit
    <3>4. n.ep[e].intent.state # "suppressed" /\ n.ep[e].intent.setrev <= d.setrev
      BY <1>2, <2>2, <3>2 DEF Tended
    <3> QED
      BY <3>3, <3>4 DEF CalmEpisode, Relies, Gone, Tended
  <2> QED
    BY <1>3, <2>1, <2>2
<1>5. ASSUME NEW r \in Revs, rowOf(r) # {}
      PROVE  /\ the(r) \in EpIds /\ d.ep[the(r)].status = "open"
             /\ new(r).ep = the(r) /\ new(r).state = "queued" /\ new(r).setrev = d.setrev
  <2>1. the(r) \in admitted
    BY <1>5
  <2>2. the(r) \in EpIds /\ d.ep[the(r)].intent.state = "pending"
    BY <2>1 DEF Admissible, Wanting, PendingIntents
  <2>3. /\ new(r).ep = the(r) /\ new(r).setrev = d.setrev
        /\ d.enabled => new(r).state = "queued"
    BY DEF NewRow, NoRow
  <2> HIDE DEF the, admitted, new
  <2>4. d.ep[the(r)].status = "open" /\ d.enabled
    BY <2>2 DEF DatabaseInv, IntentIsCurrent
  <2> QED
    BY <2>2, <2>3, <2>4
<1> HIDE DEF the, new, rowOf, evicted, failed, admit
<1>6. ASSUME NEW r \in Revs PROVE CalmRow(d, n, {}, r)
  <2>1. CASE n.box[r] = d.box[r]
    BY <2>1, CalmSame
  <2>2. CASE n.box[r] = NoRow
    BY <1>2, <2>2 DEF CalmRow
  <2>3. CASE rowOf(r) # {} /\ n.box[r] = new(r)
    BY <1>2, <1>4, <1>5, <2>3 DEF CalmRow, Gone
  <2> QED
    BY <1>1, <2>1, <2>2, <2>3
<1> QED
  BY <1>1, <1>4, <1>6, CalmKeeps DEF n

\* The hand-over of a recovered episode relieves it, or nobody relies on it.
LEMMA HandOverTended ==
  ASSUME NEW d \in Database, DatabaseInv(d), NEW e \in EpIds, Tended(d, {e}), Gone(d, e),
         \A r \in Revs : d.box[r].ep = e => d.box[r].state # "queued"
  PROVE  Tended(HandOver(d, e), {})
<1> DEFINE f == First(Followers(d, e))
           x == [d.ep[f] EXCEPT !.corr = None, !.from = e]
           y == [d.ep[f] EXCEPT !.tp = TransferOf(d, e, f)]
           R == d.relieved \cup {e}
           taken == [d EXCEPT !.ep[f] = x, !.relieved = R]
           handed == [d EXCEPT !.ep[f] = y, !.relieved = R]
<1>1. CASE Followers(d, e) = {}
  <2>1. \A g \in EpIds : ~Relies(d, g, e)
    BY <1>1 DEF Followers, Relies
  <2>2. Served(d, e)
    BY <2>1 DEF Served
  <2>3. HandOver(d, e) = d
    BY <1>1 DEF HandOver
  <2> QED
    BY <2>2, <2>3, TendedClosed
<1>2. CASE Followers(d, e) # {}
  <2>1. /\ f \in EpIds /\ d.ep[f].status = "open" /\ ~d.ep[f].ack /\ d.ep[f].corr = e
        /\ d.owner[d.ep[f].rev] = None /\ e # None
    BY <1>2, FollowersAre
  <2>2. HandOver(d, e) = IF d.ep[f].key \in Presence THEN handed
                         ELSE Admit(taken, f, d.ep[f].rev)
    BY <1>2 DEF HandOver
  <2>3. R \in SUBSET EpIds /\ e \in R /\ d.relieved \subseteq R
    BY Parts
  <2> HIDE DEF f, R
  <2>4. d.ep[f] \in Episode /\ d.ep[f].intent \in Intent
    BY <2>1, Parts
  <2>5. TransferOf(d, e, f) \in Transfer /\ TransferOf(d, e, f) # None
    <3>1. TransferOf(d, e, f) \in Transfer
      BY <2>4, Parts, BoundsAssumption DEF TransferOf, Transfer, Episode, Ages
    <3> QED
      BY <3>1, NoneAssumption
  <2>6. x \in Episode /\ y \in Episode
    BY <2>1, <2>4, <2>5 DEF Episode
  <2>7. /\ x.rev = d.ep[f].rev /\ x.status = "open" /\ x.ack = d.ep[f].ack
        /\ x.intent = d.ep[f].intent /\ x.corr = None /\ x.tp = d.ep[f].tp
        /\ x.key = d.ep[f].key
        /\ y.rev = d.ep[f].rev /\ y.status = "open" /\ y.ack = d.ep[f].ack
        /\ y.intent = d.ep[f].intent /\ y.corr = e /\ y.key = d.ep[f].key
        /\ y.tp = TransferOf(d, e, f)
    BY <2>1, <2>4 DEF Episode
  <2> HIDE DEF x, y
  <2>8. ASSUME NEW m, NEW z \in {x, y}, m = [d EXCEPT !.ep[f] = z, !.relieved = R]
        PROVE  Tended(m, {}) /\ m.ep[f] = z /\ m.owner = d.owner
    <3>1. /\ m.ep = [d.ep EXCEPT ![f] = z] /\ m.box = d.box /\ m.owner = d.owner
          /\ m.setrev = d.setrev /\ m.enabled = d.enabled /\ m.relieved = R
      BY <2>8 DEF Database
    <3>2. m.ep[f] = z /\ \A g \in EpIds : g # f => m.ep[g] = d.ep[g]
      BY <2>1, <3>1, Parts
    <3>3. \A r \in Revs : CalmRow(d, m, {e}, r)
      BY <3>1, CalmSame
    <3>4. ASSUME NEW g \in EpIds PROVE CalmEpisode(d, m, {e}, g)
      <4>1. CASE g # f
        BY <3>2, <4>1, CalmSame
      <4>2. CASE g = f
        <5>1. \A i \in EpIds : ~Relies(m, f, i)
          BY <2>5, <2>7, <2>8, <3>2, KeysAssumption DEF Relies, EpIds
        <5>2. z.corr # None => z.corr < f
          BY <2>1, <2>7, <2>8 DEF Tended
        <5> QED
          BY <2>1, <2>7, <2>8, <3>2, <4>2, <5>1, <5>2 DEF CalmEpisode, Gone, Tended
      <4> QED
        BY <4>1, <4>2
    <3>5. Tended(m, {e})
      BY <2>3, <3>1, <3>3, <3>4, CalmKeeps
    <3>6. Served(m, e)
      BY <2>3, <3>1 DEF Served
    <3> QED
      BY <3>1, <3>2, <3>5, <3>6, TendedClosed
  <2>9. CASE d.ep[f].key \in Presence
    BY <2>2, <2>8, <2>9
  <2>10. CASE d.ep[f].key \notin Presence
    <3>1. x.tp = None
      BY <2>1, <2>7, <2>10 DEF DatabaseInv, MutedIsUnannounced
    <3>2. Kept(d, taken)
      BY <2>1, <2>3, <2>6, <2>7, <3>1, TouchKeeps
    <3>3. Tended(taken, {}) /\ taken.ep[f] = x /\ taken.owner = d.owner
      BY <2>8
    <3> HIDE DEF taken
    <3>4. Tended(Admit(taken, f, taken.ep[f].rev), {})
      BY <2>1, <2>7, <3>2, <3>3, AdmitTended DEF Kept
    <3> QED
      BY <2>2, <2>7, <2>10, <3>3, <3>4
  <2> QED
    BY <2>9, <2>10
<1> QED
  BY <1>1, <1>2

\* A recovery hands over what it withdraws.
LEMMA RecoverTended ==
  ASSUME NEW d \in Database, DatabaseInv(d), Tended(d, {}), NEW e \in EpIds,
         d.ep[e].status = "open", d.nextRev \in Revs
  PROVE  Tended(Recover(d, e), {})
<1> DEFINE x == [d.ep[e] EXCEPT !.status = "resolved", !.rev = d.nextRev, !.ack = FALSE,
                                !.epoch = None, !.corr = None, !.tp = None, !.from = None]
           m == Closed(d, e)
           c == CancelIntent(m, {e})
           w == SuppressQueued(c, {e})
<1>1. m \in Database /\ Kept(d, w)
  BY RecoverKeeps
<1>2. /\ m.ep = [d.ep EXCEPT ![e] = x] /\ m.box = d.box /\ m.relieved = d.relieved
      /\ m.setrev = d.setrev /\ m.enabled = d.enabled
  BY DEF Closed, Database
<1>3. /\ x.status = "resolved" /\ x.corr = None /\ x.intent = d.ep[e].intent
      /\ x.key = d.ep[e].key
  BY Parts DEF Episode
<1>4. Recover(d, e) = IF AwaitsDelivery(d, e) THEN HandOver(w, e) ELSE w
  BY DEF Recover
<1> HIDE DEF x, m
<1>5. m.ep[e] = x /\ \A f \in EpIds : f # e => m.ep[f] = d.ep[f]
  BY <1>2, Parts
<1>6. Tended(m, {e})
  <2>1. Tended(d, {e})
    BY DEF Tended
  <2>2. \A r \in Revs : CalmRow(d, m, {e}, r)
    BY <1>2, <2>1, CalmSame
  <2>3. ASSUME NEW f \in EpIds PROVE CalmEpisode(d, m, {e}, f)
    <3>1. CASE f # e
      BY <1>5, <2>1, <3>1, CalmSame
    <3>2. CASE f = e
      BY <1>3, <1>5, <3>2 DEF CalmEpisode, Relies, Gone, Tended
    <3> QED
      BY <3>1, <3>2
  <2> QED
    BY <1>2, <2>1, <2>2, <2>3, CalmKeeps
<1>7. /\ c \in Database /\ c.box = m.box /\ c.ep[e].status = "resolved"
      /\ c.setrev = m.setrev /\ c.enabled = m.enabled /\ c.relieved = m.relieved
      /\ c.ep[e].key = x.key
      /\ c.ep[e].intent.setrev = x.intent.setrev /\ c.ep[e].intent.age = x.intent.age
      /\ c.ep[e].intent.state = "suppressed" => x.intent.state \in {"pending", "suppressed"}
  <2>1. /\ c.setrev = m.setrev /\ c.enabled = m.enabled /\ c.relieved = m.relieved
        /\ c.ep = [f \in EpIds |-> IF f \in {e} /\ m.ep[f].intent.state = "pending"
                                   THEN [m.ep[f] EXCEPT !.intent.state = "suppressed"]
                                   ELSE m.ep[f]]
    BY <1>1 DEF CancelIntent, Database
  <2>2. c \in Database /\ c.box = m.box /\ c.ep[e].status = "resolved"
    BY <1>1, <1>3, <1>5, CancelServes
  <2> HIDE DEF c
  <2>3. x \in Episode /\ x.intent \in Intent
    BY <1>1, <1>5, Parts
  <2>4. c.ep[e] = IF x.intent.state = "pending"
                  THEN [x EXCEPT !.intent.state = "suppressed"] ELSE x
    BY <1>5, <2>1
  <2>5. /\ c.ep[e].key = x.key /\ c.ep[e].intent.setrev = x.intent.setrev
        /\ c.ep[e].intent.age = x.intent.age
        /\ c.ep[e].intent.state = "suppressed" => x.intent.state \in {"pending", "suppressed"}
    BY <2>3, <2>4 DEF Episode, Intent
  <2> QED
    BY <2>1, <2>2, <2>5
<1>8. Tended(c, {e})
  BY <1>1, <1>6, CancelTended
<1> HIDE DEF c
<1>9. Tended(w, {e})
  BY <1>7, <1>8, SuppressTended
<1>10. /\ w.ep = c.ep /\ w.setrev = d.setrev /\ w.enabled = d.enabled
       /\ w.relieved = d.relieved
       /\ \A r \in Revs :
            /\ w.box[r].ep = d.box[r].ep /\ w.box[r].setrev = d.box[r].setrev
            /\ w.box[r].ep = e => w.box[r].state # "queued"
            /\ w.box[r].state = "suppressed" => d.box[r].state \in {"queued", "suppressed"}
  <2>1. /\ w.ep = c.ep /\ w.setrev = d.setrev /\ w.enabled = d.enabled
        /\ w.relieved = d.relieved
        /\ w.box = [r \in Revs |-> IF d.box[r].ep \in {e} /\ d.box[r].state = "queued"
                                   THEN [d.box[r] EXCEPT !.state = "suppressed"]
                                   ELSE d.box[r]]
    BY <1>2, <1>7 DEF SuppressQueued, Database
  <2> HIDE DEF w
  <2>2. ASSUME NEW r \in Revs
        PROVE  /\ w.box[r].ep = d.box[r].ep /\ w.box[r].setrev = d.box[r].setrev
               /\ w.box[r].ep = e => w.box[r].state # "queued"
               /\ w.box[r].state = "suppressed" => d.box[r].state \in {"queued", "suppressed"}
    <3>1. d.box[r] \in Row
      BY Parts
    <3> QED
      BY <2>1, <3>1 DEF Row
  <2> QED
    BY <2>1, <2>2
<1> HIDE DEF w
<1>11. Gone(w, e)
  BY <1>7, <1>10 DEF Gone
<1>12. CASE AwaitsDelivery(d, e)
  <2>1. Tended(HandOver(w, e), {})
    BY <1>1, <1>9, <1>10, <1>11, HandOverTended DEF Kept
  <2> QED
    BY <1>4, <1>12, <2>1
<1>13. CASE ~AwaitsDelivery(d, e)
  <2>1. ASSUME w.ep[e].key \in Disconnects, e \notin w.relieved, Silenced(w, e) PROVE FALSE
    <3>1. ~Silenced(d, e)
      BY <1>3, <1>7, <1>10, <2>1 DEF Tended, Served, Gone
    <3>2. d.enabled
      BY <1>10, <2>1 DEF Silenced
    <3>3. CASE \E r \in Revs : /\ w.box[r].ep = e /\ w.box[r].setrev = w.setrev
                               /\ w.box[r].state = "suppressed"
      BY <1>10, <1>13, <3>1, <3>2, <3>3 DEF Silenced, AwaitsDelivery
    <3>4. CASE /\ w.ep[e].intent.state = "suppressed"
               /\ w.ep[e].intent.setrev = w.setrev /\ w.ep[e].intent.age < MaxAge
      BY <1>3, <1>7, <1>10, <1>13, <3>1, <3>2, <3>4 DEF Silenced, AwaitsDelivery
    <3> QED
      BY <2>1, <3>3, <3>4 DEF Silenced
  <2>2. Served(w, e)
    BY <1>10, <2>1 DEF Served
  <2> QED
    BY <1>4, <1>9, <1>13, <2>2, TendedClosed
<1> QED
  BY <1>12, <1>13

\* A disconnect is opened once, with nothing withdrawn, and relies on an open one.
LEMMA ReopenTended ==
  ASSUME NEW d \in Database, DatabaseInv(d), NEW M, Paired(d, M), Tended(d, {}),
         NEW e \in EpIds, NEW c \in Condition, Steady(c), d.nextRev \in Revs,
         \/ e = d.nextEp
         \/ d.ep[e].status = "open" /\ d.ep[e].key = c.key /\ Transition(d, e, c)
  PROVE  Tended(Reopen(d, e, c), {})
<1> DEFINE x == [d.ep[e] EXCEPT !.key = c.key, !.status = "open", !.sev = SevOf(d, e, c),
                                !.rev = d.nextRev, !.ack = FALSE, !.epoch = c.epoch,
                                !.corr = CorrOf(d, e, c), !.tp = None, !.from = None]
           m == Opened(d, e, c)
           told == CancelIntent(m, {e})
           warns == CorrOf(d, e, c) = None /\ SevOf(d, e, c) \in {"warning", "critical"}
           n == Admit(told, e, told.ep[e].rev)
<1>1. /\ \A f \in EpIds : f \in Nat
      /\ d.nextEp \in Nat /\ None \notin Nat
      /\ \A f \in EpIds : d.ep[f].status \in {"open", "resolved", "deleted"} => f < d.nextEp
      /\ e = d.nextEp => d.ep[e].status = "unused" /\ d.ep[e].intent.state = "none"
      /\ e <= d.nextEp
  <2>1. /\ \A f \in EpIds : f \in Nat
        /\ d.nextEp \in Nat /\ None \notin Nat
    BY Parts, BoundsAssumption, KeysAssumption DEF EpIds
  <2>2. /\ \A f \in EpIds : d.ep[f].status = "unused" <=> f >= d.nextEp
        /\ \A f \in EpIds : f >= d.nextEp => d.ep[f].intent.state = "none"
    BY DEF DatabaseInv, Fresh
  <2> QED
    BY <2>1, <2>2
<1>2. /\ m \in Database /\ Kept(d, told) /\ told.owner[told.ep[e].rev] = None
      /\ Reopen(d, e, c) = IF warns THEN n ELSE told
  BY <1>1, ReopenKeeps
<1>3. /\ m.ep = [d.ep EXCEPT ![e] = x] /\ m.box = d.box /\ m.relieved = d.relieved
      /\ m.setrev = d.setrev /\ m.enabled = d.enabled
  BY DEF Opened, Database
<1>4. /\ x.key = c.key /\ x.corr = CorrOf(d, e, c) /\ x.status = "open" /\ x.tp = None
      /\ x.intent = d.ep[e].intent
  BY Parts DEF Episode
<1> HIDE DEF x, m
<1>5. m.ep[e] = x /\ \A f \in EpIds : f # e => m.ep[f] = d.ep[f]
  BY <1>3, Parts
<1>6. e < d.nextEp => c.key \notin Disconnects
  <2>1. SUFFICES ASSUME e < d.nextEp PROVE c.key \notin Disconnects
    OBVIOUS
  <2>2. d.ep[e].key = c.key /\ d.ep[e].sev # c.sev
    BY <1>1, <2>1 DEF Transition
  <2>3. c.key \in Disconnects => d.ep[e].sev = "warning"
    BY <2>1, <2>2 DEF Paired, Single
  <2> QED
    BY <2>2, <2>3 DEF Steady
<1>7. x.corr # None =>
        c.key \in Disconnects /\ x.corr \in EpIds /\ x.corr # e /\ d.ep[x.corr].status = "open"
  <2>1. SUFFICES ASSUME x.corr # None
                 PROVE  /\ c.key \in Disconnects
                        /\ x.corr \in EpIds /\ x.corr # e /\ d.ep[x.corr].status = "open"
    OBVIOUS
  <2>2. RelatedTo(d, e, c) # {} /\ x.corr = First(RelatedTo(d, e, c))
    BY <1>4, <2>1 DEF CorrOf
  <2>3. c.key \in Disconnects /\ RelatedTo(d, e, c) = SameDisconnect(d, e, c)
    BY <2>2 DEF RelatedTo, Disconnects
  <2>4. SameDisconnect(d, e, c) \in SUBSET EpIds
    BY DEF SameDisconnect
  <2>5. x.corr \in SameDisconnect(d, e, c)
    BY <2>2, <2>3, <2>4, FirstIsIn
  <2> QED
    BY <2>3, <2>5 DEF SameDisconnect
<1>8. x.corr # None => x.corr < e
  <2>1. x.corr # None => x.corr < d.nextEp /\ e = d.nextEp
    BY <1>1, <1>6, <1>7
  <2> QED
    BY <2>1
<1>9. Tended(m, {e})
  <2>1. Tended(d, {e})
    BY DEF Tended
  <2>2. \A r \in Revs : CalmRow(d, m, {e}, r)
    BY <1>3, <2>1, CalmSame
  <2>3. ASSUME NEW f \in EpIds PROVE CalmEpisode(d, m, {e}, f)
    <3>1. CASE f # e
      BY <1>5, <2>1, <3>1, CalmSame
    <3>2. CASE f = e
      <4>1. ~Gone(d, e)
        BY <1>1 DEF Gone
      <4>2. m.ep[e].intent.setrev <= d.setrev
        BY <1>4, <1>5 DEF Tended
      <4>3. \A z \in EpIds : Relies(m, e, z) => ~Gone(m, z)
        <5>1. ASSUME NEW z \in EpIds, Relies(m, e, z) PROVE ~Gone(m, z)
          <6>1. z = x.corr /\ z # None
            BY <1>1, <1>5, <5>1 DEF Relies
          <6>2. m.ep[z].status = "open"
            BY <1>5, <1>7, <6>1
          <6> QED
            BY <6>2 DEF Gone
        <5> QED
          BY <5>1
      <4> QED
        BY <1>5, <1>8, <3>2, <4>1, <4>2, <4>3 DEF CalmEpisode
    <3> QED
      BY <3>1, <3>2
  <2> QED
    BY <1>3, <2>1, <2>2, <2>3, CalmKeeps
<1>10. Tended(told, {e})
  BY <1>2, <1>9, CancelTended
<1>11. told.ep[e].status = "open" /\ told.box = d.box /\ told.ep[e].key = c.key
       /\ (x.intent.state = "none" => told.ep[e].intent.state = "none")
  <2>1. told.box = m.box /\ told.ep[e].status = "open"
    BY <1>2, <1>4, <1>5, CancelServes
  <2>2. told.ep = [f \in EpIds |-> IF f \in {e} /\ m.ep[f].intent.state = "pending"
                                   THEN [m.ep[f] EXCEPT !.intent.state = "suppressed"]
                                   ELSE m.ep[f]]
    BY <1>2 DEF CancelIntent, Database
  <2> HIDE DEF told
  <2>3. x \in Episode
    BY <1>2, <1>5, Parts
  <2>4. told.ep[e] = IF x.intent.state = "pending"
                     THEN [x EXCEPT !.intent.state = "suppressed"] ELSE x
    BY <1>5, <2>2
  <2>5. /\ told.ep[e].key = x.key
        /\ x.intent.state = "none" => told.ep[e].intent.state = "none"
    BY <2>3, <2>4 DEF Episode
  <2> QED
    BY <1>3, <1>4, <2>1, <2>5
<1> HIDE DEF told
<1>12. Served(told, e)
  <2>1. ~Gone(told, e)
    BY <1>11 DEF Gone
  <2>2. ASSUME c.key \in Disconnects PROVE ~Silenced(told, e)
    <3>1. e = d.nextEp /\ told.ep[e].intent.state = "none"
      BY <1>1, <1>4, <1>6, <1>11, <2>2
    <3>2. ASSUME NEW r \in Revs, d.box[r].ep = e, d.box[r].state = "suppressed" PROVE FALSE
      <4>1. d.owner[r] = e
        BY <3>2 DEF Paired, Attributed
      <4>2. e < d.nextEp
        BY <1>1, <4>1 DEF Paired, Attributed
      <4> QED
        BY <1>1, <3>1, <4>2
    <3> QED
      BY <1>11, <3>1, <3>2 DEF Silenced
  <2> QED
    BY <1>11, <2>1, <2>2 DEF Served
<1>13. Tended(told, {})
  BY <1>10, <1>12, TendedClosed
<1>14. Tended(n, {})
  BY <1>2, <1>11, <1>13, AdmitTended DEF Kept
<1> QED
  BY <1>2, <1>13, <1>14

\* A change of an open episode that keeps what it has and relies on nothing anew is calm.
LEMMA EditTended ==
  ASSUME NEW d \in Database, Tended(d, {}), NEW e \in EpIds, ~Gone(d, e), NEW x, NEW n,
         n.ep = [d.ep EXCEPT ![e] = x], n.box = d.box, n.setrev = d.setrev,
         n.enabled = d.enabled, d.relieved \subseteq n.relieved,
         x.key = d.ep[e].key, x.status = d.ep[e].status, x.intent = d.ep[e].intent,
         \/ x.corr = None
         \/ x.corr = d.ep[e].corr /\ x.tp = d.ep[e].tp /\ (d.ep[e].ack => x.ack)
  PROVE  Tended(n, {}) /\ n.ep[e] = x
<1>1. n.ep[e] = x /\ \A f \in EpIds : f # e => n.ep[f] = d.ep[f]
  BY Parts
<1>2. \A r \in Revs : CalmRow(d, n, {}, r)
  BY CalmSame
<1>3. ASSUME NEW f \in EpIds PROVE CalmEpisode(d, n, {}, f)
  <2>1. CASE f # e
    BY <1>1, <2>1, CalmSame
  <2>2. CASE f = e
    <3>1. None \notin EpIds
      BY KeysAssumption DEF EpIds
    <3>2. \A z \in EpIds : Relies(n, e, z) => Relies(d, e, z)
      BY <1>1, <3>1 DEF Relies
    <3>3. x.corr # None => x.corr < e
      BY DEF Tended
    <3>4. d.ep[e].intent.setrev <= d.setrev
      BY DEF Tended
    <3> QED
      BY <1>1, <2>2, <3>2, <3>3, <3>4 DEF CalmEpisode, Gone
  <2> QED
    BY <2>1, <2>2
<1> QED
  BY <1>1, <1>2, <1>3, CalmKeeps

\* An observation without a transition.
LEMMA RefreshTended ==
  ASSUME NEW d \in Database, DatabaseInv(d), Tended(d, {}),
         NEW e \in EpIds, NEW c \in Condition,
         d.ep[e].status = "open", ~Transition(d, e, c)
  PROVE  Tended(Refresh(d, e, c), {})
<1> DEFINE old == d.ep[e]
           sev == IF c.fresh THEN c.sev ELSE old.sev
           x == [old EXCEPT !.sev = sev, !.epoch = c.epoch]
           y == [old EXCEPT !.sev = sev, !.epoch = c.epoch, !.tp = None, !.corr = None,
                            !.from = old.tp.from]
           seen == [d EXCEPT !.ep[e] = x]
           redeemed == [d EXCEPT !.ep[e] = y]
<1>1. old \in Episode /\ c.epoch \in Epochs \cup {None} /\ sev = old.sev /\ ~Gone(d, e)
  <2>1. old \in Episode
    BY Parts
  <2> QED
    BY <2>1 DEF Transition, Condition, Gone
<1>2. Refresh(d, e, c) = IF Redeems(d, e, c) THEN Admit(redeemed, e, old.rev) ELSE seen
  BY DEF Refresh
<1> HIDE DEF sev
<1>3. Tended(seen, {})
  <2>1. /\ x.key = old.key /\ x.status = old.status /\ x.intent = old.intent
        /\ x.corr = old.corr /\ x.tp = old.tp /\ x.ack = old.ack
    BY <1>1 DEF Episode
  <2>2. /\ seen.ep = [d.ep EXCEPT ![e] = x] /\ seen.box = d.box
        /\ seen.setrev = d.setrev /\ seen.enabled = d.enabled /\ seen.relieved = d.relieved
    BY DEF Database
  <2> HIDE DEF x, seen
  <2> QED
    BY <1>1, <2>1, <2>2, EditTended
<1>4. ASSUME Redeems(d, e, c)
      PROVE  Tended(Admit(redeemed, e, old.rev), {})
  <2>1. old.tp \in Transfer /\ old.tp # None
    BY <1>1, <1>4 DEF Redeems, Episode
  <2>2. old.tp.from \in EpIds /\ d.owner[old.rev] = None
    BY <2>1 DEF Transfer, DatabaseInv, MutedIsUnannounced
  <2>3. /\ y \in Episode /\ y.tp = None /\ y.corr = None /\ y.rev = old.rev
        /\ y.status = "open" /\ y.ack = old.ack /\ y.intent = old.intent
        /\ y.key = old.key
    BY ZenonT(40), <1>1, <2>2 DEF Episode
  <2>4. /\ redeemed.ep = [d.ep EXCEPT ![e] = y] /\ redeemed.box = d.box
        /\ redeemed.owner = d.owner /\ redeemed.setrev = d.setrev
        /\ redeemed.enabled = d.enabled /\ redeemed.relieved = d.relieved
    BY DEF Database
  <2> HIDE DEF y
  <2>5. Kept(d, redeemed)
    <3>1. y.tp # None => y.corr # None /\ y.key \in Presence
      BY <2>3
    <3>2. y.corr \in {d.ep[e].corr, None} /\ d.ep[e].status # "unused"
      BY <2>3
    <3> QED
      BY <2>3, <3>1, <3>2, TouchKeeps
  <2> HIDE DEF redeemed
  <2>6. Tended(redeemed, {}) /\ redeemed.ep[e] = y
    BY <1>1, <2>3, <2>4, EditTended
  <2>7. Tended(Admit(redeemed, e, redeemed.ep[e].rev), {})
    BY <2>2, <2>3, <2>4, <2>5, <2>6, AdmitTended DEF Kept
  <2> QED
    BY <2>3, <2>6, <2>7
<1> QED
  BY <1>2, <1>3, <1>4

\* observe_condition, whichever branch it takes.
LEMMA ObserveTended ==
  ASSUME NEW d \in Database, DatabaseInv(d), NEW M, Paired(d, M), Tended(d, {}),
         NEW c \in Condition, Steady(c), d.nextEp \in EpIds, d.nextRev \in Revs
  PROVE  Tended(Observe(d, c), {})
<1> DEFINE open == OpenEpisodes(d, c.key)
           e == IF open = {} THEN d.nextEp ELSE First(open)
           flagged == [d EXCEPT !.limited = TRUE]
<1>1. open # {} => e \in EpIds /\ d.ep[e].status = "open" /\ d.ep[e].key = c.key
  <2>1. open \in SUBSET EpIds
    BY DEF OpenEpisodes
  <2>2. open # {} => e \in open
    BY <2>1, FirstIsIn
  <2> QED
    BY <2>2 DEF OpenEpisodes
<1>2. Tended(flagged, {})
  <2>1. /\ flagged.ep = d.ep /\ flagged.box = d.box /\ flagged.setrev = d.setrev
        /\ flagged.enabled = d.enabled /\ flagged.relieved = d.relieved
    BY DEF Database
  <2> HIDE DEF flagged
  <2> QED
    BY <2>1, CalmSame, CalmKeeps
<1>3. open # {} => Tended(Recover(d, e), {})
  BY <1>1, RecoverTended
<1>4. open = {} \/ Transition(d, e, c) => Tended(Reopen(d, e, c), {})
  <2>1. CASE open = {}
    BY <2>1, ReopenTended
  <2>2. CASE open # {}
    BY <1>1, <2>2, ReopenTended
  <2> QED
    BY <2>1, <2>2
<1>5. open # {} /\ ~Transition(d, e, c) => Tended(Refresh(d, e, c), {})
  BY <1>1, RefreshTended
<1>6. \/ Observe(d, c) = d \/ Observe(d, c) = flagged
      \/ open # {} /\ Observe(d, c) = Recover(d, e)
      \/ (open = {} \/ Transition(d, e, c)) /\ Observe(d, c) = Reopen(d, e, c)
      \/ open # {} /\ ~Transition(d, e, c) /\ Observe(d, c) = Refresh(d, e, c)
  BY DEF Observe
<1> HIDE DEF open, e, flagged
<1> QED
  BY <1>2, <1>3, <1>4, <1>5, <1>6

\* acknowledge relieves the episode.
LEMMA AcknowledgeTended ==
  ASSUME NEW d \in Database, Tended(d, {}), NEW e \in EpIds,
         d.ep[e].status = "open", d.nextRev \in Revs
  PROVE  Tended(Acknowledge(d, e), {})
<1> DEFINE x == [d.ep[e] EXCEPT !.ack = TRUE, !.rev = d.nextRev]
           m == Noted(d, e)
           c == CancelIntent(m, {e})
           n == SuppressQueued(c, {e})
<1>1. /\ m.ep = [d.ep EXCEPT ![e] = x] /\ m.box = d.box
      /\ m.setrev = d.setrev /\ m.enabled = d.enabled
      /\ m.relieved = d.relieved \cup {e}
  BY DEF Noted, Database
<1>2. /\ x \in Episode /\ x.ack = TRUE /\ x.key = d.ep[e].key /\ x.status = "open"
      /\ x.intent = d.ep[e].intent /\ x.corr = d.ep[e].corr /\ x.tp = d.ep[e].tp
  <2>1. d.ep[e] \in Episode
    BY Parts
  <2> QED
    BY <2>1 DEF Episode
<1>3. m \in Database
  <2>1. /\ [d.ep EXCEPT ![e] = x] \in [EpIds -> Episode] /\ d.nextRev + 1 \in 1..(MaxRev + 1)
        /\ d.relieved \cup {e} \in SUBSET EpIds
    BY <1>2, Parts, BoundsAssumption DEF Revs
  <2> QED
    BY <2>1 DEF Noted, Database
<1> HIDE DEF x, m
<1>4. Tended(m, {}) /\ m.ep[e] = x
  <2>1. ~Gone(d, e) /\ d.relieved \subseteq m.relieved
    BY <1>1 DEF Gone
  <2> QED
    BY <1>1, <1>2, <2>1, EditTended
<1>5. Tended(m, {e})
  BY <1>4 DEF Tended
<1>6. /\ c \in Database /\ Tended(c, {e}) /\ c.ep[e].status = "open"
      /\ c.relieved = m.relieved
  <2>1. c.relieved = m.relieved
    BY <1>3 DEF CancelIntent, Database
  <2> QED
    BY <1>2, <1>3, <1>4, <1>5, <2>1, CancelServes, CancelTended
<1> HIDE DEF c
<1>7. Tended(n, {e}) /\ n.ep = c.ep /\ n.relieved = c.relieved
  <2>1. n.ep = c.ep /\ n.relieved = c.relieved
    BY <1>6 DEF SuppressQueued, Database
  <2> QED
    BY <1>6, <2>1, SuppressTended
<1> HIDE DEF n
<1>8. Served(n, e)
  BY <1>1, <1>6, <1>7 DEF Served, Gone
<1> QED
  BY <1>7, <1>8, TendedClosed DEF Acknowledge, n, c, m

\* configure: under new settings nothing was withdrawn yet.
LEMMA ConfigureTended ==
  ASSUME NEW d \in Database, Tended(d, {}), NEW enabled \in BOOLEAN
  PROVE  Tended(Configure(d, enabled), {})
<1> DEFINE c == CancelIntent(d, EpIds)
           s == SuppressQueued(c, EpIds)
           n == Configure(d, enabled)
<1>1. Tended(d, EpIds)
  BY DEF Tended
<1>2. c \in Database /\ Tended(c, EpIds) /\ c.setrev = d.setrev
  <2>1. c.setrev = d.setrev
    BY DEF CancelIntent, Database
  <2> QED
    BY <1>1, <2>1, CancelServes, CancelTended
<1> HIDE DEF c
<1>3. Tended(s, EpIds) /\ s.setrev = d.setrev
  <2>1. s.setrev = d.setrev
    BY <1>2 DEF SuppressQueued, Database
  <2> QED
    BY <1>2, <2>1, SuppressTended
<1>4. ASSUME NEW r \in Revs PROVE s.box[r].state # "queued" /\ s.box[r].setrev \in Nat
  <2>1. c.box[r] \in Row
    BY <1>2, Parts
  <2>2. s.box[r] = IF c.box[r].ep \in EpIds /\ c.box[r].state = "queued"
                   THEN [c.box[r] EXCEPT !.state = "suppressed"] ELSE c.box[r]
    BY <1>2 DEF SuppressQueued, Database
  <2> HIDE DEF s
  <2> QED
    BY <2>1, <2>2 DEF Row
<1>5. \A e \in EpIds : s.ep[e].intent.setrev \in Nat
  <2>1. s.ep = c.ep
    BY <1>2, SuppressServes
  <2> QED
    BY <1>2, <2>1, Parts DEF Intent
<1>6. n.ep = s.ep /\ n.box = s.box /\ n.setrev = d.setrev + 1 /\ n.enabled = enabled
  BY <1>2, <1>3 DEF Configure, SuppressQueued, Database, c
<1>7. d.setrev \in Nat
  BY Parts
<1> HIDE DEF n, s
<1>8. ASSUME NEW r \in Revs
      PROVE  /\ n.box[r].setrev < n.setrev
             /\ n.box[r].state = "sending" => n.box[r].attempts # 0
  BY <1>3, <1>4, <1>6, <1>7 DEF Tended
<1>9. ASSUME NEW e \in EpIds
      PROVE  /\ n.ep[e].intent.setrev < n.setrev
             /\ n.ep[e].corr # None => n.ep[e].corr < e
  BY <1>3, <1>5, <1>6, <1>7 DEF Tended
<1>10. n.setrev \in Nat
  BY <1>6, <1>7
<1>11. ASSUME NEW e \in EpIds PROVE Served(n, e)
  <2>1. \A r \in Revs : n.box[r].setrev # n.setrev /\ n.box[r].state # "queued"
    BY <1>4, <1>6, <1>8, <1>10
  <2>2. n.ep[e].intent.setrev # n.setrev
    BY <1>5, <1>6, <1>9, <1>10
  <2> QED
    BY <2>1, <2>2 DEF Served, Silenced
<1>12. /\ \A r \in Revs : n.box[r].setrev <= n.setrev
       /\ \A e \in EpIds : n.ep[e].intent.setrev <= n.setrev
  BY <1>4, <1>5, <1>6, <1>8, <1>9, <1>10
<1>13. Tended(n, {})
  BY <1>8, <1>9, <1>11, <1>12 DEF Tended
<1> QED
  BY <1>13 DEF n

\* The head of reconcile.
LEMMA RetainTended ==
  ASSUME NEW d \in Database, DatabaseInv(d), Tended(d, {}),
         NEW rs \in SUBSET Forgettable(d), NEW es \in SUBSET Unreferenced(d, rs)
  PROVE  Tended(Retain(d, rs, es), {})
<1> DEFINE m == Pruned(d, rs, es)
<1>1. /\ Kept(d, m)
      /\ m.box = [r \in Revs |-> IF r \in rs THEN NoRow ELSE d.box[r]]
      /\ \A e \in es : e \in EpIds /\ d.ep[e].status = "resolved"
      /\ \A e \in EpIds :
           /\ m.ep[e].rev = d.ep[e].rev /\ m.ep[e].ack = d.ep[e].ack
           /\ m.ep[e].corr = d.ep[e].corr /\ m.ep[e].sev = d.ep[e].sev
           /\ m.ep[e].intent = d.ep[e].intent /\ m.ep[e].key = d.ep[e].key
           /\ m.ep[e].from = d.ep[e].from /\ m.ep[e].tp = d.ep[e].tp
           /\ m.ep[e].status = IF e \in es THEN "deleted" ELSE d.ep[e].status
  BY PrunedKeeps
<1>2. /\ Retain(d, rs, es) = RetryPending(m)
      /\ m.setrev = d.setrev /\ m.enabled = d.enabled /\ m.relieved = d.relieved
  BY DEF Retain, Pruned, Database
<1> HIDE DEF m
<1>3. NoRow.state = "absent" /\ NoRow.setrev = 0 /\ d.setrev \in Nat
  BY Parts DEF NoRow
<1>4. ASSUME NEW r \in Revs PROVE CalmRow(d, m, {}, r)
  <2>1. CASE m.box[r] = d.box[r]
    BY <2>1, CalmSame
  <2>2. CASE m.box[r] = NoRow
    BY <1>3, <2>2 DEF CalmRow
  <2> QED
    BY <1>1, <2>1, <2>2
<1>5. ASSUME NEW e \in EpIds PROVE CalmEpisode(d, m, {}, e)
  BY <1>1 DEF CalmEpisode, Relies, Gone, Tended
<1>6. Tended(m, {})
  BY <1>2, <1>4, <1>5, CalmKeeps
<1> QED
  BY <1>1, <1>2, <1>6, RetryTended DEF Kept

\* The tail of reconcile.
LEMMA ReconciledTended ==
  ASSUME NEW d \in Database, DatabaseInv(d), Tended(d, {})
  PROVE  Tended(Reconciled(d), {})
<1> DEFINE m == RetryPending(d)
           n == Reconciled(d)
<1>1. m \in Database /\ Tended(m, {})
  BY RetryPendingKeeps, RetryTended DEF Kept
<1>2. /\ n.ep = m.ep /\ n.box = m.box /\ n.setrev = m.setrev /\ n.enabled = m.enabled
      /\ n.relieved = m.relieved
  BY <1>1 DEF Reconciled, Database
<1> HIDE DEF m, n
<1> QED
  BY <1>1, <1>2, CalmSame, CalmKeeps DEF n

\* The sweep settles rows without withdrawing them.
LEMMA SweepTended ==
  ASSUME NEW d \in Database, DatabaseInv(d), Tended(d, {})
  PROVE  Tended(Sweep(d), {})
<1> DEFINE m == Swept(d)
           given(r) ==
             LET row == d.box[r]
             IN CASE row.state = "sending" -> [row EXCEPT !.state = "uncertain"]
                  [] row.state = "queued" /\ row.age = MaxAge -> [row EXCEPT !.state = "failed"]
                  [] row.state = "accepted" /\ row.age = MaxAge ->
                       [row EXCEPT !.state = "uncertain"]
                  [] OTHER -> row
<1>1. m \in Database /\ DatabaseInv(m)
  BY SweptKeeps
<1>2. Sweep(d) = RetryPending(m)
  BY DEF Sweep, Swept
<1>3. /\ m.ep = d.ep /\ m.setrev = d.setrev /\ m.enabled = d.enabled
      /\ m.relieved = d.relieved /\ \A r \in Revs : m.box[r] = given(r)
  BY DEF Swept, Database
<1> HIDE DEF m
<1>4. ASSUME NEW r \in Revs PROVE CalmRow(d, m, {}, r)
  <2>1. d.box[r] \in Row
    BY Parts
  <2>2. \/ given(r) = d.box[r]
        \/ /\ given(r).state \in {"uncertain", "failed"}
           /\ given(r).setrev = d.box[r].setrev
    BY <2>1 DEF Row
  <2> HIDE DEF given
  <2>3. CASE m.box[r] = d.box[r]
    BY <2>3, CalmSame
  <2>4. CASE m.box[r] # d.box[r]
    BY <1>3, <2>2, <2>4 DEF CalmRow, Tended
  <2> QED
    BY <2>3, <2>4
<1>5. Tended(m, {})
  BY <1>3, <1>4, CalmSame, CalmKeeps
<1> QED
  BY <1>1, <1>2, <1>5, RetryTended

-----------------------------------------------------------------------------
(* Every episode is served along the steps of the specification.           *)

TendedInv == PairedInv /\ Tended(db, {})

\* A reported condition.
LEMMA IngestTended ==
  ASSUME TendedInv, NEW c \in Reports, Ingest(c)
  PROVE  Tended(db', {})
<1>1. db \in Database /\ DatabaseInv(db) /\ c \in Condition
  BY ReportsAssumption DEF TendedInv, PairedInv, IInv, TypeOK
<1>2. db.nextEp \in EpIds /\ db.nextRev \in Revs
  BY <1>1, Parts, BoundsAssumption DEF Ingest, Room, EpIds, Revs
<1>3. Steady(c)
  BY DisconnectAssumption DEF Steady, Disconnects
<1>4. Paired(db, made) /\ Tended(db, {})
  BY DEF TendedInv, PairedInv
<1>5. Tended(Observe(db, c), {})
  BY <1>1, <1>2, <1>3, <1>4, ObserveTended
<1> QED
  BY <1>5 DEF Ingest

\* A reconciliation pass.
LEMMA ReconcileTended ==
  ASSUME TendedInv, NEW batch \in Batches, NEW rs \in SUBSET Forgettable(db),
         NEW es \in SUBSET Unreferenced(db, rs), Reconcile(batch, rs, es)
  PROVE  Tended(db', {})
<1> DEFINE a == Retain(db, rs, es)
           b == Observe(a, batch[1])
           c == Observe(b, batch[2])
<1>1. db \in Database /\ DatabaseInv(db) /\ batch[1] \in Condition /\ batch[2] \in Condition
  BY ReportsAssumption DEF TendedInv, PairedInv, IInv, TypeOK
<1>2. db.nextEp \in Nat /\ db.nextRev \in Nat /\ db.nextEp >= 1 /\ db.nextRev >= 1
      /\ db.nextEp + 2 <= MaxEp + 1 /\ db.nextRev + 2 <= MaxRev + 1
  BY <1>1, Parts, BoundsAssumption DEF Reconcile, Room
<1>3. Steady(batch[1]) /\ Steady(batch[2])
  BY DisconnectAssumption DEF Steady, Disconnects
<1>4. Paired(db, made) /\ Unmade(db, made) /\ Tended(db, {})
  BY NothingMade DEF TendedInv, PairedInv
<1>5. db' = Reconciled(c)
  BY DEF Reconcile
<1>6. Kept(db, a) /\ SameCounters(db, a) /\ Paired(a, made) /\ Tended(a, {})
  BY <1>1, <1>4, RetainKeeps, RetainPaired, RetainTended
<1> HIDE DEF a
<1>7. /\ a \in Database /\ DatabaseInv(a) /\ Unmade(a, made)
      /\ a.nextEp \in EpIds /\ a.nextRev \in Revs
  <2>1. Unmade(a, made)
    BY <1>1, <1>4, <1>6, UnmadeKept
  <2> QED
    BY <1>2, <1>6, <2>1, BoundsAssumption DEF Kept, SameCounters, EpIds, Revs
<1>8. Kept(a, b) /\ Advances(a, b) /\ Paired(b, made) /\ Tended(b, {})
  BY <1>1, <1>3, <1>6, <1>7, ObserveKeeps, ObservePaired, ObserveTended
<1> HIDE DEF b
<1>9. b \in Database /\ DatabaseInv(b)
  BY <1>8 DEF Kept
<1>10. b.nextEp \in EpIds /\ b.nextRev \in Revs
  BY SMTT(30), <1>2, <1>6, <1>8, <1>9, Parts, BoundsAssumption DEF SameCounters, Advances, EpIds, Revs
<1>11. Kept(b, c) /\ Tended(c, {})
  BY <1>1, <1>3, <1>8, <1>9, <1>10, ObserveKeeps, ObserveTended
<1> HIDE DEF c
<1>12. Tended(Reconciled(c), {})
  BY <1>11, ReconciledTended DEF Kept
<1> QED
  BY <1>5, <1>12

\* The passing of time: what was withdrawn does not age.
LEMMA TickTended ==
  ASSUME TendedInv, Tick
  PROVE  Tended(db', {})
<1> DEFINE row(r) == IF db.box[r].state = "absent" THEN db.box[r] ELSE Older(db.box[r])
           intent(e) == IF db.ep[e].intent.state = "pending" THEN Older(db.ep[e].intent)
                        ELSE db.ep[e].intent
           tp(e) == IF db.ep[e].tp = None THEN db.ep[e].tp ELSE Older(db.ep[e].tp)
<1>1. db \in Database /\ Tended(db, {})
  BY DEF TendedInv, PairedInv, IInv, TypeOK
<1>2. /\ db'.setrev = db.setrev /\ db'.enabled = db.enabled /\ db'.relieved = db.relieved
      /\ \A r \in Revs : db'.box[r] = row(r)
      /\ \A e \in EpIds : db'.ep[e] = [db.ep[e] EXCEPT !.intent = intent(e), !.tp = tp(e)]
  <2>1. /\ db'.setrev = db.setrev /\ db'.enabled = db.enabled /\ db'.relieved = db.relieved
        /\ \A r \in Revs : db'.box[r] = row(r)
    BY <1>1 DEF Tick, Database
  <2>2. ASSUME NEW e \in EpIds
        PROVE  db'.ep[e] = [db.ep[e] EXCEPT !.intent = intent(e), !.tp = tp(e)]
    <3>1. db.ep[e] \in Episode
      BY <1>1, Parts
    <3>2. db'.ep[e] = [db.ep[e] EXCEPT !.intent = IF @.state = "pending" THEN Older(@) ELSE @,
                                       !.tp = IF @ = None THEN @ ELSE Older(@)]
      BY <1>1 DEF Tick, Database
    <3> QED
      BY <3>1, <3>2 DEF Episode
  <2> QED
    BY <2>1, <2>2
<1>3. ASSUME NEW r \in Revs PROVE CalmRow(db, db', {}, r)
  <2>1. db.box[r] \in Row
    BY <1>1, Parts
  <2>2. /\ row(r).state = db.box[r].state /\ row(r).ep = db.box[r].ep
        /\ row(r).setrev = db.box[r].setrev /\ row(r).attempts = db.box[r].attempts
    BY <2>1 DEF Older, Row
  <2> HIDE DEF row
  <2> QED
    BY <1>1, <1>2, <2>2 DEF CalmRow, Tended
<1>4. ASSUME NEW e \in EpIds
      PROVE  /\ intent(e).setrev = db.ep[e].intent.setrev
             /\ intent(e).state = "suppressed" => intent(e) = db.ep[e].intent
             /\ tp(e) = None => db.ep[e].tp = None
  <2>1. db.ep[e].intent \in Intent /\ db.ep[e].tp \in Transfer \cup {None}
    BY <1>1, Parts DEF Episode
  <2>2. \A a \in Ages : (IF a < MaxAge THEN a + 1 ELSE a) \in Ages
    BY BoundsAssumption DEF Ages
  <2>3. db.ep[e].tp # None => Older(db.ep[e].tp) \in Transfer
    BY <2>1, <2>2 DEF Older, Transfer
  <2>4. /\ intent(e).setrev = db.ep[e].intent.setrev
        /\ intent(e).state = "suppressed" => intent(e) = db.ep[e].intent
    BY <2>1 DEF Older, Intent
  <2> QED
    BY <2>3, <2>4, NoneAssumption
<1> HIDE DEF intent, tp, row
<1>5. ASSUME NEW e \in EpIds
      PROVE  /\ db'.ep[e].intent = intent(e) /\ db'.ep[e].tp = tp(e)
             /\ db'.ep[e].corr = db.ep[e].corr /\ db'.ep[e].key = db.ep[e].key
             /\ db'.ep[e].status = db.ep[e].status /\ db'.ep[e].ack = db.ep[e].ack
  <2>1. db.ep[e] \in Episode
    BY <1>1, Parts
  <2> QED
    BY <1>2, <2>1 DEF Episode
<1>6. ASSUME NEW e \in EpIds PROVE CalmEpisode(db, db', {}, e)
  BY <1>1, <1>4, <1>5 DEF CalmEpisode, Relies, Gone, Tended
<1> QED
  BY <1>1, <1>2, <1>3, <1>6, CalmKeeps

\* A claim counts an attempt.
LEMMA WorkerTended ==
  ASSUME TendedInv, WorkerStep
  PROVE  Tended(db', {})
<1> DEFINE s == Sweep(db)
<1>1. s \in Database /\ Tended(s, {})
  BY SweepKeeps, SweepTended DEF TendedInv, PairedInv, IInv, TypeOK
<1>2. CASE db' = s
  BY <1>1, <1>2
<1>3. ASSUME NEW r \in Revs, ClaimSend(r) PROVE Tended(db', {})
  <2>1. db' = [s EXCEPT !.box[r].state = "sending", !.box[r].attempts = @ + 1]
    BY <1>3 DEF ClaimSend
  <2> HIDE DEF s
  <2>2. s.box[r] \in Row
    BY <1>1, Parts
  <2>3. s.box[r].attempts \in Nat
    BY <2>2, BoundsAssumption DEF Row
  <2>4. /\ db'.ep = s.ep /\ db'.setrev = s.setrev /\ db'.enabled = s.enabled
        /\ db'.relieved = s.relieved
        /\ \A q \in Revs : q # r => db'.box[q] = s.box[q]
        /\ db'.box[r].state = "sending" /\ db'.box[r].setrev = s.box[r].setrev
        /\ db'.box[r].attempts = s.box[r].attempts + 1
    BY <1>1, <2>1, <2>2 DEF Database, Row
  <2>5. ASSUME NEW q \in Revs PROVE CalmRow(s, db', {}, q)
    <3>1. CASE q # r
      BY <1>1, <2>4, <3>1, CalmSame
    <3>2. CASE q = r
      BY <1>1, <2>3, <2>4, <3>2 DEF CalmRow, Tended
    <3> QED
      BY <3>1, <3>2
  <2> QED
    BY <1>1, <2>4, <2>5, CalmSame, CalmKeeps
<1> QED
  BY <1>2, <1>3 DEF WorkerStep, SweepOnly, ClaimPoll

\* A row that returns to the queue was claimed.
LEMMA RecordTended ==
  ASSUME TendedInv, Record
  PROVE  Tended(db', {})
<1> DEFINE w == worker.rev
           final == Final(worker.poll, worker.outcome, db.box[w].attempts)
           sid == db.box[w].sid \/ worker.outcome.sid
<1>1. db \in Database /\ Tended(db, {})
  BY DEF TendedInv, PairedInv, IInv, TypeOK
<1>2. /\ w \in Revs /\ \A r \in Revs : r # w => db'.box[r] = db.box[r]
      /\ worker.poll => db'.box[w].state \in {"accepted"} \cup Settled
      /\ ~worker.poll => db.box[w].state = "sending"
      /\ db.box[w].state # "absent"
  BY RecordStep DEF TendedInv, PairedInv
<1>3. db.box[w] \in Row
  BY <1>1, <1>2, Parts
<1>4. db' = [db EXCEPT !.box[w].state = final, !.box[w].sid = sid]
  BY <1>2 DEF Record
<1>5. final # "suppressed" /\ final # "sending"
  <2>1. worker.outcome \in Outcome
    BY DEF TendedInv, PairedInv, IInv, TypeOK, Worker
  <2> QED
    BY <2>1 DEF Final, Outcome
<1> HIDE DEF final, w, sid
<1>6. /\ db'.ep = db.ep /\ db'.setrev = db.setrev /\ db'.enabled = db.enabled
      /\ db'.relieved = db.relieved
      /\ db'.box[w].state = final /\ db'.box[w].setrev = db.box[w].setrev
      /\ db'.box[w].attempts = db.box[w].attempts
  BY <1>1, <1>2, <1>3, <1>4 DEF Database, Row
<1>7. ASSUME NEW r \in Revs PROVE CalmRow(db, db', {}, r)
  <2>1. CASE r # w
    BY <1>1, <1>2, <2>1, CalmSame
  <2>2. CASE r = w
    <3>1. final = "queued" => db.box[w].attempts # 0
      BY <1>1, <1>2, <1>6 DEF Tended, Settled
    <3> QED
      BY <1>1, <1>5, <1>6, <2>2, <3>1 DEF CalmRow, Tended
  <2> QED
    BY <2>1, <2>2
<1> QED
  BY <1>1, <1>6, <1>7, CalmSame, CalmKeeps

\* The recovery at the start of the worker.
LEMMA StartTended ==
  ASSUME TendedInv, NEW client \in BOOLEAN, Start(client)
  PROVE  Tended(db', {})
<1>1. db \in Database /\ Tended(db, {})
  BY DEF TendedInv, PairedInv, IInv, TypeOK
<1>2. /\ db'.ep = db.ep /\ db'.setrev = db.setrev /\ db'.enabled = db.enabled
      /\ db'.relieved = db.relieved
      /\ db'.box = [r \in Revs |-> IF db.box[r].state = "sending"
                                   THEN [db.box[r] EXCEPT !.state = "uncertain"]
                                   ELSE db.box[r]]
  BY <1>1 DEF Start, Database
<1>3. ASSUME NEW r \in Revs PROVE CalmRow(db, db', {}, r)
  <2>1. db.box[r] \in Row
    BY <1>1, Parts
  <2>2. \/ db'.box[r] = db.box[r]
        \/ db'.box[r].state = "uncertain" /\ db'.box[r].setrev = db.box[r].setrev
    BY <1>2, <2>1 DEF Row
  <2> QED
    BY <1>1, <2>2, CalmSame DEF CalmRow, Tended
<1> QED
  BY SMTT(30), <1>1, <1>2, <1>3, CalmSame, CalmKeeps

\* Every step leaves every episode served.
LEMMA NextTended == TendedInv /\ [Next]_vars => Tended(db', {})
<1> SUFFICES ASSUME TendedInv, [Next]_vars PROVE Tended(db', {})
  OBVIOUS
<1>1. ASSUME NEW c \in Reports, Ingest(c) PROVE Tended(db', {})
  BY <1>1, IngestTended
<1>2. CASE ReconcileAny
  BY <1>2, ReconcileTended DEF ReconcileAny
<1>3. ASSUME NEW e \in EpIds, AcknowledgeEpisode(e) PROVE Tended(db', {})
  <2>1. /\ db \in Database /\ Tended(db, {})
        /\ db.ep[e].status = "open" /\ db' = Acknowledge(db, e)
    BY <1>3 DEF AcknowledgeEpisode, TendedInv, PairedInv, IInv, TypeOK
  <2>2. db.nextRev \in Revs
    BY <1>3, <2>1, Parts, BoundsAssumption DEF AcknowledgeEpisode, Room, Revs
  <2> QED
    BY <2>1, <2>2, AcknowledgeTended
<1>4. ASSUME NEW enabled \in BOOLEAN, ChangeSettings(enabled) PROVE Tended(db', {})
  BY <1>4, ConfigureTended DEF ChangeSettings, TendedInv, PairedInv, IInv, TypeOK
<1>5. CASE Tick
  BY <1>5, TickTended
<1>6. CASE WorkerStep
  BY <1>6, WorkerTended
<1>7. CASE Record
  BY <1>7, RecordTended
<1>8. ASSUME NEW client \in BOOLEAN, Start(client) PROVE Tended(db', {})
  BY <1>8, StartTended
<1>9. CASE db' = db
  BY <1>9 DEF TendedInv
<1> QED
  BY <1>1, <1>2, <1>3, <1>4, <1>5, <1>6, <1>7, <1>8, <1>9
     DEF Next, Respond, RecordFails, Crash, vars

\* Nothing is opened, so nothing is neglected.
LEMMA InitTended == Init => TendedInv
<1> SUFFICES ASSUME Init PROVE TendedInv
  OBVIOUS
<1>1. PairedInv
  BY InitPaired
<1>2. /\ \A r \in Revs : db.box[r] = NoRow
      /\ \A e \in EpIds : db.ep[e].corr = None /\ db.ep[e].intent = NoIntent
      /\ db.setrev = 0 /\ ~db.enabled
  BY DEF Init
<1> QED
  BY <1>1, <1>2 DEF TendedInv, Tended, Served, Silenced, NoRow, NoIntent

\* TendedInv is an invariant of the specification.
THEOREM TendedInvariance == Spec => []TendedInv
<1>1. Init => TendedInv
  BY InitTended
<1>2. TendedInv /\ [Next]_vars => TendedInv'
  BY NextTended, NextPaired, NextKeepsIInv DEF TendedInv, PairedInv
<1> QED
  BY <1>1, <1>2, PTL DEF Spec

\* No open, unacknowledged warning is silenced by an admission, an eviction, a retry or a
\* recovery: an episode it relies on is open, or has recovered with its notification
\* handed over, acknowledged, outdated, or tried by the worker.
THEOREM ConcernsAreHeard == Spec => []NoConcernDropped
<1>1. OutboxInv /\ TendedInv => NoConcernDropped
  <2> SUFFICES ASSUME OutboxInv, TendedInv, NEW e \in EpIds,
                      db.ep[e].status = "open", ~db.ep[e].ack,
                      db.ep[e].sev \in {"warning", "critical"},
                      db.owner[db.ep[e].rev] = None,
                      ~(db.ep[e].intent.state # "none" /\ db.ep[e].intent.rev = db.ep[e].rev)
               PROVE  LET ep == db.ep[e]
                      IN /\ ep.corr # None /\ ep.corr < e
                         /\ \/ db.ep[ep.corr].status = "open"
                            \/ ep.tp # None
                            \/ ep.corr \in db.relieved
                            \/ ~Forgone(db, ep.corr)
    BY DEF NoConcernDropped
  <2> DEFINE c == db.ep[e].corr
  <2>1. db \in Database /\ DatabaseInv(db) /\ Tended(db, {}) /\ Correlated(db)
    BY DEF TendedInv, PairedInv, Paired, IInv, TypeOK
  <2>2. c # None
    BY DEF OutboxInv, Heard
  <2>3. c \in EpIds /\ c < e
    BY <2>1, <2>2, Parts DEF Episode, Tended
  <2>4. db.ep[c].key \in Disconnects /\ c < db.nextEp
    BY <2>1, <2>2 DEF Correlated
  <2>5. ASSUME db.ep[c].status # "open", db.ep[e].tp = None, c \notin db.relieved
        PROVE  ~Forgone(db, c)
    <3>1. Relies(db, e, c)
      BY <2>5 DEF Relies
    <3>2. Gone(db, c)
      <4>1. c \in Nat /\ db.nextEp \in Nat
        BY <2>1, <2>3, Parts, BoundsAssumption DEF EpIds
      <4>2. db.ep[c].status # "unused"
        BY <2>1, <2>3, <2>4, <4>1 DEF DatabaseInv, Fresh
      <4>3. db.ep[c].status \in {"unused", "open", "resolved", "deleted"}
        BY <2>1, <2>3, Parts DEF Episode
      <4> QED
        BY <2>5, <4>2, <4>3 DEF Gone
    <3>3. Served(db, c) /\ ~Silenced(db, c)
      BY <2>1, <2>3, <2>4, <2>5, <3>1 DEF Tended, Served
    <3>4. db.ep[c].intent.state # "pending"
      BY <2>1, <2>3, <2>5 DEF DatabaseInv, IntentIsCurrent
    <3> QED
      BY <3>2, <3>3, <3>4 DEF Forgone, Served, Silenced
  <2> QED
    BY <2>2, <2>3, <2>5
<1> QED
  BY <1>1, OutboxInvariance, TendedInvariance, PTL
=============================================================================
