------------------------ MODULE NotificationsProofs ------------------------
(***************************************************************************)
(* Proofs about Notifications, for every value of its constants.           *)
(*                                                                         *)
(* Each function of the code is an operator from a database to a database. *)
(* Kept(d, n) says what all of them keep: the type and the invariant of    *)
(* the database, and that a row moves only as RowMove allows.  One lemma   *)
(* per operator establishes Kept, and KeptTransitive composes them along   *)
(* the calls of the code.  The steps of the worker are treated one by one, *)
(* since they alone touch a claimed or an accepted row.                    *)
(***************************************************************************)
EXTENDS Notifications, WellFoundedInduction, TLAPS

\* What a handler may do to the row of one transition.
RowMove(d, n, r) ==
  \/ n.box[r] = d.box[r] /\ n.owner[r] = d.owner[r]
  \/ /\ d.owner[r] = None /\ n.owner[r] # None
     /\ \/ n.box[r].state \in Settled \cup {"absent"}
        \/ n.box[r].state = "queued" /\ n.box[r].attempts = 0
  \/ /\ d.owner[r] # None /\ n.owner[r] = d.owner[r]
     /\ \/ d.box[r].state = "queued" /\ n.box[r].state \in Settled \cup {"absent"}
        \/ d.box[r].state \in Settled /\ n.box[r].state \in {d.box[r].state, "absent"}

RowsMove(d, n) == \A r \in Revs : RowMove(d, n, r)

Kept(d, n) == n \in Database /\ DatabaseInv(n) /\ RowsMove(d, n)

\* The fields of a database have the types of Database.
LEMMA Parts ==
  ASSUME NEW d \in Database
  PROVE  /\ d.ep \in [EpIds -> Episode] /\ d.box \in [Revs -> Row]
         /\ d.owner \in [Revs -> EpIds \cup {None}]
         /\ d.enabled \in BOOLEAN /\ d.setrev \in Nat /\ d.limited \in BOOLEAN
         /\ d.nextEp \in 1..(MaxEp + 1) /\ d.nextRev \in 1..(MaxRev + 1)
         /\ d.relieved \in SUBSET EpIds
         /\ \A e \in EpIds : d.ep[e].intent \in Intent
BY DEF Database, Episode

\* The empty intent and the empty row are well typed.
LEMMA IntentsType == NoIntent \in Intent /\ NoRow \in Row
BY BoundsAssumption DEF NoIntent, NoRow, Intent, Row, Revs, EpIds, Ages, Active, Settled

\* The least of a set of episodes is one of them.
LEMMA FirstIsIn ==
  ASSUME NEW S \in SUBSET EpIds, S # {}
  PROVE  First(S) \in S
<1>1. S \subseteq Nat
  BY BoundsAssumption DEF EpIds
<1>2. \E R : /\ IsWellFoundedOn(R, Nat)
             /\ R = {ss \in Nat \X Nat : ss[1] < ss[2]}
  <2>1. OpToRel(<, Nat) = {ss \in Nat \X Nat : ss[1] < ss[2]}
    BY DEF OpToRel
  <2> QED
    BY <2>1, NatLessThanWellFounded, Zenon
<1>3. PICK R : /\ IsWellFoundedOn(R, Nat)
               /\ R = {ss \in Nat \X Nat : ss[1] < ss[2]}
  BY <1>2
<1>4. PICK e \in S : \A f \in S : ~(<<f, e>> \in R)
  BY <1>1, <1>3, WFMin, Zenon
<1>5. ASSUME NEW f \in S PROVE e <= f
  <2>1. e \in Nat /\ f \in Nat
    BY <1>1
  <2>2. ~(f < e)
    <3>1. f < e => <<f, e>> \in R
      BY <2>1, <1>3
    <3> QED
      BY <3>1, <1>4
  <2> QED
    BY <2>1, <2>2
<1> QED
  BY <1>5 DEF First

\* Deferring an admission (notifications.rs, admit) preserves the database invariant.
LEMMA DeferKeeps ==
  ASSUME NEW d \in Database, DatabaseInv(d), NEW e \in EpIds,
         d.ep[e].status = "open", ~d.ep[e].ack, d.ep[e].corr = None,
         d.owner[d.ep[e].rev] = None
  PROVE  Kept(d, Defer(d, e, d.ep[e].rev))
<1> DEFINE n == Defer(d, e, d.ep[e].rev)
           i == [state |-> IF d.enabled THEN "pending" ELSE "suppressed",
                 rev |-> d.ep[e].rev, setrev |-> d.setrev, age |-> 0]
<1>1. i \in Intent
  BY Parts, BoundsAssumption DEF Intent, Episode, Ages
<1>2. [d.ep[e] EXCEPT !.intent = i] \in Episode
  BY <1>1, Parts DEF Episode
<1>3. /\ n.ep = [d.ep EXCEPT ![e] = [d.ep[e] EXCEPT !.intent = i]]
      /\ n.box = d.box /\ n.owner = d.owner /\ n.enabled = d.enabled /\ n.setrev = d.setrev
      /\ n.nextEp = d.nextEp /\ n.nextRev = d.nextRev
  BY DEF Defer, Database
<1>4. n \in Database
  BY <1>2, Parts DEF Defer, Database
<1>5. DatabaseInv(n)
  <2>1. \A f \in EpIds : /\ n.ep[f].rev = d.ep[f].rev /\ n.ep[f].status = d.ep[f].status
                         /\ n.ep[f].corr = d.ep[f].corr /\ n.ep[f].tp = d.ep[f].tp
                         /\ n.ep[f].ack = d.ep[f].ack /\ n.ep[f].key = d.ep[f].key
                         /\ f # e => n.ep[f] = d.ep[f]
    BY <1>3, Parts DEF Episode
  <2>2. n.ep[e].intent = i
    BY <1>3, Parts DEF Episode
  <2>3. Fresh(n)
    BY <1>3, <2>1 DEF Fresh, DatabaseInv
  <2>4. OwnRevisions(n) /\ RowsAreOwned(n) /\ MutedIsUnannounced(n)
    <3>1. OwnRevisions(n)
      BY <1>3, <2>1 DEF OwnRevisions, DatabaseInv
    <3>2. RowsAreOwned(n)
      BY <1>3 DEF RowsAreOwned, DatabaseInv
    <3>3. MutedIsUnannounced(n)
      BY <1>3, <2>1 DEF MutedIsUnannounced, DatabaseInv
    <3> QED
      BY <3>1, <3>2, <3>3
  <2>5. ASSUME NEW f \in EpIds PROVE IntentIsCurrent(n, f)
    BY <1>3, <2>1, <2>2 DEF IntentIsCurrent, DatabaseInv
  <2> QED
    BY <2>3, <2>4, <2>5 DEF DatabaseInv
<1> QED
  BY <1>3, <1>4, <1>5 DEF Kept, RowsMove, RowMove

\* Inserting a row, with the eviction of a settled one, preserves the database invariant.
LEMMA InsertKeeps ==
  ASSUME NEW d \in Database, DatabaseInv(d), NEW e \in EpIds,
         d.ep[e].status = "open", d.ep[e].corr = None, d.owner[d.ep[e].rev] = None
  PROVE  Kept(d, Insert(d, e, d.ep[e].rev))
<1> DEFINE rev == d.ep[e].rev
           n == Insert(d, e, rev)
           out == IF Full(d) THEN Oldest(d, 1) ELSE {}
<1>1. rev \in Revs /\ None \notin EpIds
  <2>1. d.ep[e] \in Episode
    BY Parts
  <2> QED
    BY <2>1, BoundsAssumption, KeysAssumption DEF Episode, EpIds
<1>2. NewRow(d, e, 0) \in Row
  <2>1. d.setrev \in Nat
    BY Parts
  <2>2. 0 \in Ages /\ 0 \in 0..RetryLimit
    BY BoundsAssumption DEF Ages
  <2> QED
    BY <2>1, <2>2 DEF NewRow, NoRow, Row, Active, Settled
<1>3. \A r \in out : r \in Revs /\ d.box[r].state \in Settled
  BY DEF Oldest, Evictable
<1>4. /\ n.box = [r \in Revs |-> IF r = rev THEN NewRow(d, e, 0)
                                 ELSE IF r \in out THEN NoRow ELSE d.box[r]]
      /\ n.ep = [d.ep EXCEPT ![e] = [d.ep[e] EXCEPT !.intent = NoIntent]]
      /\ n.owner = [d.owner EXCEPT ![rev] = e]
      /\ n.enabled = d.enabled /\ n.setrev = d.setrev
      /\ n.nextEp = d.nextEp /\ n.nextRev = d.nextRev
  BY DEF Insert, Database
<1>5. n \in Database
  <2>1. [d.ep[e] EXCEPT !.intent = NoIntent] \in Episode
    BY IntentsType, Parts DEF Episode
  <2>2. n.box \in [Revs -> Row]
    BY <1>2, <1>4, IntentsType, Parts
  <2> QED
    BY <1>1, <1>4, <2>1, <2>2, Parts DEF Insert, Database
<1>6. DatabaseInv(n)
  <2>1. \A f \in EpIds : /\ n.ep[f].rev = d.ep[f].rev /\ n.ep[f].status = d.ep[f].status
                         /\ n.ep[f].corr = d.ep[f].corr /\ n.ep[f].tp = d.ep[f].tp
                         /\ n.ep[f].ack = d.ep[f].ack /\ n.ep[f].key = d.ep[f].key
                         /\ f # e => n.ep[f] = d.ep[f]
    BY <1>4, Parts DEF Episode
  <2>2. n.ep[e].intent.state = "none"
    BY <1>4, Parts DEF Episode, NoIntent
  <2>3. \A r \in Revs : r # rev => n.owner[r] = d.owner[r]
    BY <1>1, <1>4, Parts
  <2>4. e < d.nextEp /\ rev < d.nextRev
    BY Parts, BoundsAssumption DEF Fresh, DatabaseInv, EpIds
  <2>5. Fresh(n)
    BY SMTT(30), <1>1, <1>4, <2>1, <2>2, <2>3, <2>4, Parts DEF Fresh, DatabaseInv, Revs
  <2>6. \A f \in EpIds : f # e /\ f < d.nextEp => n.ep[f].rev # rev
    BY <2>1, <2>4 DEF OwnRevisions, DatabaseInv
  <2>7. OwnRevisions(n)
    BY <1>4, <2>1 DEF OwnRevisions, DatabaseInv
  <2>8. RowsAreOwned(n)
    BY <1>1, <1>4, Parts DEF RowsAreOwned, DatabaseInv, NoRow
  <2>9. \A f \in EpIds : f >= d.nextEp => d.ep[f].corr = None /\ d.ep[f].tp = None
    BY DEF Fresh, DatabaseInv
  <2>10. \A f \in EpIds : f >= d.nextEp \/ f < d.nextEp
    BY Parts, BoundsAssumption DEF EpIds
  <2>11. \A f \in EpIds : d.ep[f].rev \in Revs
    BY Parts DEF Episode
  <2>12. MutedIsUnannounced(n)
    <3> SUFFICES ASSUME NEW f \in EpIds
                 PROVE  /\ n.ep[f].tp # None => n.ep[f].corr # None /\ n.ep[f].key \in Presence
                        /\ n.ep[f].corr # None => n.owner[n.ep[f].rev] = None
      BY DEF MutedIsUnannounced
    <3>1. /\ d.ep[f].tp # None => d.ep[f].corr # None /\ d.ep[f].key \in Presence
          /\ d.ep[f].corr # None => d.owner[d.ep[f].rev] = None
      BY DEF MutedIsUnannounced, DatabaseInv
    <3> QED
      BY <2>1, <2>3, <2>6, <2>9, <2>10, <2>11, <3>1
  <2>13. ASSUME NEW f \in EpIds PROVE IntentIsCurrent(n, f)
    <3>1. f # e /\ d.ep[f].intent.state = "pending" => n.owner[n.ep[f].rev] = d.owner[d.ep[f].rev]
      BY <2>1, <2>3, <2>6, <2>10, <2>11 DEF Fresh, DatabaseInv
    <3> QED
      BY <1>4, <2>1, <2>2, <3>1 DEF IntentIsCurrent, DatabaseInv
  <2> QED
    BY <2>5, <2>7, <2>8, <2>12, <2>13 DEF DatabaseInv
<1>7. ASSUME NEW r \in Revs PROVE RowMove(d, n, r)
  <2>1. CASE r = rev
    <3>1. n.owner[r] = e /\ n.box[r] = NewRow(d, e, 0)
      BY <1>1, <1>4, <2>1, Parts
    <3>2. NewRow(d, e, 0).state \in {"queued", "suppressed"}
          /\ NewRow(d, e, 0).attempts = 0
      BY DEF NewRow, NoRow
    <3> QED
      BY <1>1, <2>1, <3>1, <3>2 DEF RowMove, Settled
  <2>2. CASE r # rev /\ r \in out
    <3>1. n.owner[r] = d.owner[r] /\ n.box[r].state = "absent"
      BY <1>1, <1>4, <2>2, Parts DEF NoRow
    <3> QED
      BY <1>3, <2>2, <3>1 DEF RowMove, RowsAreOwned, DatabaseInv, Settled
  <2>3. CASE r # rev /\ r \notin out
    BY <1>1, <1>4, <2>3, Parts DEF RowMove
  <2> QED
    BY <2>1, <2>2, <2>3
<1> QED
  BY <1>5, <1>6, <1>7 DEF Kept, RowsMove

\* admit preserves the database invariant and moves rows only as RowMove allows.
LEMMA AdmitKeeps ==
  ASSUME NEW d \in Database, DatabaseInv(d), NEW e \in EpIds,
         d.ep[e].status = "open", ~d.ep[e].ack, d.ep[e].corr = None,
         d.owner[d.ep[e].rev] = None
  PROVE  Kept(d, Admit(d, e, d.ep[e].rev))
<1>1. d.box[d.ep[e].rev].state = "absent"
  BY Parts DEF RowsAreOwned, DatabaseInv, Episode
<1> QED
  BY <1>1, DeferKeeps, InsertKeeps DEF Admit

\* The invariant without the intents of the episodes S.
InvBut(d, S) ==
  /\ Fresh(d) /\ OwnRevisions(d) /\ RowsAreOwned(d) /\ MutedIsUnannounced(d)
  /\ \A e \in EpIds \ S : IntentIsCurrent(d, e)

\* cancel_intent preserves the database invariant.
LEMMA CancelIntentKeeps ==
  ASSUME NEW d \in Database, NEW S, InvBut(d, S)
  PROVE  /\ CancelIntent(d, S) \in Database /\ DatabaseInv(CancelIntent(d, S))
         /\ CancelIntent(d, S).box = d.box /\ CancelIntent(d, S).owner = d.owner
         /\ \A e \in S \cap EpIds : CancelIntent(d, S).ep[e].intent.state # "pending"
         /\ \A e \in EpIds :
              LET x == CancelIntent(d, S).ep[e]
              IN /\ x.key = d.ep[e].key /\ x.status = d.ep[e].status /\ x.ack = d.ep[e].ack
                 /\ x.rev = d.ep[e].rev /\ x.corr = d.ep[e].corr
<1> DEFINE n == CancelIntent(d, S)
           cancelled(e) == [d.ep[e] EXCEPT !.intent.state = "suppressed"]
           ep == [e \in EpIds |-> IF e \in S /\ d.ep[e].intent.state = "pending"
                                  THEN cancelled(e) ELSE d.ep[e]]
<1>1. ASSUME NEW e \in EpIds
      PROVE  /\ cancelled(e) \in Episode
             /\ cancelled(e) = [d.ep[e] EXCEPT !.intent = [d.ep[e].intent EXCEPT !.state = "suppressed"]]
             /\ cancelled(e).intent.state = "suppressed"
  <2>1. d.ep[e] \in Episode /\ d.ep[e].intent \in Intent
    BY Parts
  <2>2. [d.ep[e].intent EXCEPT !.state = "suppressed"] \in Intent
    BY <2>1 DEF Intent
  <2> QED
    BY <2>1, <2>2 DEF Episode, Intent
<1>2. ep \in [EpIds -> Episode]
  BY <1>1, Parts
<1>3. /\ n.ep = ep /\ n.box = d.box /\ n.owner = d.owner
      /\ n.enabled = d.enabled /\ n.setrev = d.setrev
      /\ n.nextEp = d.nextEp /\ n.nextRev = d.nextRev
  BY DEF CancelIntent, Database
<1>4. n \in Database
  BY <1>2 DEF CancelIntent, Database
<1>5. \A e \in EpIds : /\ ep[e].rev = d.ep[e].rev /\ ep[e].status = d.ep[e].status
                       /\ ep[e].corr = d.ep[e].corr /\ ep[e].tp = d.ep[e].tp
                       /\ ep[e].ack = d.ep[e].ack /\ ep[e].key = d.ep[e].key
                       /\ e \notin S => ep[e] = d.ep[e]
  BY <1>1, Parts DEF Episode
<1>6. \A e \in EpIds : /\ e \in S => ep[e].intent.state # "pending"
                       /\ d.ep[e].intent.state = "none" => ep[e].intent.state = "none"
  BY <1>1
<1>7. Fresh(n) /\ OwnRevisions(n) /\ RowsAreOwned(n) /\ MutedIsUnannounced(n)
  BY <1>3, <1>5, <1>6 DEF InvBut, Fresh, OwnRevisions, RowsAreOwned, MutedIsUnannounced
<1>8. ASSUME NEW e \in EpIds PROVE IntentIsCurrent(n, e)
  BY <1>3, <1>5, <1>6 DEF InvBut, IntentIsCurrent
<1> QED
  BY <1>3, <1>4, <1>5, <1>6, <1>7, <1>8 DEF DatabaseInv

\* Suppressing the queued rows of some episodes preserves the database invariant.
LEMMA SuppressQueuedKeeps ==
  ASSUME NEW d \in Database, DatabaseInv(d), NEW S
  PROVE  /\ Kept(d, SuppressQueued(d, S))
         /\ \E box \in [Revs -> Row] : SuppressQueued(d, S) = [d EXCEPT !.box = box]
<1> DEFINE n == SuppressQueued(d, S)
           box == [r \in Revs |-> IF d.box[r].ep \in S /\ d.box[r].state = "queued"
                                  THEN [d.box[r] EXCEPT !.state = "suppressed"]
                                  ELSE d.box[r]]
<1>1. box \in [Revs -> Row]
  BY Parts DEF Row, Settled
<1>2. n = [d EXCEPT !.box = box]
  BY DEF SuppressQueued
<1> HIDE DEF n
<1>3. /\ n.box = box /\ n.ep = d.ep /\ n.owner = d.owner
      /\ n.enabled = d.enabled /\ n.setrev = d.setrev
      /\ n.nextEp = d.nextEp /\ n.nextRev = d.nextRev
  BY <1>2 DEF Database
<1>4. n \in Database
  BY <1>1, <1>2 DEF Database
<1>5. \A r \in Revs : \/ box[r] = d.box[r]
                      \/ d.box[r].state = "queued" /\ box[r].state = "suppressed"
  BY Parts DEF Row
<1>6. \A r \in Revs : d.box[r].state = "queued" => d.owner[r] # None
  BY DEF RowsAreOwned, DatabaseInv
<1>7. DatabaseInv(n)
  BY <1>3, <1>5, <1>6 DEF DatabaseInv, Fresh, OwnRevisions, RowsAreOwned,
                          MutedIsUnannounced, IntentIsCurrent
<1>8. RowsMove(d, n)
  BY <1>3, <1>5, <1>6 DEF RowsMove, RowMove, Settled
<1> QED
  BY <1>1, <1>2, <1>4, <1>7, <1>8 DEF Kept, n

\* What two handlers keep in turn, their composition keeps.
LEMMA KeptTransitive ==
  ASSUME NEW d \in Database, NEW m \in Database, NEW n \in Database,
         DatabaseInv(d), Kept(d, m), Kept(m, n)
  PROVE  Kept(d, n)
<1>1. ASSUME NEW r \in Revs PROVE RowMove(d, n, r)
  <2>1. RowMove(d, m, r) /\ RowMove(m, n, r)
    BY DEF Kept, RowsMove
  <2>2. d.owner[r] = None => d.box[r].state = "absent"
    BY DEF DatabaseInv, RowsAreOwned
  <2> QED
    BY <2>1, <2>2 DEF RowMove, Settled
<1> QED
  BY <1>1 DEF Kept, RowsMove

\* retry_pending preserves the database invariant: it admits only unowned revisions.
LEMMA RetryPendingKeeps ==
  ASSUME NEW d \in Database, DatabaseInv(d)
  PROVE  Kept(d, RetryPending(d))
<1> DEFINE n == RetryPending(d)
           admitted == Admissible(d) \cap Reached(d)
           rowOf(r) == {e \in admitted : d.ep[e].intent.rev = r}
           the(r) == CHOOSE x \in rowOf(r) : TRUE
           new(r) == NewRow(d, the(r), d.ep[the(r)].intent.age)
           evicted == Oldest(d, Cardinality(Rows(d)) + Cardinality(admitted) - MAX_OUTBOX)
           marked(e, s) == [d.ep[e] EXCEPT !.intent.state = s]
           done(e) == [d.ep[e] EXCEPT !.intent = NoIntent]
           ep == [e \in EpIds |->
                    IF e \notin Reached(d) THEN d.ep[e]
                    ELSE IF Withdrawn(d, e) THEN marked(e, "suppressed")
                    ELSE IF ExpiredIntent(d, e) THEN marked(e, "failed")
                    ELSE done(e)]
           box == [r \in Revs |-> IF rowOf(r) # {} THEN new(r)
                                  ELSE IF r \in evicted THEN NoRow ELSE d.box[r]]
           owner == [r \in Revs |-> IF rowOf(r) # {} THEN the(r) ELSE d.owner[r]]
<1>1. ASSUME NEW e \in admitted
      PROVE  /\ e \in EpIds /\ d.ep[e].intent.state = "pending"
             /\ d.ep[e].intent.rev = d.ep[e].rev /\ d.owner[d.ep[e].rev] = None
             /\ ep[e] = done(e)
  <2>1. /\ e \in EpIds /\ d.ep[e].intent.state = "pending"
        /\ ~Withdrawn(d, e) /\ ~ExpiredIntent(d, e) /\ e \in Reached(d)
    BY DEF Admissible, Wanting, PendingIntents
  <2> QED
    BY <2>1 DEF DatabaseInv, IntentIsCurrent
<1>2. \A r \in Revs : rowOf(r) # {} => the(r) \in admitted /\ d.ep[the(r)].intent.rev = r
  OBVIOUS
<1>3. ASSUME NEW e \in EpIds
      PROVE  /\ marked(e, "suppressed") \in Episode /\ marked(e, "failed") \in Episode
             /\ done(e) \in Episode
             /\ \A s \in {"suppressed", "failed"} :
                  marked(e, s) = [d.ep[e] EXCEPT !.intent = [d.ep[e].intent EXCEPT !.state = s]]
             /\ marked(e, "suppressed").intent.state = "suppressed"
             /\ marked(e, "failed").intent.state = "failed"
             /\ done(e).intent.state = "none"
  <2>1. d.ep[e] \in Episode /\ d.ep[e].intent \in Intent
    BY Parts
  <2>2. \A s \in {"suppressed", "failed"} : [d.ep[e].intent EXCEPT !.state = s] \in Intent
    BY <2>1 DEF Intent
  <2> QED
    BY <2>1, <2>2, IntentsType DEF Episode, Intent, NoIntent
<1>4. ep \in [EpIds -> Episode]
  BY <1>3, Parts
<1>5. ASSUME NEW r \in Revs, rowOf(r) # {}
      PROVE  /\ new(r) \in Row /\ new(r).attempts = 0
             /\ new(r).state \in {"queued", "suppressed"}
             /\ d.owner[r] = None /\ the(r) \in EpIds
  <2>1. the(r) \in admitted /\ d.ep[the(r)].intent.rev = r
    BY <1>2, <1>5
  <2>2. the(r) \in EpIds /\ d.owner[r] = None
    BY <1>1, <2>1
  <2>3. d.setrev \in Nat /\ d.ep[the(r)].intent.age \in Ages /\ 0 \in 0..RetryLimit
    <3>1. d.ep[the(r)].intent \in Intent /\ d.setrev \in Nat
      BY <2>2, Parts
    <3> HIDE DEF the
    <3> QED
      BY <3>1, BoundsAssumption DEF Intent
  <2> HIDE DEF the
  <2> QED
    BY <2>2, <2>3 DEF NewRow, NoRow, Row, Active, Settled
<1>6. \A r \in evicted : r \in Revs /\ d.box[r].state \in Settled
  BY DEF Oldest, Evictable
<1> HIDE DEF rowOf, new, evicted, the
<1>7. box \in [Revs -> Row] /\ owner \in [Revs -> EpIds \cup {None}]
  BY <1>5, Parts, IntentsType
<1>8. /\ n.ep = ep /\ n.box = box /\ n.owner = owner /\ n.limited \in BOOLEAN
      /\ n.enabled = d.enabled /\ n.setrev = d.setrev
      /\ n.nextEp = d.nextEp /\ n.nextRev = d.nextRev
  BY DEF RetryPending, Database, rowOf, new, evicted, the
<1>9. n \in Database
  <2>1. n = [d EXCEPT !.ep = ep, !.box = box, !.limited = n.limited, !.owner = owner]
    BY DEF RetryPending, Database, rowOf, new, evicted, the
  <2> HIDE DEF n, ep, box, owner
  <2> QED
    BY <1>4, <1>7, <1>8, <2>1 DEF Database
<1> HIDE DEF n
<1>10. \A e \in EpIds : /\ ep[e].rev = d.ep[e].rev /\ ep[e].status = d.ep[e].status
                        /\ ep[e].corr = d.ep[e].corr /\ ep[e].tp = d.ep[e].tp
                        /\ ep[e].ack = d.ep[e].ack /\ ep[e].key = d.ep[e].key
                        /\ ep[e].intent.state \in {"pending", d.ep[e].intent.state} => ep[e] = d.ep[e]
  <2>1. ASSUME NEW e \in EpIds
        PROVE /\ ep[e].rev = d.ep[e].rev /\ ep[e].status = d.ep[e].status
              /\ ep[e].corr = d.ep[e].corr /\ ep[e].tp = d.ep[e].tp
              /\ ep[e].ack = d.ep[e].ack /\ ep[e].key = d.ep[e].key
    BY <1>3, Parts DEF Episode
  <2>2. ASSUME NEW e \in EpIds, ep[e] # d.ep[e]
        PROVE  /\ d.ep[e].intent.state = "pending"
               /\ ep[e].intent.state \in {"none", "suppressed", "failed"}
    BY <1>3, <2>2 DEF Reached, PendingIntents
  <2> QED
    BY <2>1, <2>2
<1>11. \A e \in EpIds : d.ep[e].intent.state # "pending" => ep[e] = d.ep[e]
  BY DEF Reached, PendingIntents
<1>12. \A e \in EpIds : e \in admitted => ep[e].intent.state = "none"
  BY <1>1, <1>3
<1>13. ASSUME NEW r \in Revs, rowOf(r) # {}
       PROVE  \E e \in EpIds : /\ d.ep[e].rev = r /\ d.ep[e].intent.state = "pending"
                               /\ ep[e].intent.state = "none"
  <2>1. the(r) \in admitted /\ d.ep[the(r)].intent.rev = r
    BY <1>2, <1>13
  <2>2. /\ the(r) \in EpIds /\ d.ep[the(r)].intent.state = "pending"
        /\ d.ep[the(r)].intent.rev = d.ep[the(r)].rev
    BY <1>1, <2>1
  <2>3. ep[the(r)].intent.state = "none"
    BY <1>12, <2>1, <2>2
  <2> HIDE DEF ep, admitted
  <2> QED
    BY <2>1, <2>2, <2>3
<1> HIDE DEF ep, admitted
<1>14. ASSUME NEW e \in EpIds, ep[e].intent.state = "pending" \/ d.ep[e].corr # None,
              e < d.nextEp
       PROVE  rowOf(d.ep[e].rev) = {}
  <2>1. d.ep[e].rev \in Revs
    BY Parts DEF Episode
  <2>2. SUFFICES ASSUME rowOf(d.ep[e].rev) # {} PROVE FALSE
    OBVIOUS
  <2>3. PICK f \in EpIds : /\ d.ep[f].rev = d.ep[e].rev /\ d.ep[f].intent.state = "pending"
                           /\ ep[f].intent.state = "none"
    BY <1>13, <2>1, <2>2
  <2>4. f < d.nextEp
    BY <2>3, Parts, BoundsAssumption DEF DatabaseInv, Fresh, EpIds
  <2>5. f = e
    BY <1>14, <2>3, <2>4 DEF DatabaseInv, OwnRevisions
  <2> QED
    BY <1>14, <2>3, <2>5 DEF DatabaseInv, IntentIsCurrent
<1>15. Fresh(n)
  <2>1. ASSUME NEW e \in EpIds, e >= d.nextEp
        PROVE  ep[e] = d.ep[e]
    BY <1>11, <2>1 DEF DatabaseInv, Fresh
  <2>2. ASSUME NEW r \in Revs, r >= d.nextRev PROVE rowOf(r) = {}
    <3>1. SUFFICES ASSUME rowOf(r) # {} PROVE FALSE
      OBVIOUS
    <3>2. PICK e \in EpIds : d.ep[e].rev = r /\ d.ep[e].intent.state = "pending"
      BY <1>13, <3>1
    <3>3. e < d.nextEp
      BY <3>2, Parts, BoundsAssumption DEF DatabaseInv, Fresh, EpIds
    <3>4. d.ep[e].rev < d.nextRev
      BY <3>3 DEF DatabaseInv, Fresh
    <3> QED
      BY <2>2, <3>2, <3>4, Parts, BoundsAssumption DEF Revs
  <2> QED
    BY <1>8, <1>10, <2>1, <2>2 DEF DatabaseInv, Fresh
<1>16. OwnRevisions(n)
  BY <1>8, <1>10 DEF DatabaseInv, OwnRevisions
<1>17. RowsAreOwned(n)
  <2>1. None \notin EpIds
    BY BoundsAssumption, KeysAssumption DEF EpIds
  <2> QED
    BY <1>5, <1>6, <1>8, <2>1 DEF DatabaseInv, RowsAreOwned, NoRow
<1>18. \A e \in EpIds : d.ep[e].rev \in Revs
  BY Parts DEF Episode
<1>19. \A e \in EpIds : e < d.nextEp \/ e >= d.nextEp
  BY Parts, BoundsAssumption DEF EpIds
<1>20. MutedIsUnannounced(n)
  <2>1. ASSUME NEW e \in EpIds, d.ep[e].corr # None
        PROVE  owner[d.ep[e].rev] = None
    <3>1. e < d.nextEp
      BY <1>19, <2>1 DEF DatabaseInv, Fresh
    <3> QED
      BY <1>14, <1>18, <2>1, <3>1 DEF DatabaseInv, MutedIsUnannounced
  <2> QED
    BY <1>8, <1>10, <2>1 DEF DatabaseInv, MutedIsUnannounced
<1>21. ASSUME NEW e \in EpIds PROVE IntentIsCurrent(n, e)
  <2>1. SUFFICES ASSUME ep[e].intent.state = "pending" PROVE IntentIsCurrent(n, e)
    BY <1>8 DEF IntentIsCurrent
  <2>2. ep[e] = d.ep[e]
    BY <1>10, <2>1
  <2>3. e < d.nextEp
    BY <1>19, <2>1, <2>2 DEF DatabaseInv, Fresh
  <2>4. owner[d.ep[e].rev] = d.owner[d.ep[e].rev]
    BY <1>14, <1>18, <2>1, <2>3
  <2> QED
    BY <1>8, <2>2, <2>4 DEF DatabaseInv, IntentIsCurrent
<1>22. ASSUME NEW r \in Revs PROVE RowMove(d, n, r)
  <2>1. None \notin EpIds
    BY BoundsAssumption, KeysAssumption DEF EpIds
  <2>2. CASE rowOf(r) # {}
    BY <1>5, <1>8, <2>1, <2>2 DEF RowMove, Settled
  <2>3. CASE rowOf(r) = {} /\ r \in evicted
    BY <1>6, <1>8, <2>3 DEF RowMove, RowsAreOwned, DatabaseInv, NoRow, Settled
  <2>4. CASE rowOf(r) = {} /\ r \notin evicted
    BY <1>8, <2>4 DEF RowMove
  <2> QED
    BY <2>2, <2>3, <2>4
<1> QED
  BY <1>9, <1>15, <1>16, <1>17, <1>20, <1>21, <1>22 DEF Kept, DatabaseInv, RowsMove, n

\* A transition gives e a fresh revision, and opens it if it is the next episode.
LEMMA StampKeeps ==
  ASSUME NEW d \in Database, DatabaseInv(d), NEW e \in EpIds, NEW x \in Episode,
         e <= d.nextEp, d.nextRev \in Revs,
         x.rev = d.nextRev, x.status # "unused",
         x.tp # None => x.corr # None /\ x.key \in Presence,
         NEW n \in Database,
         n.ep = [d.ep EXCEPT ![e] = x], n.box = d.box, n.owner = d.owner,
         n.enabled = d.enabled, n.setrev = d.setrev, n.nextRev = d.nextRev + 1,
         n.nextEp = IF e = d.nextEp THEN d.nextEp + 1 ELSE d.nextEp
  PROVE  InvBut(n, {e})
<1>1. /\ d.nextEp \in Nat /\ d.nextRev \in Nat /\ EpIds \subseteq Nat /\ Revs \subseteq Nat
      /\ \A f \in EpIds : d.ep[f].rev \in Revs
  <2>1. \A f \in EpIds : d.ep[f].rev \in Revs
    BY Parts DEF Episode
  <2> QED
    BY <2>1, Parts, BoundsAssumption DEF EpIds, Revs
<1>2. n.ep[e] = x /\ \A f \in EpIds : f # e => n.ep[f] = d.ep[f]
  BY Parts
<1>3. Fresh(n)
  <2>1. \A f \in EpIds : f # e => (f >= n.nextEp <=> f >= d.nextEp)
    BY <1>1
  <2>2. e < n.nextEp
    BY <1>1
  <2>3. \A f \in EpIds : n.ep[f].status = "unused" <=> f >= n.nextEp
    BY <1>1, <1>2, <2>1, <2>2 DEF DatabaseInv, Fresh
  <2>4. \A f \in EpIds : f >= n.nextEp =>
          n.ep[f].intent.state = "none" /\ n.ep[f].corr = None /\ n.ep[f].tp = None
    BY <1>1, <1>2, <2>1, <2>2 DEF DatabaseInv, Fresh
  <2>5. \A f \in EpIds : f < n.nextEp => n.ep[f].rev < n.nextRev
    <3>1. ASSUME NEW f \in EpIds, f < n.nextEp, f # e PROVE n.ep[f].rev < n.nextRev
      <4>1. f < d.nextEp
        BY <1>1, <3>1
      <4>2. d.ep[f].rev < d.nextRev
        BY <4>1 DEF DatabaseInv, Fresh
      <4>3. n.ep[f].rev = d.ep[f].rev /\ d.ep[f].rev \in Nat
        BY <1>1, <1>2, <3>1
      <4> QED
        BY <1>1, <4>2, <4>3
    <3> QED
      BY <1>1, <1>2, <3>1
  <2>6. \A r \in Revs : r >= n.nextRev => n.owner[r] = None
    BY <1>1 DEF DatabaseInv, Fresh
  <2> QED
    BY <2>3, <2>4, <2>5, <2>6 DEF Fresh
<1>4. \A f \in EpIds : f # e /\ f < n.nextEp => d.ep[f].rev < d.nextRev
  BY <1>1 DEF DatabaseInv, Fresh
<1>5. OwnRevisions(n)
  <2>1. ASSUME NEW f \in EpIds, NEW g \in EpIds, f < n.nextEp, g < n.nextEp, f # g
        PROVE  n.ep[f].rev # n.ep[g].rev
    <3>1. CASE f = e
      BY <1>1, <1>2, <1>4, <2>1, <3>1
    <3>2. CASE g = e
      BY <1>1, <1>2, <1>4, <2>1, <3>2
    <3>3. CASE f # e /\ g # e
      <4>1. f < d.nextEp /\ g < d.nextEp
        BY <1>1, <2>1, <3>3
      <4>2. d.ep[f].rev # d.ep[g].rev
        BY <2>1, <4>1 DEF DatabaseInv, OwnRevisions
      <4> QED
        BY <1>2, <3>3, <4>2
    <3> QED
      BY <3>1, <3>2, <3>3
  <2> QED
    BY <2>1 DEF OwnRevisions
<1>6. d.owner[d.nextRev] = None
  BY <1>1 DEF DatabaseInv, Fresh
<1>7. RowsAreOwned(n) /\ MutedIsUnannounced(n)
  BY <1>2, <1>6 DEF DatabaseInv, RowsAreOwned, MutedIsUnannounced
<1>8. \A f \in EpIds \ {e} : IntentIsCurrent(n, f)
  BY <1>2 DEF DatabaseInv, IntentIsCurrent
<1> QED
  BY <1>3, <1>5, <1>7, <1>8 DEF InvBut

\* A refresh of e keeps its revision and its intent.
LEMMA TouchKeeps ==
  ASSUME NEW d \in Database, DatabaseInv(d), NEW e \in EpIds, NEW x \in Episode,
         x.rev = d.ep[e].rev, x.status = d.ep[e].status, x.ack = d.ep[e].ack,
         x.intent = d.ep[e].intent, x.corr \in {d.ep[e].corr, None},
         x.tp # None => x.corr # None /\ x.key \in Presence,
         d.ep[e].status # "unused",
         NEW R \in SUBSET EpIds, NEW n,
         n \in {[d EXCEPT !.ep[e] = x], [d EXCEPT !.ep[e] = x, !.relieved = R]}
  PROVE  Kept(d, n)
<1>1. n \in Database
  <2>1. [d.ep EXCEPT ![e] = x] \in [EpIds -> Episode] /\ d.relieved \in SUBSET EpIds
    BY Parts
  <2> QED
    BY <2>1 DEF Database
<1>2. /\ n.box = d.box /\ n.owner = d.owner
      /\ n.enabled = d.enabled /\ n.setrev = d.setrev
      /\ n.nextEp = d.nextEp /\ n.nextRev = d.nextRev
      /\ n.ep[e] = x /\ \A f \in EpIds : f # e => n.ep[f] = d.ep[f]
  BY Parts DEF Database
<1>3. Fresh(n) /\ OwnRevisions(n) /\ RowsAreOwned(n) /\ MutedIsUnannounced(n)
  BY <1>2 DEF DatabaseInv, Fresh, OwnRevisions, RowsAreOwned, MutedIsUnannounced
<1>4. \A f \in EpIds : IntentIsCurrent(n, f)
  BY <1>2 DEF DatabaseInv, IntentIsCurrent
<1> QED
  BY <1>1, <1>2, <1>3, <1>4 DEF Kept, DatabaseInv, RowsMove, RowMove

\* A follower is an open episode without a row of its own.
LEMMA FollowersAre ==
  ASSUME NEW d \in Database, DatabaseInv(d), NEW e \in EpIds, Followers(d, e) # {}
  PROVE  LET f == First(Followers(d, e))
         IN /\ f \in EpIds /\ d.ep[f].status = "open" /\ ~d.ep[f].ack /\ d.ep[f].corr = e
            /\ d.owner[d.ep[f].rev] = None /\ e # None
<1>1. First(Followers(d, e)) \in Followers(d, e)
  BY FirstIsIn DEF Followers
<1>2. e # None
  BY BoundsAssumption, KeysAssumption DEF EpIds
<1> QED
  BY <1>1, <1>2 DEF Followers, DatabaseInv, MutedIsUnannounced

\* The hand-over of a notification to a follower (observe_condition) keeps the invariant.
LEMMA HandOverKeeps ==
  ASSUME NEW d \in Database, DatabaseInv(d), NEW e \in EpIds
  PROVE  Kept(d, HandOver(d, e))
<1> DEFINE f == First(Followers(d, e))
           x == [d.ep[f] EXCEPT !.corr = None, !.from = e]
           y == [d.ep[f] EXCEPT !.tp = TransferOf(d, e, f)]
           R == d.relieved \cup {e}
           taken == [d EXCEPT !.ep[f] = x, !.relieved = R]
           handed == [d EXCEPT !.ep[f] = y, !.relieved = R]
<1>1. CASE Followers(d, e) = {}
  BY <1>1 DEF HandOver, Kept, RowsMove, RowMove
<1>2. CASE Followers(d, e) # {}
  <2>1. /\ f \in EpIds /\ d.ep[f].status = "open" /\ ~d.ep[f].ack /\ d.ep[f].corr = e
        /\ d.owner[d.ep[f].rev] = None /\ e # None
    BY <1>2, FollowersAre
  <2>2. HandOver(d, e) = IF d.ep[f].key \in Presence THEN handed
                         ELSE Admit(taken, f, d.ep[f].rev)
    BY <1>2 DEF HandOver
  <2>5. R \in SUBSET EpIds
    BY Parts
  <2> HIDE DEF f, R
  <2>3. d.ep[f] \in Episode /\ d.ep[f].intent \in Intent
    BY <2>1, Parts
  <2>4. TransferOf(d, e, f) \in Transfer
    BY <2>3, Parts, BoundsAssumption DEF TransferOf, Transfer, Episode, Ages
  <2>6. x \in Episode /\ y \in Episode
    BY <2>3, <2>4 DEF Episode
  <2>7. d.ep[f].tp # None => d.ep[f].key \in Presence
    BY <2>1 DEF DatabaseInv, MutedIsUnannounced
  <2>8. CASE d.ep[f].key \in Presence
    <3>1. y.rev = d.ep[f].rev /\ y.status = d.ep[f].status /\ y.ack = d.ep[f].ack
          /\ y.intent = d.ep[f].intent /\ y.corr = d.ep[f].corr /\ y.key = d.ep[f].key
      BY <2>3 DEF Episode
    <3>2. Kept(d, handed)
      BY <2>1, <2>5, <2>6, <2>8, <3>1, TouchKeeps
    <3> QED
      BY <2>2, <2>8, <3>2
  <2>9. CASE d.ep[f].key \notin Presence
    <3>1. /\ x.rev = d.ep[f].rev /\ x.status = d.ep[f].status /\ x.ack = d.ep[f].ack
          /\ x.intent = d.ep[f].intent /\ x.corr = None /\ x.tp = None
      BY <2>3, <2>7, <2>9 DEF Episode
    <3>2. Kept(d, taken)
      BY <2>1, <2>5, <2>6, <3>1, TouchKeeps
    <3>3. taken.ep[f] = x /\ taken.owner = d.owner
      BY <2>1, Parts DEF Database
    <3>4. Kept(taken, Admit(taken, f, taken.ep[f].rev))
      BY <2>1, <3>1, <3>2, <3>3, AdmitKeeps DEF Kept
    <3>5. Kept(d, Admit(taken, f, d.ep[f].rev))
      BY <3>1, <3>2, <3>3, <3>4, KeptTransitive DEF Kept
    <3> QED
      BY <2>2, <2>9, <3>5
  <2> QED
    BY <2>8, <2>9
<1> QED
  BY <1>1, <1>2

\* Only observations and acknowledgements allocate.
SameCounters(d, n) == n.nextEp = d.nextEp /\ n.nextRev = d.nextRev

\* Admission and withdrawal leave the fresh-identifier counters alone.
LEMMA CountersKept ==
  ASSUME NEW d \in Database
  PROVE  /\ \A S : SameCounters(d, CancelIntent(d, S)) /\ SameCounters(d, SuppressQueued(d, S))
         /\ \A e, r : SameCounters(d, Admit(d, e, r))
         /\ \A e : SameCounters(d, HandOver(d, e))
         /\ SameCounters(d, RetryPending(d))
<1>1. ASSUME NEW n \in Database, NEW e, NEW r PROVE SameCounters(n, Admit(n, e, r))
  BY DEF SameCounters, Admit, Insert, Defer, Database
<1>2. ASSUME NEW e PROVE SameCounters(d, HandOver(d, e))
  <2> DEFINE f == First(Followers(d, e))
             R == d.relieved \cup {e}
             x == [d.ep[f] EXCEPT !.corr = None, !.from = e]
             y == [d.ep[f] EXCEPT !.tp = TransferOf(d, e, f)]
             taken == [d EXCEPT !.ep[f] = x, !.relieved = R]
             handed == [d EXCEPT !.ep[f] = y, !.relieved = R]
  <2>1. \/ HandOver(d, e) = d \/ HandOver(d, e) = handed
        \/ HandOver(d, e) = Admit(taken, f, d.ep[f].rev)
    BY DEF HandOver
  <2> HIDE DEF f, R, x, y
  <2>2. SameCounters(d, handed) /\ SameCounters(d, taken)
    BY DEF SameCounters, Database
  <2>3. SameCounters(d, Admit(taken, f, d.ep[f].rev))
    BY DEF SameCounters, Admit, Insert, Defer, Database
  <2> HIDE DEF handed, taken
  <2> QED
    BY <2>1, <2>2, <2>3 DEF SameCounters
<1>3. \A S : SameCounters(d, CancelIntent(d, S)) /\ SameCounters(d, SuppressQueued(d, S))
  BY DEF SameCounters, CancelIntent, SuppressQueued, Database
<1>4. SameCounters(d, RetryPending(d))
  BY DEF SameCounters, RetryPending, Database
<1> QED
  BY <1>1, <1>2, <1>3, <1>4

Advances(d, n) == n.nextEp <= d.nextEp + 1 /\ n.nextRev <= d.nextRev + 1

\* CancelIntent after a change that left rows and owners alone.
LEMMA CancelledKept ==
  ASSUME NEW d \in Database, NEW m \in Database, NEW S, InvBut(m, S),
         m.box = d.box, m.owner = d.owner
  PROVE  Kept(d, CancelIntent(m, S))
BY CancelIntentKeeps DEF Kept, RowsMove, RowMove

\* A fresh recovery (observe_condition) keeps the database invariant.
LEMMA RecoverKeeps ==
  ASSUME NEW d \in Database, DatabaseInv(d), NEW e \in EpIds,
         d.ep[e].status = "open", d.nextRev \in Revs
  PROVE  /\ Kept(d, Recover(d, e)) /\ Advances(d, Recover(d, e))
         /\ Closed(d, e) \in Database
         /\ Kept(d, SuppressQueued(CancelIntent(Closed(d, e), {e}), {e}))
<1> DEFINE x == [d.ep[e] EXCEPT !.status = "resolved", !.rev = d.nextRev, !.ack = FALSE,
                                !.epoch = None, !.corr = None, !.tp = None, !.from = None]
           m == Closed(d, e)
           c == CancelIntent(m, {e})
           w == SuppressQueued(c, {e})
<1>1. /\ x \in Episode /\ x.rev = d.nextRev /\ x.status # "unused" /\ x.tp = None
  <2>1. d.ep[e] \in Episode
    BY Parts
  <2> QED
    BY <2>1 DEF Episode
<1>2. e <= d.nextEp
  BY Parts, BoundsAssumption DEF DatabaseInv, Fresh, EpIds
<1>3. /\ m.ep = [d.ep EXCEPT ![e] = x] /\ m.box = d.box /\ m.owner = d.owner
      /\ m.enabled = d.enabled /\ m.setrev = d.setrev /\ m.nextRev = d.nextRev + 1
      /\ m.nextEp = d.nextEp
  BY DEF Closed, Database
<1>4. m \in Database
  <2>1. [d.ep EXCEPT ![e] = x] \in [EpIds -> Episode] /\ d.nextRev + 1 \in 1..(MaxRev + 1)
    BY <1>1, Parts, BoundsAssumption DEF Revs
  <2> QED
    BY <2>1 DEF Closed, Database
<1>5. e # d.nextEp
  BY Parts, BoundsAssumption DEF DatabaseInv, Fresh, EpIds
<1> HIDE DEF m, x
<1>6. InvBut(m, {e})
  BY <1>1, <1>2, <1>3, <1>4, <1>5, StampKeeps
<1>7. Kept(d, c)
  BY <1>3, <1>4, <1>6, CancelledKept
<1> HIDE DEF c
<1>8. Kept(d, w)
  BY <1>7, SuppressQueuedKeeps, KeptTransitive DEF Kept
<1> HIDE DEF w
<1>9. Kept(d, HandOver(w, e))
  BY <1>8, HandOverKeeps, KeptTransitive DEF Kept
<1>10. SameCounters(m, c) /\ SameCounters(c, w) /\ SameCounters(w, HandOver(w, e))
  BY <1>4, <1>7, <1>8, CountersKept DEF Kept, c, w
<1>11. Recover(d, e) = IF AwaitsDelivery(d, e) THEN HandOver(w, e) ELSE w
  BY DEF Recover, w, c, m
<1>12. Advances(d, w) /\ Advances(d, HandOver(w, e))
  BY <1>3, <1>10, Parts DEF SameCounters, Advances
<1> QED
  BY <1>4, <1>8, <1>9, <1>11, <1>12 DEF w, c, m

\* Reopen, taken apart: the severity and the correlation it finds, and the episode it
\* leaves to the notification.
SevOf(d, e, c) == IF d.ep[e].status = "open" /\ ~c.fresh THEN d.ep[e].sev ELSE c.sev
RelatedTo(d, e, c) == IF c.key \in Presence \cup Removals /\ c.epoch # None
                      THEN SameDisconnect(d, e, c) ELSE {}
CorrOf(d, e, c) == IF RelatedTo(d, e, c) = {} THEN None ELSE First(RelatedTo(d, e, c))
Opened(d, e, c) ==
  [d EXCEPT !.ep[e] = [d.ep[e] EXCEPT !.key = c.key, !.status = "open", !.sev = SevOf(d, e, c),
                                      !.rev = d.nextRev, !.ack = FALSE, !.epoch = c.epoch,
                                      !.corr = CorrOf(d, e, c), !.tp = None, !.from = None],
            !.nextRev = @ + 1,
            !.nextEp = IF e = @ THEN @ + 1 ELSE @]

\* An opening or a change of severity (observe_condition) keeps the database invariant.
LEMMA ReopenKeeps ==
  ASSUME NEW d \in Database, DatabaseInv(d), NEW e \in EpIds, NEW c \in Condition,
         e <= d.nextEp, d.nextRev \in Revs
  PROVE  /\ Kept(d, Reopen(d, e, c)) /\ Advances(d, Reopen(d, e, c))
         /\ Opened(d, e, c) \in Database
         /\ LET told == CancelIntent(Opened(d, e, c), {e})
                warns == CorrOf(d, e, c) = None /\ SevOf(d, e, c) \in {"warning", "critical"}
            IN /\ Kept(d, told)
               /\ told.owner[d.nextRev] = None /\ told.ep[e].rev = d.nextRev
               /\ told.ep[e].corr = CorrOf(d, e, c)
               /\ Reopen(d, e, c) = IF warns THEN Admit(told, e, d.nextRev) ELSE told
<1> DEFINE old == d.ep[e]
           sev == SevOf(d, e, c)
           related == RelatedTo(d, e, c)
           corr == CorrOf(d, e, c)
           x == [old EXCEPT !.key = c.key, !.status = "open", !.sev = sev,
                            !.rev = d.nextRev, !.ack = FALSE, !.epoch = c.epoch,
                            !.corr = corr, !.tp = None, !.from = None]
           m == Opened(d, e, c)
           told == CancelIntent(m, {e})
<1>1. corr \in EpIds \cup {None} /\ sev \in Severities /\ old \in Episode
  <2>1. related \in SUBSET EpIds
    BY DEF RelatedTo, SameDisconnect
  <2>2. related # {} => First(related) \in EpIds
    BY <2>1, FirstIsIn
  <2>3. old \in Episode
    BY Parts
  <2> QED
    BY <2>2, <2>3 DEF SevOf, CorrOf, Episode, Condition
<1> HIDE DEF corr, sev
<1>2. /\ x \in Episode /\ x.rev = d.nextRev /\ x.status = "open" /\ x.tp = None
      /\ x.ack = FALSE /\ x.corr = corr
  BY <1>1 DEF Episode, Condition
<1>3. /\ m.ep = [d.ep EXCEPT ![e] = x] /\ m.box = d.box /\ m.owner = d.owner
      /\ m.enabled = d.enabled /\ m.setrev = d.setrev /\ m.nextRev = d.nextRev + 1
      /\ m.nextEp = IF e = d.nextEp THEN d.nextEp + 1 ELSE d.nextEp
  BY DEF Opened, Database, corr, sev
<1>4. m \in Database
  <2>1. [d.ep EXCEPT ![e] = x] \in [EpIds -> Episode] /\ d.nextRev + 1 \in 1..(MaxRev + 1)
    BY <1>2, Parts, BoundsAssumption DEF Revs
  <2>2. (IF e = d.nextEp THEN d.nextEp + 1 ELSE d.nextEp) \in 1..(MaxEp + 1)
    BY Parts, BoundsAssumption DEF EpIds
  <2> HIDE DEF x
  <2> QED
    BY <2>1, <2>2 DEF Opened, Database, x, corr, sev
<1>5. Reopen(d, e, c) = IF corr = None /\ sev \in {"warning", "critical"}
                        THEN Admit(told, e, d.nextRev) ELSE told
  BY DEF Reopen, Opened, SevOf, CorrOf, RelatedTo, corr, sev
<1> HIDE DEF m, x
<1>6. InvBut(m, {e})
  BY <1>2, <1>3, <1>4, StampKeeps
<1>7. Kept(d, told)
  BY <1>3, <1>4, <1>6, CancelledKept
<1>8. /\ told.ep[e].status = "open" /\ told.ep[e].ack = FALSE /\ told.ep[e].corr = corr
      /\ told.ep[e].rev = d.nextRev /\ told.owner = d.owner
  <2>1. m.ep[e] = x
    BY <1>3, Parts
  <2>2. /\ told.ep[e].status = m.ep[e].status /\ told.ep[e].ack = m.ep[e].ack
        /\ told.ep[e].rev = m.ep[e].rev /\ told.ep[e].corr = m.ep[e].corr
        /\ told.owner = m.owner
    BY <1>4, <1>6, CancelIntentKeeps
  <2> HIDE DEF told
  <2> QED
    BY <1>2, <1>3, <2>1, <2>2
<1>9. SameCounters(m, told)
  BY <1>4, CountersKept
<1> HIDE DEF told
<1>10. d.owner[d.nextRev] = None
  BY Parts, BoundsAssumption DEF DatabaseInv, Fresh, Revs
<1>11. ASSUME corr = None
       PROVE  Kept(d, Admit(told, e, d.nextRev)) /\ SameCounters(told, Admit(told, e, d.nextRev))
  <2>1. Kept(told, Admit(told, e, told.ep[e].rev))
    BY <1>7, <1>8, <1>10, <1>11, AdmitKeeps DEF Kept
  <2> QED
    BY <1>7, <1>8, <2>1, KeptTransitive, CountersKept DEF Kept
<1> QED
  <2>1. Kept(d, Reopen(d, e, c)) /\ Advances(d, Reopen(d, e, c))
    BY <1>3, <1>5, <1>7, <1>9, <1>11, Parts DEF Advances, SameCounters
  <2>2. told.owner[d.nextRev] = None
    BY <1>8, <1>10
  <2> QED
    BY <1>4, <1>5, <1>7, <1>8, <2>1, <2>2 DEF told, m, corr, sev

\* An observation without a transition, or one that redeems a transfer, keeps the invariant.
LEMMA RefreshKeeps ==
  ASSUME NEW d \in Database, DatabaseInv(d), NEW e \in EpIds, NEW c \in Condition,
         d.ep[e].status = "open"
  PROVE  Kept(d, Refresh(d, e, c)) /\ Advances(d, Refresh(d, e, c))
<1> DEFINE old == d.ep[e]
           sev == IF c.fresh THEN c.sev ELSE old.sev
           x == [old EXCEPT !.sev = sev, !.epoch = c.epoch]
           y == [old EXCEPT !.sev = sev, !.epoch = c.epoch, !.tp = None, !.corr = None,
                            !.from = old.tp.from]
           seen == [d EXCEPT !.ep[e] = x]
           redeemed == [d EXCEPT !.ep[e] = y]
<1>1. old \in Episode /\ sev \in Severities /\ c.epoch \in Epochs \cup {None}
  <2>1. old \in Episode
    BY Parts
  <2> QED
    BY <2>1 DEF Episode, Condition
<1>2. /\ x \in Episode /\ x.rev = old.rev /\ x.status = old.status /\ x.ack = old.ack
      /\ x.intent = old.intent /\ x.corr = old.corr /\ x.tp = old.tp /\ x.key = old.key
  BY <1>1 DEF Episode
<1>3. old.tp # None => old.corr # None /\ old.key \in Presence
  BY DEF DatabaseInv, MutedIsUnannounced
<1>4. Kept(d, seen)
  BY <1>2, <1>3, TouchKeeps
<1>5. SameCounters(d, seen) /\ SameCounters(d, redeemed)
  BY DEF SameCounters, Database
<1>6. Refresh(d, e, c) = IF Redeems(d, e, c) THEN Admit(redeemed, e, old.rev) ELSE seen
  BY DEF Refresh
<1>7. ASSUME Redeems(d, e, c)
      PROVE  /\ Kept(d, Admit(redeemed, e, old.rev))
             /\ SameCounters(redeemed, Admit(redeemed, e, old.rev))
  <2>1. old.tp \in Transfer /\ old.tp # None /\ ~old.ack
    BY <1>1, <1>7 DEF Redeems, Episode
  <2>2. old.tp.from \in EpIds
    BY <2>1 DEF Transfer
  <2>3. /\ y \in Episode /\ y.rev = old.rev /\ y.status = old.status /\ y.ack = old.ack
        /\ y.intent = old.intent /\ y.corr = None /\ y.tp = None
    BY <1>1, <2>2 DEF Episode
  <2>4. d.owner[old.rev] = None
    BY <1>3, <2>1 DEF DatabaseInv, MutedIsUnannounced
  <2> HIDE DEF y
  <2>5. Kept(d, redeemed)
    BY <2>3, TouchKeeps
  <2>6. redeemed.ep[e] = y /\ redeemed.owner = d.owner
    BY Parts DEF Database
  <2> HIDE DEF redeemed
  <2>7. Kept(redeemed, Admit(redeemed, e, redeemed.ep[e].rev))
    BY <2>1, <2>3, <2>4, <2>5, <2>6, AdmitKeeps DEF Kept
  <2> QED
    BY <2>3, <2>5, <2>6, <2>7, KeptTransitive, CountersKept DEF Kept
<1> QED
  BY <1>4, <1>5, <1>6, <1>7, Parts DEF Advances, SameCounters

\* observe_condition, whichever branch it takes, keeps the database invariant.
LEMMA ObserveKeeps ==
  ASSUME NEW d \in Database, DatabaseInv(d), NEW c \in Condition,
         d.nextEp \in EpIds, d.nextRev \in Revs
  PROVE  Kept(d, Observe(d, c)) /\ Advances(d, Observe(d, c))
<1> DEFINE open == OpenEpisodes(d, c.key)
           e == IF open = {} THEN d.nextEp ELSE First(open)
           flagged == [d EXCEPT !.limited = TRUE]
<1>1. open # {} => e \in EpIds /\ d.ep[e].status = "open"
  <2>1. open \in SUBSET EpIds
    BY DEF OpenEpisodes
  <2>2. open # {} => e \in open
    BY <2>1, FirstIsIn
  <2> QED
    BY <2>2 DEF OpenEpisodes
<1>2. e \in EpIds /\ e <= d.nextEp
  BY <1>1, Parts, BoundsAssumption DEF EpIds, DatabaseInv, Fresh
<1>3. Kept(d, d) /\ Advances(d, d)
  BY Parts DEF Kept, RowsMove, RowMove, Advances
<1>4. Kept(d, flagged) /\ Advances(d, flagged)
  <2>1. /\ flagged \in Database /\ flagged.ep = d.ep /\ flagged.box = d.box
        /\ flagged.owner = d.owner /\ flagged.enabled = d.enabled
        /\ flagged.setrev = d.setrev
        /\ flagged.nextEp = d.nextEp /\ flagged.nextRev = d.nextRev
    BY DEF Database
  <2> HIDE DEF flagged
  <2> QED
    BY <2>1, Parts DEF Kept, RowsMove, RowMove, Advances, DatabaseInv, Fresh, OwnRevisions,
                       RowsAreOwned, MutedIsUnannounced, IntentIsCurrent
<1>5. open # {} => Kept(d, Recover(d, e)) /\ Advances(d, Recover(d, e))
  BY <1>1, RecoverKeeps
<1>6. Kept(d, Reopen(d, e, c)) /\ Advances(d, Reopen(d, e, c))
  BY <1>2, ReopenKeeps
<1>7. open # {} => Kept(d, Refresh(d, e, c)) /\ Advances(d, Refresh(d, e, c))
  BY <1>1, RefreshKeeps
<1>8. \/ Observe(d, c) = d \/ Observe(d, c) = flagged
      \/ open # {} /\ Observe(d, c) = Recover(d, e)
      \/ Observe(d, c) = Reopen(d, e, c)
      \/ open # {} /\ Observe(d, c) = Refresh(d, e, c)
  BY DEF Observe
<1> QED
  BY <1>3, <1>4, <1>5, <1>6, <1>7, <1>8

\* acknowledge keeps the database invariant.
LEMMA AcknowledgeKeeps ==
  ASSUME NEW d \in Database, DatabaseInv(d), NEW e \in EpIds,
         d.ep[e].status = "open", d.nextRev \in Revs
  PROVE  Kept(d, Acknowledge(d, e))
<1> DEFINE x == [d.ep[e] EXCEPT !.ack = TRUE, !.rev = d.nextRev]
           m == Noted(d, e)
           c == CancelIntent(m, {e})
<1>1. /\ x \in Episode /\ x.rev = d.nextRev /\ x.status # "unused"
      /\ x.tp = d.ep[e].tp /\ x.corr = d.ep[e].corr /\ x.key = d.ep[e].key
  <2>1. d.ep[e] \in Episode
    BY Parts
  <2> QED
    BY <2>1 DEF Episode, Revs
<1>2. e < d.nextEp
  BY Parts, BoundsAssumption DEF DatabaseInv, Fresh, EpIds
<1>3. /\ m.ep = [d.ep EXCEPT ![e] = x] /\ m.box = d.box /\ m.owner = d.owner
      /\ m.enabled = d.enabled /\ m.setrev = d.setrev /\ m.nextRev = d.nextRev + 1
      /\ m.nextEp = d.nextEp
  BY DEF Noted, Database
<1>4. m \in Database
  <2>1. [d.ep EXCEPT ![e] = x] \in [EpIds -> Episode] /\ d.nextRev + 1 \in 1..(MaxRev + 1)
    BY <1>1, Parts, BoundsAssumption DEF Revs
  <2> QED
    BY <2>1 DEF Noted, Database
<1>5. x.tp # None => x.corr # None /\ x.key \in Presence
  BY <1>1 DEF DatabaseInv, MutedIsUnannounced
<1>6. e <= d.nextEp /\ e # d.nextEp
  BY <1>2, Parts, BoundsAssumption DEF EpIds
<1> HIDE DEF m, x
<1>7. InvBut(m, {e})
  BY <1>1, <1>3, <1>4, <1>5, <1>6, StampKeeps
<1>8. Kept(d, c)
  BY <1>3, <1>4, <1>7, CancelledKept
<1>9. Kept(c, SuppressQueued(c, {e}))
  BY <1>8, SuppressQueuedKeeps DEF Kept
<1> QED
  BY <1>8, <1>9, KeptTransitive DEF Kept, Acknowledge, c, m

\* configure keeps the database invariant: no intent stays pending across it.
LEMMA ConfigureKeeps ==
  ASSUME NEW d \in Database, DatabaseInv(d), NEW enabled \in BOOLEAN
  PROVE  Kept(d, Configure(d, enabled))
<1> DEFINE c == CancelIntent(d, EpIds)
           s == SuppressQueued(c, EpIds)
           n == Configure(d, enabled)
<1>1. InvBut(d, EpIds)
  BY DEF DatabaseInv, InvBut
<1>2. Kept(d, c)
  BY <1>1, CancelledKept
<1>3. \A e \in EpIds : c.ep[e].intent.state # "pending"
  BY <1>1, CancelIntentKeeps
<1> HIDE DEF c
<1>4. Kept(d, s) /\ s.ep = c.ep
  <2>1. Kept(c, s) /\ \E box \in [Revs -> Row] : s = [c EXCEPT !.box = box]
    BY <1>2, SuppressQueuedKeeps DEF Kept
  <2>2. s.ep = c.ep
    BY <1>2, <2>1 DEF Kept, Database
  <2> QED
    BY <1>2, <2>1, <2>2, KeptTransitive DEF Kept
<1>5. n = [s EXCEPT !.enabled = enabled, !.setrev = @ + 1]
  BY DEF Configure, c
<1> HIDE DEF s, n
<1>6. /\ n \in Database /\ n.ep = s.ep /\ n.box = s.box /\ n.owner = s.owner
      /\ n.nextEp = s.nextEp /\ n.nextRev = s.nextRev
  <2>1. s \in Database /\ s.setrev + 1 \in Nat
    BY <1>4 DEF Kept, Database
  <2> QED
    BY <1>5, <2>1 DEF Database
<1>7. DatabaseInv(n)
  BY <1>3, <1>4, <1>6 DEF Kept, DatabaseInv, Fresh, OwnRevisions, RowsAreOwned,
                          MutedIsUnannounced, IntentIsCurrent
<1> QED
  BY <1>4, <1>6, <1>7 DEF Kept, RowsMove, RowMove, n

\* The database that the retention leaves to the pending intents.
Pruned(d, rs, es) ==
  [d EXCEPT
    !.box = [r \in Revs |-> IF r \in rs THEN NoRow ELSE d.box[r]],
    !.ep = [e \in EpIds |-> IF e \in es THEN [d.ep[e] EXCEPT !.status = "deleted"]
                            ELSE d.ep[e]],
    !.limited = FALSE]

\* Retention removes settled rows and resolved episodes, and keeps the database invariant.
LEMMA PrunedKeeps ==
  ASSUME NEW d \in Database, DatabaseInv(d), NEW rs \in SUBSET Forgettable(d),
         NEW es \in SUBSET Unreferenced(d, rs)
  PROVE  LET m == Pruned(d, rs, es)
         IN /\ Kept(d, m) /\ SameCounters(d, m)
            /\ \A r \in rs : r \in Revs /\ d.box[r].state \in Settled
            /\ \A e \in es : e \in EpIds /\ d.ep[e].status = "resolved"
            /\ m.box = [r \in Revs |-> IF r \in rs THEN NoRow ELSE d.box[r]]
            /\ \A e \in EpIds :
                 /\ m.ep[e].rev = d.ep[e].rev /\ m.ep[e].ack = d.ep[e].ack
                 /\ m.ep[e].corr = d.ep[e].corr /\ m.ep[e].sev = d.ep[e].sev
                 /\ m.ep[e].intent = d.ep[e].intent /\ m.ep[e].key = d.ep[e].key
                 /\ m.ep[e].from = d.ep[e].from /\ m.ep[e].tp = d.ep[e].tp
                 /\ m.ep[e].status = IF e \in es THEN "deleted" ELSE d.ep[e].status
<1> DEFINE box == [r \in Revs |-> IF r \in rs THEN NoRow ELSE d.box[r]]
           gone(e) == [d.ep[e] EXCEPT !.status = "deleted"]
           ep == [e \in EpIds |-> IF e \in es THEN gone(e) ELSE d.ep[e]]
           m == Pruned(d, rs, es)
<1>1. \A r \in rs : r \in Revs /\ d.box[r].state \in Settled
  BY DEF Forgettable, Evictable
<1>2. \A e \in es : e \in EpIds /\ d.ep[e].status = "resolved"
  BY DEF Unreferenced
<1>3. ASSUME NEW e \in EpIds
      PROVE  /\ gone(e) \in Episode /\ gone(e).status = "deleted"
             /\ gone(e).rev = d.ep[e].rev /\ gone(e).ack = d.ep[e].ack
             /\ gone(e).corr = d.ep[e].corr /\ gone(e).tp = d.ep[e].tp
             /\ gone(e).key = d.ep[e].key /\ gone(e).sev = d.ep[e].sev
             /\ gone(e).intent = d.ep[e].intent /\ gone(e).from = d.ep[e].from
  <2>1. d.ep[e] \in Episode
    BY Parts
  <2> QED
    BY <2>1 DEF Episode
<1>4. box \in [Revs -> Row] /\ ep \in [EpIds -> Episode]
  BY <1>3, IntentsType, Parts
<1>5. /\ m.box = box /\ m.ep = ep /\ m.owner = d.owner /\ m.enabled = d.enabled
      /\ m.setrev = d.setrev /\ m.nextEp = d.nextEp /\ m.nextRev = d.nextRev
  BY DEF Pruned, Database
<1>6. m \in Database
  BY <1>4 DEF Pruned, Database
<1> HIDE DEF m, gone
<1>7. \A e \in EpIds :
        /\ m.ep[e].rev = d.ep[e].rev /\ m.ep[e].ack = d.ep[e].ack
        /\ m.ep[e].corr = d.ep[e].corr /\ m.ep[e].tp = d.ep[e].tp
        /\ m.ep[e].key = d.ep[e].key /\ m.ep[e].sev = d.ep[e].sev
        /\ m.ep[e].intent = d.ep[e].intent /\ m.ep[e].from = d.ep[e].from
        /\ m.ep[e].status = IF e \in es THEN "deleted" ELSE d.ep[e].status
  BY <1>3, <1>5
<1>8. Fresh(m) /\ OwnRevisions(m) /\ MutedIsUnannounced(m)
  BY <1>2, <1>5, <1>7 DEF DatabaseInv, Fresh, OwnRevisions, MutedIsUnannounced
<1>9. RowsAreOwned(m) /\ RowsMove(d, m)
  BY <1>1, <1>5 DEF DatabaseInv, RowsAreOwned, RowsMove, RowMove, NoRow, Settled
<1>10. \A e \in EpIds : IntentIsCurrent(m, e)
  BY <1>2, <1>5, <1>7 DEF DatabaseInv, IntentIsCurrent
<1>11. Kept(d, m)
  BY <1>6, <1>8, <1>9, <1>10 DEF Kept, DatabaseInv
<1> QED
  BY <1>1, <1>2, <1>5, <1>7, <1>11 DEF SameCounters, m

\* The retention at the head of reconcile keeps the database invariant.
LEMMA RetainKeeps ==
  ASSUME NEW d \in Database, DatabaseInv(d), NEW rs \in SUBSET Forgettable(d),
         NEW es \in SUBSET Unreferenced(d, rs)
  PROVE  Kept(d, Retain(d, rs, es)) /\ SameCounters(d, Retain(d, rs, es))
<1> DEFINE m == Pruned(d, rs, es)
<1>1. Kept(d, m) /\ SameCounters(d, m)
  BY PrunedKeeps
<1>2. Retain(d, rs, es) = RetryPending(m)
  BY DEF Retain, Pruned
<1> HIDE DEF m
<1>3. Kept(m, RetryPending(m)) /\ SameCounters(m, RetryPending(m))
  BY <1>1, RetryPendingKeeps, CountersKept DEF Kept
<1> QED
  BY <1>1, <1>2, <1>3, KeptTransitive DEF Kept, SameCounters

\* The tail of reconcile keeps the database invariant.
LEMMA ReconciledKeeps ==
  ASSUME NEW d \in Database, DatabaseInv(d)
  PROVE  Kept(d, Reconciled(d))
<1> DEFINE m == RetryPending(d)
           n == Reconciled(d)
<1>1. Kept(d, m)
  BY RetryPendingKeeps
<1> HIDE DEF m
<1>2. \E limited \in BOOLEAN : n = [m EXCEPT !.limited = limited]
  BY <1>1 DEF Kept, Reconciled, m, Database
<1> HIDE DEF n
<1>3. /\ n \in Database /\ n.ep = m.ep /\ n.box = m.box /\ n.owner = m.owner
      /\ n.enabled = m.enabled /\ n.setrev = m.setrev
      /\ n.nextEp = m.nextEp /\ n.nextRev = m.nextRev
  BY <1>1, <1>2 DEF Kept, Database
<1>4. DatabaseInv(n)
  BY <1>1, <1>3 DEF Kept, DatabaseInv, Fresh, OwnRevisions, RowsAreOwned,
                    MutedIsUnannounced, IntentIsCurrent
<1> QED
  BY <1>1, <1>3, <1>4 DEF Kept, RowsMove, RowMove, n

\* What the start of a worker step, or of the worker, may do to a row besides.
GivenUp(d, n, r) ==
  /\ d.box[r].state \in {"sending", "accepted"} /\ n.box[r].state \in Settled \cup {"absent"}
  /\ n.owner[r] = d.owner[r] /\ d.owner[r] # None

\* The database that the sweep leaves to the pending intents.
Swept(d) ==
  [d EXCEPT !.box = [r \in Revs |->
    LET row == d.box[r]
    IN CASE row.state = "sending" -> [row EXCEPT !.state = "uncertain"]
         [] row.state = "queued" /\ row.age = MaxAge -> [row EXCEPT !.state = "failed"]
         [] row.state = "accepted" /\ row.age = MaxAge -> [row EXCEPT !.state = "uncertain"]
         [] OTHER -> row]]

\* The sweep settles claims without an owner and expired rows, and nothing else.
LEMMA SweptKeeps ==
  ASSUME NEW d \in Database, DatabaseInv(d)
  PROVE  LET m == Swept(d)
         IN /\ m \in Database /\ DatabaseInv(m)
            /\ m.ep = d.ep /\ m.owner = d.owner /\ m.limited = d.limited
            /\ m.nextEp = d.nextEp
            /\ \A r \in Revs : m.box[r].ep = d.box[r].ep
            /\ \A r \in Revs :
                 \/ m.box[r] = d.box[r] /\ d.box[r].state # "sending"
                 \/ /\ \/ d.box[r].state = "sending"
                       \/ d.box[r].state \in {"accepted", "queued"} /\ d.box[r].age = MaxAge
                    /\ m.box[r].state \in Settled
<1> DEFINE given(r) ==
             LET row == d.box[r]
             IN CASE row.state = "sending" -> [row EXCEPT !.state = "uncertain"]
                  [] row.state = "queued" /\ row.age = MaxAge -> [row EXCEPT !.state = "failed"]
                  [] row.state = "accepted" /\ row.age = MaxAge -> [row EXCEPT !.state = "uncertain"]
                  [] OTHER -> row
           box == [r \in Revs |-> given(r)]
           m == Swept(d)
<1>1. ASSUME NEW r \in Revs
      PROVE  /\ given(r) \in Row /\ given(r).ep = d.box[r].ep
             /\ \/ given(r) = d.box[r] /\ d.box[r].state # "sending"
                \/ /\ \/ d.box[r].state = "sending"
                      \/ d.box[r].state \in {"accepted", "queued"} /\ d.box[r].age = MaxAge
                   /\ given(r).state \in Settled
  <2>1. d.box[r] \in Row
    BY Parts
  <2>2. \A s \in Settled : /\ [d.box[r] EXCEPT !.state = s] \in Row
                          /\ [d.box[r] EXCEPT !.state = s].state = s
                          /\ [d.box[r] EXCEPT !.state = s].ep = d.box[r].ep
    BY <2>1 DEF Row, Settled
  <2>3. CASE d.box[r].state = "sending"
    BY <2>2, <2>3 DEF Settled
  <2>4. CASE d.box[r].state # "sending"
    BY <2>1, <2>2, <2>4 DEF Settled
  <2> QED
    BY <2>3, <2>4
<1>2. /\ m = [d EXCEPT !.box = box] /\ m.box = box /\ m.ep = d.ep /\ m.owner = d.owner
      /\ m.enabled = d.enabled /\ m.setrev = d.setrev /\ m.limited = d.limited
      /\ m.nextEp = d.nextEp /\ m.nextRev = d.nextRev
  BY DEF Swept, Database
<1> HIDE DEF given, m
<1>3. box \in [Revs -> Row]
  BY <1>1
<1>4. m \in Database
  BY <1>2, <1>3 DEF Database
<1>5. DatabaseInv(m)
  BY <1>1, <1>2 DEF DatabaseInv, Fresh, OwnRevisions, RowsAreOwned, MutedIsUnannounced,
                    IntentIsCurrent, Settled
<1> QED
  BY <1>1, <1>2, <1>4, <1>5 DEF m

\* The sweep at the head of a worker step keeps the database invariant.
LEMMA SweepKeeps ==
  ASSUME NEW d \in Database, DatabaseInv(d)
  PROVE  /\ Sweep(d) \in Database /\ DatabaseInv(Sweep(d))
         /\ \A r \in Revs : /\ RowMove(d, Sweep(d), r) \/ GivenUp(d, Sweep(d), r)
                            /\ Sweep(d).box[r].state # "sending"
<1> DEFINE m == Swept(d)
<1>1. /\ m \in Database /\ DatabaseInv(m) /\ m.owner = d.owner
      /\ \A r \in Revs :
           \/ m.box[r] = d.box[r] /\ d.box[r].state # "sending"
           \/ /\ d.box[r].state \in {"sending", "accepted", "queued"}
              /\ m.box[r].state \in Settled
  BY SweptKeeps
<1>2. Sweep(d) = RetryPending(m)
  BY DEF Sweep, Swept
<1> HIDE DEF m
<1>3. Kept(m, Sweep(d))
  BY <1>1, <1>2, RetryPendingKeeps
<1>4. ASSUME NEW r \in Revs
      PROVE  /\ RowMove(d, Sweep(d), r) \/ GivenUp(d, Sweep(d), r)
             /\ Sweep(d).box[r].state # "sending"
  <2>1. RowMove(m, Sweep(d), r)
    BY <1>3 DEF Kept, RowsMove
  <2>2. d.owner[r] = None => d.box[r].state = "absent"
    BY DEF DatabaseInv, RowsAreOwned
  <2> HIDE DEF RowMove, GivenUp
  <2>3. RowMove(d, Sweep(d), r) \/ GivenUp(d, Sweep(d), r)
    BY <1>1, <2>1, <2>2 DEF RowMove, GivenUp, Settled
  <2>4. Sweep(d).box[r].state # "sending"
    BY <1>1, <2>1 DEF RowMove, Settled
  <2> QED
    BY <2>3, <2>4
<1> QED
  BY <1>3, <1>4 DEF Kept

-----------------------------------------------------------------------------
(* The steps of the specification.                                         *)

\* The empty database and the stopped worker satisfy the inductive invariant.
LEMMA InitIInv == Init => IInv
<1> SUFFICES ASSUME Init PROVE IInv
  OBVIOUS
<1> USE DEF Init
<1>1. 1 \in EpIds /\ 1 \in Revs /\ 0 \in Ages /\ None \notin EpIds
  BY BoundsAssumption, KeysAssumption DEF EpIds, Revs, Ages
<1>2. db \in Database
  <2>1. NoIntent \in Intent /\ NoRow \in Row
    BY IntentsType
  <2>2. (CHOOSE k \in Keys : TRUE) \in Keys
    BY KeysAssumption
  <2>3. db.ep \in [EpIds -> Episode]
    BY <1>1, <2>1, <2>2 DEF Episode, Severities
  <2>4. 1 \in 1..(MaxEp + 1) /\ 1 \in 1..(MaxRev + 1)
    BY BoundsAssumption
  <2> QED
    BY <2>1, <2>3, <2>4 DEF Database
<1>3. DatabaseInv(db)
  BY BoundsAssumption DEF DatabaseInv, Fresh, OwnRevisions, RowsAreOwned, MutedIsUnannounced,
                          IntentIsCurrent, NoIntent, NoRow, EpIds, Revs
<1>4. TypeOK
  BY <1>1, <1>2, ReportsAssumption DEF TypeOK, Worker, NoOutcome, Outcome
<1>5. ASSUME NEW r \in Revs PROVE RowInv(r)
  BY DEF RowInv, NoRow
<1>6. JobInv
  BY DEF JobInv
<1> QED
  BY <1>3, <1>4, <1>5, <1>6 DEF IInv

\* A handler: only the database changes, and rows only as RowMove allows.
LEMMA HandlerStep ==
  ASSUME IInv, Kept(db, db'), UNCHANGED <<worker, made, crashes>>
  PROVE  IInv'
<1>1. TypeOK'
  BY DEF IInv, TypeOK, Kept
<1>2. DatabaseInv(db)'
  BY DEF Kept
<1>3. ASSUME NEW r \in Revs PROVE RowInv(r)'
  <2>1. RowMove(db, db', r) /\ RowInv(r)
    BY DEF IInv, Kept, RowsMove
  <2>2. 0 < RetryLimit
    BY BoundsAssumption
  <2> QED
    BY <2>1, <2>2 DEF RowMove, RowInv, Settled
<1>4. JobInv'
  <2>1. worker.rev \in Revs
    BY DEF IInv, TypeOK, Worker
  <2>2. RowMove(db, db', worker.rev) /\ (db.owner[worker.rev] = None => db.box[worker.rev].state = "absent")
    BY <2>1 DEF IInv, Kept, RowsMove, DatabaseInv, RowsAreOwned
  <2> QED
    BY <2>2 DEF IInv, JobInv, RowMove, Settled
<1> QED
  BY <1>1, <1>2, <1>3, <1>4 DEF IInv

\* A reported condition preserves the inductive invariant.
LEMMA IngestStep ==
  ASSUME IInv, NEW c \in Reports, Ingest(c)
  PROVE  IInv' /\ Kept(db, db')
<1>1. db \in Database /\ DatabaseInv(db) /\ c \in Condition
  BY ReportsAssumption DEF IInv, TypeOK
<1>2. db.nextEp \in EpIds /\ db.nextRev \in Revs
  BY <1>1, Parts, BoundsAssumption DEF Ingest, Room, EpIds, Revs
<1>3. Kept(db, db')
  BY <1>1, <1>2, ObserveKeeps DEF Ingest
<1> QED
  BY <1>3, HandlerStep DEF Ingest

\* A reconciliation pass preserves the inductive invariant.
LEMMA ReconcileStep ==
  ASSUME IInv, NEW batch \in Batches, NEW rs \in SUBSET Forgettable(db),
         NEW es \in SUBSET Unreferenced(db, rs), Reconcile(batch, rs, es)
  PROVE  IInv' /\ Kept(db, db')
<1> DEFINE a == Retain(db, rs, es)
           b == Observe(a, batch[1])
           c == Observe(b, batch[2])
<1>1. db \in Database /\ DatabaseInv(db) /\ batch[1] \in Condition /\ batch[2] \in Condition
  BY ReportsAssumption DEF IInv, TypeOK
<1>2. db.nextEp \in Nat /\ db.nextRev \in Nat /\ db.nextEp >= 1 /\ db.nextRev >= 1
      /\ db.nextEp + 2 <= MaxEp + 1 /\ db.nextRev + 2 <= MaxRev + 1
  BY <1>1, Parts, BoundsAssumption DEF Reconcile, Room
<1>3. Kept(db, a) /\ SameCounters(db, a)
  BY <1>1, RetainKeeps
<1> HIDE DEF a
<1>4. a.nextEp \in EpIds /\ a.nextRev \in Revs
  BY <1>2, <1>3, BoundsAssumption DEF SameCounters, EpIds, Revs
<1>5. Kept(a, b) /\ Advances(a, b)
  BY <1>1, <1>3, <1>4, ObserveKeeps DEF Kept
<1> HIDE DEF b
<1>6. b.nextEp \in EpIds /\ b.nextRev \in Revs
  <2>1. b \in Database
    BY <1>5 DEF Kept
  <2> QED
    BY SMTT(30), <1>2, <1>3, <1>5, <2>1, Parts, BoundsAssumption DEF SameCounters, Advances, EpIds, Revs
<1>7. Kept(b, c)
  BY <1>1, <1>5, <1>6, ObserveKeeps DEF Kept
<1> HIDE DEF c
<1>8. Kept(c, Reconciled(c))
  BY <1>7, ReconciledKeeps DEF Kept
<1>9. db' = Reconciled(c)
  BY DEF Reconcile, a, b, c
<1>10. Kept(db, b)
  BY <1>1, <1>3, <1>5, KeptTransitive DEF Kept
<1>11. Kept(db, c)
  BY <1>1, <1>7, <1>10, KeptTransitive DEF Kept
<1>12. Kept(db, db')
  BY <1>1, <1>8, <1>9, <1>11, KeptTransitive DEF Kept
<1> QED
  BY <1>12, HandlerStep DEF Reconcile

\* An acknowledgement preserves the inductive invariant.
LEMMA AcknowledgeStep ==
  ASSUME IInv, NEW e \in EpIds, AcknowledgeEpisode(e)
  PROVE  IInv' /\ Kept(db, db')
<1>1. db \in Database /\ DatabaseInv(db)
  BY DEF IInv, TypeOK
<1>2. db.nextRev \in Revs
  BY <1>1, Parts, BoundsAssumption DEF AcknowledgeEpisode, Room, Revs
<1>3. Kept(db, db')
  BY <1>1, <1>2, AcknowledgeKeeps DEF AcknowledgeEpisode
<1> QED
  BY <1>3, HandlerStep DEF AcknowledgeEpisode

\* A change of settings preserves the inductive invariant.
LEMMA SettingsStep ==
  ASSUME IInv, NEW enabled \in BOOLEAN, ChangeSettings(enabled)
  PROVE  IInv' /\ Kept(db, db')
<1>1. Kept(db, db')
  BY ConfigureKeeps DEF ChangeSettings, IInv, TypeOK
<1> QED
  BY <1>1, HandlerStep DEF ChangeSettings

\* The passing of time preserves the inductive invariant.
LEMMA TickStep ==
  ASSUME IInv, Tick
  PROVE  /\ IInv' /\ db'.owner = db.owner
         /\ db'.nextEp = db.nextEp
         /\ \A r \in Revs : /\ db'.box[r].state = db.box[r].state
                            /\ db'.box[r].ep = db.box[r].ep
         /\ \A e \in EpIds :
              /\ db'.ep[e].rev = db.ep[e].rev /\ db'.ep[e].sev = db.ep[e].sev
              /\ db'.ep[e].status = db.ep[e].status /\ db'.ep[e].ack = db.ep[e].ack
              /\ db'.ep[e].corr = db.ep[e].corr /\ db'.ep[e].key = db.ep[e].key
              /\ db'.ep[e].from = db.ep[e].from
              /\ db.ep[e].tp = None => db'.ep[e].tp = None
              /\ db.ep[e].tp # None => db'.ep[e].tp.from = db.ep[e].tp.from
              /\ db'.ep[e].intent.state = db.ep[e].intent.state
              /\ db'.ep[e].intent.rev = db.ep[e].intent.rev
<1> DEFINE box == [r \in Revs |-> IF db.box[r].state = "absent" THEN db.box[r]
                                  ELSE Older(db.box[r])]
           older(e) == [db.ep[e] EXCEPT
                          !.intent = IF @.state = "pending" THEN Older(@) ELSE @,
                          !.tp = IF @ = None THEN @ ELSE Older(@)]
           ep == [e \in EpIds |-> older(e)]
<1>1. db \in Database /\ DatabaseInv(db)
  BY DEF IInv, TypeOK
<1>2. \A a \in Ages : (IF a < MaxAge THEN a + 1 ELSE a) \in Ages
  BY BoundsAssumption DEF Ages
<1>3. ASSUME NEW r \in Revs
      PROVE  /\ box[r] \in Row /\ box[r].state = db.box[r].state
             /\ box[r].ep = db.box[r].ep
             /\ box[r].attempts = db.box[r].attempts /\ box[r].sid = db.box[r].sid
  <2>1. db.box[r] \in Row
    BY <1>1, Parts
  <2> QED
    BY <1>2, <2>1 DEF Older, Row
<1>4. ASSUME NEW e \in EpIds
      PROVE  /\ older(e) \in Episode /\ older(e).rev = db.ep[e].rev
             /\ older(e).status = db.ep[e].status /\ older(e).ack = db.ep[e].ack
             /\ older(e).corr = db.ep[e].corr /\ older(e).key = db.ep[e].key
             /\ older(e).sev = db.ep[e].sev /\ older(e).from = db.ep[e].from
             /\ older(e).tp # None => db.ep[e].tp # None
             /\ db.ep[e].tp # None => older(e).tp.from = db.ep[e].tp.from
             /\ db.ep[e].tp = None => older(e).tp = None
             /\ older(e).intent.state = db.ep[e].intent.state
             /\ older(e).intent.rev = db.ep[e].intent.rev
             /\ older(e).intent.setrev = db.ep[e].intent.setrev
  <2> DEFINE i == IF db.ep[e].intent.state = "pending" THEN Older(db.ep[e].intent)
                  ELSE db.ep[e].intent
             tp == IF db.ep[e].tp = None THEN db.ep[e].tp ELSE Older(db.ep[e].tp)
  <2>1. db.ep[e] \in Episode /\ db.ep[e].intent \in Intent
        /\ db.ep[e].tp \in Transfer \cup {None}
    BY <1>1, Parts DEF Episode
  <2>2. /\ i \in Intent /\ i.state = db.ep[e].intent.state
        /\ i.rev = db.ep[e].intent.rev /\ i.setrev = db.ep[e].intent.setrev
    BY <1>2, <2>1 DEF Older, Intent
  <2>3. /\ tp \in Transfer \cup {None} /\ (db.ep[e].tp = None => tp = None)
        /\ db.ep[e].tp # None => tp.from = db.ep[e].tp.from
    BY <1>2, <2>1 DEF Older, Transfer
  <2>4. older(e) = [db.ep[e] EXCEPT !.intent = i, !.tp = tp]
    BY <2>1 DEF Episode
  <2> HIDE DEF i, tp, older
  <2>5. older(e) \in Episode /\ older(e).intent = i /\ older(e).tp = tp
    BY <2>1, <2>2, <2>3, <2>4 DEF Episode
  <2>6. /\ older(e).rev = db.ep[e].rev
        /\ older(e).status = db.ep[e].status /\ older(e).ack = db.ep[e].ack
        /\ older(e).corr = db.ep[e].corr /\ older(e).key = db.ep[e].key
        /\ older(e).sev = db.ep[e].sev /\ older(e).from = db.ep[e].from
    BY <2>1, <2>4 DEF Episode
  <2> QED
    BY <2>2, <2>3, <2>5, <2>6
<1> HIDE DEF older
<1>5. db' = [db EXCEPT !.box = box, !.ep = ep]
  BY DEF Tick, older
<1>6. box \in [Revs -> Row] /\ ep \in [EpIds -> Episode]
  BY <1>3, <1>4
<1>7. /\ db' \in Database /\ db'.box = box /\ db'.ep = ep /\ db'.owner = db.owner
      /\ db'.enabled = db.enabled /\ db'.setrev = db.setrev
      /\ db'.nextEp = db.nextEp /\ db'.nextRev = db.nextRev
  BY <1>1, <1>5, <1>6 DEF Database
<1>8. \A r \in Revs : /\ db'.box[r].state = db.box[r].state
                      /\ db'.box[r].attempts = db.box[r].attempts
                      /\ db'.box[r].sid = db.box[r].sid
                      /\ db'.box[r].ep = db.box[r].ep
  BY <1>3, <1>7
<1>9. \A e \in EpIds :
             /\ db'.ep[e].rev = db.ep[e].rev
             /\ db'.ep[e].status = db.ep[e].status /\ db'.ep[e].ack = db.ep[e].ack
             /\ db'.ep[e].corr = db.ep[e].corr /\ db'.ep[e].key = db.ep[e].key
             /\ db'.ep[e].sev = db.ep[e].sev /\ db'.ep[e].from = db.ep[e].from
             /\ db'.ep[e].tp # None => db.ep[e].tp # None
             /\ db.ep[e].tp # None => db'.ep[e].tp.from = db.ep[e].tp.from
             /\ db.ep[e].tp = None => db'.ep[e].tp = None
             /\ db'.ep[e].intent.state = db.ep[e].intent.state
             /\ db'.ep[e].intent.rev = db.ep[e].intent.rev
             /\ db'.ep[e].intent.setrev = db.ep[e].intent.setrev
  <2>1. \A e \in EpIds : db'.ep[e] = older(e)
    BY <1>7
  <2> QED
    BY <1>4, <2>1, ZenonT(60)
<1> HIDE DEF box, ep
<1>10. DatabaseInv(db)'
  <2>1. Fresh(db')
    BY <1>1, <1>7, <1>9 DEF DatabaseInv, Fresh
  <2>2. OwnRevisions(db') /\ RowsAreOwned(db') /\ MutedIsUnannounced(db')
    BY <1>1, <1>7, <1>8, <1>9 DEF DatabaseInv, OwnRevisions, RowsAreOwned, MutedIsUnannounced
  <2>3. \A e \in EpIds : IntentIsCurrent(db', e)
    BY <1>1, <1>7, <1>9 DEF DatabaseInv, IntentIsCurrent
  <2> QED
    BY <2>1, <2>2, <2>3 DEF DatabaseInv
<1>11. UNCHANGED <<worker, made, crashes>>
  BY DEF Tick
<1>12. TypeOK'
  BY <1>7, <1>11 DEF IInv, TypeOK
<1>13. \A r \in Revs : RowInv(r)'
  BY <1>7, <1>8, <1>11 DEF IInv, RowInv
<1>14. JobInv'
  <2>1. worker.rev \in Revs
    BY DEF IInv, TypeOK, Worker
  <2> QED
    BY <1>8, <1>11, <2>1 DEF IInv, JobInv
<1> QED
  BY <1>7, <1>8, <1>9, <1>10, <1>12, <1>13, <1>14 DEF IInv

\* A step of the worker that changes no row but the one it claims.
LEMMA ClaimStep ==
  ASSUME IInv, WorkerStep
  PROVE  IInv'
<1> DEFINE s == Sweep(db)
<1>1. /\ s \in Database /\ DatabaseInv(s)
      /\ \A r \in Revs : /\ RowMove(db, s, r) \/ GivenUp(db, s, r)
                         /\ s.box[r].state # "sending"
  BY SweepKeeps DEF IInv, TypeOK
<1> HIDE DEF s
<1>2. ASSUME NEW r \in Revs
      PROVE  /\ made[r] \in {0, 1} /\ (s.owner[r] = None => made[r] = 0)
             /\ s.box[r].state = "queued" =>
                  made[r] = 0 /\ s.box[r].attempts < RetryLimit
             /\ s.box[r].state = "accepted" => s.box[r].sid /\ made[r] = 1
  <2>1. RowInv(r) /\ (RowMove(db, s, r) \/ GivenUp(db, s, r))
    BY <1>1 DEF IInv
  <2>2. 0 < RetryLimit
    BY BoundsAssumption
  <2> QED
    BY <2>1, <2>2 DEF RowMove, GivenUp, RowInv, Settled
<1>3. CASE SweepOnly
  <2>1. db' = s /\ UNCHANGED <<worker, made, crashes>> /\ worker.pc = "idle"
    BY <1>3 DEF SweepOnly, s
  <2>2. TypeOK'
    BY <1>1, <2>1 DEF IInv, TypeOK
  <2>3. \A r \in Revs : RowInv(r)'
    BY <1>2, <2>1 DEF RowInv
  <2>4. JobInv'
    BY <2>1 DEF JobInv
  <2> QED
    BY <1>1, <2>1, <2>2, <2>3, <2>4 DEF IInv
<1>4. ASSUME NEW r \in Revs, ClaimPoll(r)
      PROVE  IInv'
  <2>1. /\ db' = s /\ worker' = [worker EXCEPT !.pc = "http", !.rev = r, !.poll = TRUE]
        /\ made' = made /\ crashes' = crashes /\ s.box[r].state = "accepted"
    BY <1>4 DEF ClaimPoll, s
  <2>2. worker' \in Worker /\ worker'.pc = "http" /\ worker'.rev = r /\ worker'.poll = TRUE
    BY <2>1 DEF IInv, TypeOK, Worker
  <2>3. TypeOK'
    BY <1>1, <2>1, <2>2 DEF IInv, TypeOK
  <2>4. \A x \in Revs : RowInv(x)'
    BY <1>2, <2>1 DEF RowInv
  <2>5. JobInv'
    BY <2>1, <2>2 DEF JobInv
  <2> QED
    BY <1>1, <2>1, <2>3, <2>4, <2>5 DEF IInv
<1>5. ASSUME NEW r \in Revs, ClaimSend(r)
      PROVE  IInv'
  <2> DEFINE row == [s.box[r] EXCEPT !.state = "sending", !.attempts = @ + 1]
  <2>1. /\ r \in Sendable(s) /\ crashes' = crashes /\ made' = made
        /\ worker' = [worker EXCEPT !.pc = "http", !.rev = r, !.poll = FALSE]
        /\ db' = [s EXCEPT !.box[r].state = "sending", !.box[r].attempts = @ + 1]
    BY <1>5 DEF ClaimSend, s
  <2>2. s.box[r].state = "queued" /\ s.box[r] \in Row
    BY <1>1, <2>1, Parts DEF Sendable
  <2>3. row \in Row /\ row.state = "sending" /\ row.sid = s.box[r].sid
    <3>1. s.box[r].attempts \in 0..RetryLimit /\ s.box[r].attempts < RetryLimit
      BY <1>2, <2>2 DEF Row
    <3>2. s.box[r].attempts + 1 \in 0..RetryLimit
      BY <3>1, BoundsAssumption
    <3> QED
      BY <2>2, <3>2 DEF Row, Active
  <2>4. /\ db'.box = [s.box EXCEPT ![r] = row] /\ db'.ep = s.ep /\ db'.owner = s.owner
        /\ db'.enabled = s.enabled /\ db'.setrev = s.setrev
        /\ db'.nextEp = s.nextEp /\ db'.nextRev = s.nextRev /\ db' \in Database
    <3>1. [s.box EXCEPT ![r] = row] \in [Revs -> Row]
      BY <1>1, <2>3, Parts
    <3>2. db' = [s EXCEPT !.box = [s.box EXCEPT ![r] = row]]
      BY <1>1, <2>1, Parts DEF Database, Row
    <3> HIDE DEF row
    <3> QED
      BY <1>1, <3>1, <3>2 DEF Database
  <2> HIDE DEF row
  <2>5. db'.box[r] = row /\ \A x \in Revs : x # r => db'.box[x] = s.box[x]
    BY <1>1, <2>4, Parts
  <2>6. worker' \in Worker /\ worker'.pc = "http" /\ worker'.rev = r /\ worker'.poll = FALSE
    BY <2>1 DEF IInv, TypeOK, Worker
  <2>7. TypeOK'
    BY <2>1, <2>4, <2>6 DEF IInv, TypeOK
  <2>8. DatabaseInv(db)'
    <3>1. s.owner[r] # None
      BY <1>1, <2>2 DEF DatabaseInv, RowsAreOwned
    <3> QED
      BY <1>1, <2>4, <2>5, <3>1 DEF DatabaseInv, Fresh, OwnRevisions, RowsAreOwned,
                                    MutedIsUnannounced, IntentIsCurrent
  <2>9. \A x \in Revs : RowInv(x)'
    BY <1>2, <2>1, <2>3, <2>4, <2>5 DEF RowInv
  <2>10. JobInv'
    BY <1>2, <2>1, <2>2, <2>3, <2>5, <2>6 DEF JobInv
  <2> QED
    BY <2>7, <2>8, <2>9, <2>10 DEF IInv
<1> QED
  BY <1>3, <1>4, <1>5 DEF WorkerStep

\* A provider response preserves the inductive invariant: a message is created at most once.
LEMMA RespondStep ==
  ASSUME IInv, NEW o \in Outcome, Respond(o)
  PROVE  IInv'
<1>1. PICK n \in Created(o) : made' = [made EXCEPT ![worker.rev] = @ + n]
  BY DEF Respond
<1>2. /\ worker.pc = "http" /\ db' = db /\ crashes' = crashes
      /\ worker' = [worker EXCEPT !.pc = "record", !.outcome = o]
  BY DEF Respond
<1>3. worker \in Worker /\ made \in [Revs -> Nat] /\ worker.rev \in Revs
      /\ worker.poll \in BOOLEAN
  BY DEF IInv, TypeOK, Worker
<1>4. /\ worker' \in Worker /\ worker'.pc = "record" /\ worker'.outcome = o
      /\ worker'.rev = worker.rev /\ worker'.poll = worker.poll
  BY <1>2, <1>3 DEF Worker
<1>5. n \in {0, 1}
  BY DEF Created
<1>6. /\ made' \in [Revs -> Nat] /\ made'[worker.rev] = made[worker.rev] + n
      /\ \A r \in Revs : r # worker.rev => made'[r] = made[r]
  BY <1>1, <1>3, <1>5
<1>7. RowInv(worker.rev) /\ JobInv
  BY <1>3 DEF IInv
<1>8. worker.poll => n = 0
  <2>1. worker.poll => db.box[worker.rev].sid
    BY <1>2, <1>7 DEF RowInv, JobInv
  <2> QED
    BY <2>1 DEF Created, Posting
<1>9. ~worker.poll => /\ made[worker.rev] = 0 /\ db.box[worker.rev].state = "sending"
                      /\ o.state = "queued" => n = 0
                      /\ o.sid => n = 1
  BY <1>2, <1>7 DEF JobInv, Created, Posting, Outcome
<1>10. TypeOK'
  BY <1>2, <1>4, <1>6 DEF IInv, TypeOK
<1>11. RowInv(worker.rev)'
  <2>1. CASE worker.poll
    BY <1>2, <1>6, <1>7, <1>8, <2>1, <1>4 DEF RowInv
  <2>2. CASE ~worker.poll
    <3>1. db.owner[worker.rev] # None
      BY <1>3, <1>9, <2>2 DEF IInv, DatabaseInv, RowsAreOwned
    <3> QED
      BY <1>2, <1>4, <1>5, <1>6, <1>9, <2>2, <3>1 DEF RowInv
  <2> QED
    BY <2>1, <2>2
<1>12. ASSUME NEW r \in Revs PROVE RowInv(r)'
  <2>1. CASE r = worker.rev
    BY <1>4, <1>11, <2>1
  <2>2. CASE r # worker.rev
    BY <1>2, <1>6, <2>2 DEF IInv, RowInv
  <2> QED
    BY <2>1, <2>2
<1>13. JobInv'
  BY <1>2, <1>4, <1>5, <1>6, <1>7, <1>9, <1>8 DEF JobInv
<1> QED
  BY <1>2, <1>10, <1>12, <1>13 DEF IInv

\* Record writes only the row of the job, which it finds as the claim left it.
LEMMA RecordStep ==
  ASSUME IInv, Record
  PROVE  /\ IInv' /\ db'.owner = db.owner /\ made' = made
         /\ \A r \in Revs : r # worker.rev => db'.box[r] = db.box[r]
         /\ worker.rev \in Revs /\ db.owner[worker.rev] # None
         /\ worker.poll => /\ db.box[worker.rev].state = "accepted"
                           /\ db'.box[worker.rev].state \in {"accepted"} \cup Settled
         /\ ~worker.poll => /\ db.box[worker.rev].state = "sending"
                            /\ db'.box[worker.rev].state \in {"queued", "accepted"} \cup Settled
                            /\ db'.box[worker.rev].state = "queued" => made[worker.rev] = 0
                            /\ db'.box[worker.rev].state = "accepted" => made[worker.rev] = 1
<1> DEFINE w == worker.rev
           final == Final(worker.poll, worker.outcome, db.box[w].attempts)
           sid == db.box[w].sid \/ worker.outcome.sid
           row == [db.box[w] EXCEPT !.state = final, !.sid = sid]
<1>1. /\ worker \in Worker /\ w \in Revs /\ worker.outcome \in Outcome
      /\ worker.poll \in BOOLEAN /\ worker.pc = "record"
      /\ db \in Database /\ DatabaseInv(db) /\ RowInv(w) /\ JobInv
  BY DEF IInv, TypeOK, Worker, Record
<1>2. db.box[w] \in Row
  BY <1>1, Parts
<1>3. db.box[w].state = IF worker.poll THEN "accepted" ELSE "sending"
  BY <1>1 DEF JobInv
<1>4. db.owner[w] # None
  BY <1>1, <1>3 DEF DatabaseInv, RowsAreOwned
<1>5. /\ worker.outcome.state \in {"queued", "accepted", "delivered", "failed", "uncertain"}
      /\ worker.outcome.sid \in BOOLEAN
      /\ worker.outcome.state = "queued" => ~worker.outcome.sid
      /\ worker.outcome.state \in {"accepted", "delivered"} => worker.outcome.sid
  BY <1>1 DEF Outcome
<1>6. worker.poll => final \in {"accepted"} \cup Settled
  BY <1>5 DEF Final, Settled
<1>7. ~worker.poll =>
        /\ final \in {"queued", "accepted"} \cup Settled
        /\ final = "queued" => made[w] = 0 /\ ~(db.box[w].attempts >= RetryLimit)
        /\ final = "accepted" => made[w] = 1 /\ worker.outcome.sid
  BY <1>1, <1>5 DEF Final, Settled, JobInv
<1>8. row \in Row /\ row.state = final /\ row.sid = sid /\ row.attempts = db.box[w].attempts
  <2>1. final \in Active \cup Settled /\ sid \in BOOLEAN
    BY <1>1, <1>2, <1>5, <1>6, <1>7 DEF Active, Row
  <2> HIDE DEF final, sid
  <2> QED
    BY <1>2, <2>1 DEF Row
<1>9. db' = [db EXCEPT !.box[w].state = final, !.box[w].sid = @ \/ worker.outcome.sid]
  BY <1>3 DEF Record
<1>10. /\ db' \in Database /\ db'.box = [db.box EXCEPT ![w] = row] /\ db'.ep = db.ep
       /\ db'.owner = db.owner /\ db'.enabled = db.enabled /\ db'.setrev = db.setrev
       /\ db'.nextEp = db.nextEp /\ db'.nextRev = db.nextRev
  <2>1. [db.box EXCEPT ![w] = row] \in [Revs -> Row]
    BY <1>1, <1>8, Parts
  <2>2. db' = [db EXCEPT !.box = [db.box EXCEPT ![w] = row]]
    <3> HIDE DEF final
    <3> QED
      BY <1>1, <1>2, <1>9, Parts, ZenonT(60) DEF Database, Row
  <2> HIDE DEF row
  <2> QED
    BY <1>1, <2>1, <2>2 DEF Database
<1>11. db'.box[w] = row /\ \A r \in Revs : r # w => db'.box[r] = db.box[r]
  BY <1>1, <1>10, Parts
<1>12. /\ made' = made /\ crashes' = crashes
       /\ worker' = [worker EXCEPT !.pc = "idle", !.outcome = NoOutcome]
  BY DEF Record
<1>13. worker' \in Worker /\ worker'.pc = "idle"
  BY <1>1, <1>12 DEF Worker, NoOutcome, Outcome
<1> HIDE DEF row, final, sid
<1>14. TypeOK'
  BY <1>10, <1>12, <1>13 DEF IInv, TypeOK
<1>15. DatabaseInv(db)'
  BY <1>1, <1>4, <1>10, <1>11 DEF DatabaseInv, Fresh, OwnRevisions, RowsAreOwned,
                                  MutedIsUnannounced, IntentIsCurrent
<1>16. /\ made[w] \in {0, 1}
       /\ row.state = "queued" => made[w] = 0 /\ row.attempts < RetryLimit
       /\ row.state = "accepted" => row.sid /\ made[w] = 1
  <2>1. CASE worker.poll
    <3>1. /\ db.box[w].sid /\ made[w] = 1
      BY <1>1, <1>3, <2>1 DEF RowInv
    <3> QED
      BY <1>1, <1>6, <1>8, <2>1, <3>1 DEF RowInv, Settled, sid
  <2>2. CASE ~worker.poll
    <3>1. final = "queued" => db.box[w].attempts < RetryLimit
      BY <1>2, <1>7, <2>2, BoundsAssumption DEF Row
    <3> QED
      BY <1>1, <1>7, <1>8, <2>2, <3>1 DEF RowInv, Settled, sid
  <2> QED
    BY <2>1, <2>2
<1>17. ASSUME NEW r \in Revs PROVE RowInv(r)'
  <2>1. CASE r = w
    BY <1>4, <1>10, <1>11, <1>12, <1>16, <2>1 DEF RowInv
  <2>2. CASE r # w
    BY <1>10, <1>11, <1>12, <2>2 DEF IInv, RowInv
  <2> QED
    BY <2>1, <2>2
<1>18. JobInv'
  BY <1>13 DEF JobInv
<1>19. IInv'
  BY <1>14, <1>15, <1>17, <1>18 DEF IInv
<1> QED
  BY <1>1, <1>3, <1>4, <1>6, <1>7, <1>8, <1>10, <1>11, <1>12, <1>19

\* A failed second write preserves the inductive invariant.
LEMMA RecordFailsStep ==
  ASSUME IInv, RecordFails
  PROVE  IInv'
<1>1. worker' \in Worker /\ worker'.pc = "idle"
  BY DEF IInv, TypeOK, RecordFails, Worker, NoOutcome, Outcome
<1>2. TypeOK' /\ DatabaseInv(db)'
  BY <1>1 DEF IInv, TypeOK, RecordFails
<1>3. \A r \in Revs : RowInv(r)'
  BY DEF IInv, RecordFails, RowInv
<1> QED
  BY <1>1, <1>2, <1>3 DEF IInv, JobInv

\* A crash, with a request in flight or not, preserves the inductive invariant.
LEMMA CrashStep ==
  ASSUME IInv, Crash
  PROVE  /\ IInv' /\ db' = db
         /\ \/ made' = made
            \/ /\ worker.rev \in Revs /\ db.box[worker.rev].state = "sending"
               /\ db.owner[worker.rev] # None
               /\ made[worker.rev] = 0 /\ made' = [made EXCEPT ![worker.rev] = 1]
<1>1. /\ worker \in Worker /\ worker.rev \in Revs /\ worker.poll \in BOOLEAN
      /\ made \in [Revs -> Nat] /\ crashes \in 0..MaxCrashes /\ crashes < MaxCrashes
      /\ db' = db /\ crashes' = crashes + 1 /\ JobInv /\ RowInv(worker.rev)
  BY DEF IInv, TypeOK, Worker, Crash
<1>2. PICK n \in IF Posting THEN {0, 1} ELSE {0} : made' = [made EXCEPT ![worker.rev] = @ + n]
  BY DEF Crash
<1>3. Posting => ~worker.poll /\ worker.pc = "http"
  BY <1>1 DEF Posting, JobInv, RowInv
<1>4. Posting => /\ made[worker.rev] = 0 /\ db.box[worker.rev].state = "sending"
                 /\ db.owner[worker.rev] # None
  BY <1>1, <1>3 DEF JobInv, IInv, DatabaseInv, RowsAreOwned
<1>5. /\ made' \in [Revs -> Nat] /\ made'[worker.rev] = made[worker.rev] + n
      /\ \A r \in Revs : r # worker.rev => made'[r] = made[r]
  BY <1>1, <1>2
<1>6. \/ made' = made
      \/ /\ worker.rev \in Revs /\ db.box[worker.rev].state = "sending"
         /\ db.owner[worker.rev] # None
         /\ made[worker.rev] = 0 /\ made' = [made EXCEPT ![worker.rev] = 1]
  <2>1. CASE n = 0
    <3>1. [made EXCEPT ![worker.rev] = @ + 0] = made
      BY <1>1
    <3> QED
      BY <1>2, <2>1, <3>1
  <2>2. CASE n # 0
    <3>1. Posting /\ n = 1
      BY <1>2, <2>2
    <3>2. made[worker.rev] + n = 1
      BY <1>4, <3>1
    <3> QED
      BY <1>1, <1>2, <1>4, <3>1, <3>2
  <2> QED
    BY <2>1, <2>2
<1>7. worker' \in Worker /\ worker'.pc = "down"
  BY <1>1 DEF Crash, Worker, NoOutcome, Outcome
<1>8. crashes' \in 0..MaxCrashes
  BY <1>1, ReportsAssumption
<1>9. TypeOK'
  BY <1>1, <1>5, <1>7, <1>8 DEF IInv, TypeOK
<1>10. ASSUME NEW r \in Revs PROVE RowInv(r)'
  <2>1. CASE made' = made
    BY <1>1, <2>1 DEF IInv, RowInv
  <2>2. CASE r = worker.rev /\ made' # made
    BY <1>1, <1>5, <1>6, <2>2 DEF IInv, RowInv
  <2>3. CASE r # worker.rev
    BY <1>1, <1>5, <2>3 DEF IInv, RowInv
  <2> QED
    BY <2>1, <2>2, <2>3
<1>11. IInv'
  BY <1>1, <1>7, <1>9, <1>10 DEF IInv, JobInv
<1> QED
  BY <1>1, <1>6, <1>11

\* recover, at the start of run, preserves the inductive invariant.
LEMMA StartStep ==
  ASSUME IInv, NEW client \in BOOLEAN, Start(client)
  PROVE  /\ IInv' /\ db'.owner = db.owner /\ made' = made
         /\ \A r \in Revs : \/ db'.box[r] = db.box[r]
                            \/ /\ db.box[r].state = "sending" /\ db.owner[r] # None
                               /\ db'.box[r].state = "uncertain"
<1> DEFINE box == [r \in Revs |-> IF db.box[r].state = "sending"
                                  THEN [db.box[r] EXCEPT !.state = "uncertain"]
                                  ELSE db.box[r]]
<1>1. db \in Database /\ DatabaseInv(db) /\ worker \in Worker
  BY DEF IInv, TypeOK
<1>2. ASSUME NEW r \in Revs
      PROVE  /\ box[r] \in Row
             /\ \/ box[r] = db.box[r]
                \/ db.box[r].state = "sending" /\ box[r].state = "uncertain"
  <2>1. db.box[r] \in Row
    BY <1>1, Parts
  <2> QED
    BY <2>1 DEF Row, Settled
<1>3. box \in [Revs -> Row]
  BY <1>2
<1>4. db' = [db EXCEPT !.box = box]
  BY DEF Start
<1> HIDE DEF box
<1>5. /\ db' \in Database /\ db'.box = box /\ db'.ep = db.ep
      /\ db'.owner = db.owner /\ db'.enabled = db.enabled /\ db'.setrev = db.setrev
      /\ db'.nextEp = db.nextEp /\ db'.nextRev = db.nextRev
  BY <1>1, <1>3, <1>4 DEF Database
<1>6. \A r \in Revs : \/ db'.box[r] = db.box[r]
                     \/ /\ db.box[r].state = "sending" /\ db.owner[r] # None
                        /\ db'.box[r].state = "uncertain"
  BY <1>1, <1>2, <1>5 DEF DatabaseInv, RowsAreOwned
<1>7. DatabaseInv(db)'
  BY <1>1, <1>5, <1>6 DEF DatabaseInv, Fresh, OwnRevisions, RowsAreOwned,
                          MutedIsUnannounced, IntentIsCurrent
<1>8. worker' \in Worker /\ worker'.pc = "idle" /\ made' = made /\ crashes' = crashes
  BY <1>1 DEF Start, Worker
<1>9. TypeOK'
  BY <1>5, <1>8 DEF IInv, TypeOK
<1>10. \A r \in Revs : RowInv(r)'
  BY <1>5, <1>6, <1>8 DEF IInv, RowInv
<1> QED
  BY <1>5, <1>6, <1>7, <1>8, <1>9, <1>10 DEF IInv, JobInv

-----------------------------------------------------------------------------
(* The invariant, and the properties that follow from it.                  *)

\* IInv is inductive: one step per action of Next.
LEMMA NextKeepsIInv == IInv /\ [Next]_vars => IInv'
<1> SUFFICES ASSUME IInv, [Next]_vars PROVE IInv'
  OBVIOUS
<1>1. ASSUME NEW c \in Reports, Ingest(c) PROVE IInv'
  BY <1>1, IngestStep
<1>2. CASE ReconcileAny
  BY <1>2, ReconcileStep DEF ReconcileAny
<1>3. ASSUME NEW e \in EpIds, AcknowledgeEpisode(e) PROVE IInv'
  BY <1>3, AcknowledgeStep
<1>4. ASSUME NEW enabled \in BOOLEAN, ChangeSettings(enabled) PROVE IInv'
  BY <1>4, SettingsStep
<1>5. CASE Tick
  BY <1>5, TickStep
<1>6. CASE WorkerStep
  BY <1>6, ClaimStep
<1>7. ASSUME NEW o \in Outcome, Respond(o) PROVE IInv'
  BY <1>7, RespondStep
<1>8. CASE Record
  BY <1>8, RecordStep
<1>9. CASE RecordFails
  BY <1>9, RecordFailsStep
<1>10. CASE Crash
  BY <1>10, CrashStep
<1>11. ASSUME NEW client \in BOOLEAN, Start(client) PROVE IInv'
  BY <1>11, StartStep
<1>12. CASE UNCHANGED vars
  <2>1. db' = db /\ worker' = worker /\ made' = made /\ crashes' = crashes
    BY <1>12 DEF vars
  <2> QED
    BY <2>1 DEF IInv, TypeOK, RowInv, JobInv
<1> QED
  BY <1>1, <1>2, <1>3, <1>4, <1>5, <1>6, <1>7, <1>8, <1>9, <1>10, <1>11, <1>12 DEF Next

\* Every reachable state of the outbox, the episodes and the worker satisfies the
\* inductive invariant.
THEOREM Invariance == Spec => []IInv
<1>1. Init => IInv
  BY InitIInv
<1>2. IInv /\ [Next]_vars => IInv'
  BY NextKeepsIInv
<1> QED
  BY <1>1, <1>2, PTL DEF Spec

\* Every variable keeps its type: no attempt beyond the retry limit, no episode or
\* revision that was not allocated.
THEOREM TypeCorrect == Spec => []TypeOK
<1>1. IInv => TypeOK
  BY DEF IInv
<1> QED
  BY <1>1, Invariance, PTL

\* No transition is announced by two messages, for any number of transitions, outbox
\* bound, retry limit and crashes.
THEOREM AnnouncedOnce == Spec => []AtMostOneMessage
<1>1. IInv => AtMostOneMessage
  BY DEF IInv, RowInv, AtMostOneMessage
<1> QED
  BY <1>1, Invariance, PTL

\* A pending admission intent is never stale, whatever handler ran since it was left.
THEOREM IntentsAreCurrent == Spec => []PendingIntentIsCurrent
<1>1. IInv => PendingIntentIsCurrent
  BY DEF IInv, DatabaseInv, IntentIsCurrent, PendingIntents, PendingIntentIsCurrent
<1> QED
  BY <1>1, Invariance, PTL

-----------------------------------------------------------------------------
(* The refinement of Delivery.                                             *)

\* The abstract phase of a transition is a phase of Delivery.
LEMMA PhaseTypes ==
  ASSUME NEW d, NEW r
  PROVE  Phase(d, r) \in Promise!Phases
BY DEF Phase, Active, Promise!Phases

\* What a handler does to a row is a housekeeping move of Delivery.
LEMMA PhaseMoves ==
  ASSUME NEW d, NEW n, NEW r \in Revs, RowMove(d, n, r) \/ GivenUp(d, n, r)
  PROVE  Phase(n, r) = Phase(d, r) \/ <<Phase(d, r), Phase(n, r)>> \in Promise!Moves
BY DEF RowMove, GivenUp, Phase, Active, Settled, Promise!Moves

\* A step that changes rows only as RowMove allows is a Housekeep step of Delivery.
LEMMA HandlersKeepThePromise ==
  ASSUME Kept(db, db'), made' = made
  PROVE  Promise!Next
<1>1. \A r \in Revs : \/ Phase(db', r) = Phase(db, r)
                     \/ <<Phase(db, r), Phase(db', r)>> \in Promise!Moves
  BY PhaseMoves DEF Kept, RowsMove
<1>2. Promise!Housekeep
  BY <1>1, PhaseTypes DEF Promise!Housekeep
<1> QED
  BY <1>2 DEF Promise!Next

\* Every step of Next is a step of Delivery or a stutter of it.
LEMMA StepKeepsThePromise ==
  IInv /\ IInv' /\ [Next]_vars =>
    [Promise!Next]_<<[r \in Revs |-> Phase(db, r)], made>>
<1> DEFINE phase == [r \in Revs |-> Phase(db, r)]
<1> SUFFICES ASSUME IInv, IInv', [Next]_vars
             PROVE  Promise!Next \/ UNCHANGED <<phase, made>>
  OBVIOUS
<1>1. ASSUME NEW c \in Reports, Ingest(c) PROVE Promise!Next
  BY <1>1, IngestStep, HandlersKeepThePromise DEF Ingest
<1>2. CASE ReconcileAny
  BY <1>2, ReconcileStep, HandlersKeepThePromise DEF ReconcileAny, Reconcile
<1>3. ASSUME NEW e \in EpIds, AcknowledgeEpisode(e) PROVE Promise!Next
  BY <1>3, AcknowledgeStep, HandlersKeepThePromise DEF AcknowledgeEpisode
<1>4. ASSUME NEW enabled \in BOOLEAN, ChangeSettings(enabled) PROVE Promise!Next
  BY <1>4, SettingsStep, HandlersKeepThePromise DEF ChangeSettings
<1>5. CASE Tick
  <2>1. db'.owner = db.owner /\ \A r \in Revs : db'.box[r].state = db.box[r].state
    BY <1>5, TickStep
  <2>2. phase' = phase /\ made' = made
    BY <1>5, <2>1 DEF Tick, Phase
  <2> QED
    BY <2>2
<1>6. CASE WorkerStep
  <2>1. /\ Sweep(db) \in Database /\ DatabaseInv(Sweep(db))
        /\ \A r \in Revs : RowMove(db, Sweep(db), r) \/ GivenUp(db, Sweep(db), r)
    BY SweepKeeps DEF IInv, TypeOK
  <2>2. \A r \in Revs : \/ Phase(Sweep(db), r) = Phase(db, r)
                       \/ <<Phase(db, r), Phase(Sweep(db), r)>> \in Promise!Moves
    BY <2>1, PhaseMoves
  <2>3. made' = made
    BY <1>6 DEF WorkerStep, SweepOnly, ClaimSend, ClaimPoll
  <2>4. CASE db' = Sweep(db)
    <3>1. Promise!Housekeep
      BY <2>2, <2>3, <2>4, PhaseTypes DEF Promise!Housekeep
    <3> QED
      BY <3>1 DEF Promise!Next
  <2>5. ASSUME NEW r \in Revs, ClaimSend(r) PROVE Promise!Next
    <3> DEFINE s == Sweep(db)
    <3>1. /\ s.box[r].state = "queued" /\ s.box[r] \in Row /\ s.owner[r] # None
          /\ db' = [s EXCEPT !.box[r].state = "sending", !.box[r].attempts = @ + 1]
      BY <2>1, <2>5, Parts DEF ClaimSend, Sendable, DatabaseInv, RowsAreOwned
    <3> HIDE DEF s
    <3>2. /\ db'.owner = s.owner /\ db'.box[r].state = "sending"
          /\ \A u \in Revs \ {r} : db'.box[u] = s.box[u]
      BY <2>1, <3>1, Parts DEF Database, Row, s
    <3>3. Phase(db', r) = "sending" /\ \A u \in Revs \ {r} : Phase(db', u) = Phase(s, u)
      BY <3>1, <3>2 DEF Phase, Active
    <3>4. Phase(s, r) = "queued"
      BY <3>1 DEF Phase, Active
    <3>5. Phase(db, r) \in {"queued", "new"}
      BY <2>2, <3>4 DEF s, Promise!Moves
    <3>6. Promise!Send(r)
      BY <2>2, <2>3, <3>3, <3>5, PhaseTypes DEF Promise!Send, s
    <3> QED
      BY <3>6 DEF Promise!Next
  <2> QED
    BY <1>6, <2>4, <2>5 DEF WorkerStep, SweepOnly, ClaimPoll
<1>7. ASSUME NEW o \in Outcome, Respond(o) PROVE Promise!Next \/ UNCHANGED <<phase, made>>
  <2>1. PICK n \in Created(o) : made' = [made EXCEPT ![worker.rev] = @ + n]
    BY <1>7 DEF Respond
  <2>2. /\ worker.pc = "http" /\ db' = db /\ worker.rev \in Revs /\ made \in [Revs -> Nat]
        /\ worker.poll \in BOOLEAN /\ JobInv /\ RowInv(worker.rev) /\ n \in {0, 1}
    BY <1>7 DEF Respond, IInv, TypeOK, Worker, Created
  <2>3. phase' = phase
    BY <2>2
  <2>4. CASE n = 0
    <3>1. [made EXCEPT ![worker.rev] = @ + 0] = made
      BY <2>2
    <3> QED
      BY <2>1, <2>3, <2>4, <3>1
  <2>5. CASE n = 1
    <3>1. Posting
      BY <2>5 DEF Created
    <3>2. ~worker.poll
      BY <2>2, <3>1 DEF Posting, JobInv, RowInv
    <3>3. made[worker.rev] = 0 /\ db.box[worker.rev].state = "sending"
      BY <2>2, <3>2 DEF JobInv
    <3>4. db.owner[worker.rev] # None
      BY <2>2, <3>3 DEF IInv, DatabaseInv, RowsAreOwned
    <3>5. phase[worker.rev] = "sending"
      BY <2>2, <3>3, <3>4 DEF Phase, Active
    <3>6. made[worker.rev] + n = 1
      BY <2>5, <3>3
    <3>7. Promise!Create(worker.rev)
      BY <2>1, <2>3, <3>3, <3>5, <3>6 DEF Promise!Create
    <3> QED
      BY <2>2, <3>7 DEF Promise!Next
  <2> QED
    BY <2>2, <2>4, <2>5
<1>8. CASE Record
  <2> DEFINE w == worker.rev
  <2>1. /\ db'.owner = db.owner /\ made' = made
        /\ \A r \in Revs : r # w => db'.box[r] = db.box[r]
        /\ w \in Revs /\ db.owner[w] # None
        /\ worker.poll => /\ db.box[w].state = "accepted"
                          /\ db'.box[w].state \in {"accepted"} \cup Settled
        /\ ~worker.poll => /\ db.box[w].state = "sending"
                           /\ db'.box[w].state \in {"queued", "accepted"} \cup Settled
                           /\ db'.box[w].state = "queued" => made[w] = 0
                           /\ db'.box[w].state = "accepted" => made[w] = 1
    BY <1>8, RecordStep
  <2>2. \A r \in Revs : r # w => Phase(db', r) = Phase(db, r)
    BY <2>1 DEF Phase
  <2>3. ASSUME db'.box[w].state \in Settled PROVE Promise!Housekeep
    <3>1. Phase(db', w) = "settled" /\ Phase(db, w) \in {"sending", "accepted"}
      BY <2>1, <2>3 DEF Phase, Active, Settled
    <3>2. \A r \in Revs : \/ Phase(db', r) = Phase(db, r)
                         \/ <<Phase(db, r), Phase(db', r)>> \in Promise!Moves
      BY <2>2, <3>1 DEF Promise!Moves
    <3> QED
      BY <2>1, <3>2, PhaseTypes DEF Promise!Housekeep
  <2>4. ASSUME ~worker.poll, db'.box[w].state = "queued" PROVE Promise!Refuse(w)
    <3>1. Phase(db', w) = "queued" /\ Phase(db, w) = "sending"
      BY <2>1, <2>4 DEF Phase, Active
    <3>2. phase' = [phase EXCEPT ![w] = "queued"]
      BY <2>1, <2>2, <3>1
    <3> QED
      BY <2>1, <2>4, <3>1, <3>2 DEF Promise!Refuse
  <2>5. ASSUME ~worker.poll, db'.box[w].state = "accepted" PROVE Promise!Accept(w)
    <3>1. Phase(db', w) = "accepted" /\ Phase(db, w) = "sending"
      BY <2>1, <2>5 DEF Phase, Active
    <3>2. phase' = [phase EXCEPT ![w] = "accepted"]
      BY <2>1, <2>2, <3>1
    <3> QED
      BY <2>1, <2>5, <3>1, <3>2 DEF Promise!Accept
  <2>6. ASSUME worker.poll, db'.box[w].state = "accepted" PROVE UNCHANGED <<phase, made>>
    <3>1. Phase(db', w) = Phase(db, w)
      BY <2>1, <2>6 DEF Phase
    <3> QED
      BY <2>1, <2>2, <3>1
  <2> QED
    BY <2>1, <2>3, <2>4, <2>5, <2>6 DEF Promise!Next
<1>9. CASE RecordFails
  BY <1>9 DEF RecordFails
<1>10. CASE Crash
  <2>1. /\ db' = db
        /\ \/ made' = made
           \/ /\ worker.rev \in Revs /\ db.box[worker.rev].state = "sending"
              /\ db.owner[worker.rev] # None
              /\ made[worker.rev] = 0 /\ made' = [made EXCEPT ![worker.rev] = 1]
    BY <1>10, CrashStep
  <2>2. phase' = phase
    BY <2>1
  <2>3. CASE made' = made
    BY <2>2, <2>3
  <2>4. CASE made' # made
    <3>1. phase[worker.rev] = "sending"
      BY <2>1, <2>4 DEF Phase, Active
    <3>2. Promise!Create(worker.rev)
      BY <2>1, <2>2, <2>4, <3>1 DEF Promise!Create
    <3> QED
      BY <2>1, <2>4, <3>2 DEF Promise!Next
  <2> QED
    BY <2>3, <2>4
<1>11. ASSUME NEW client \in BOOLEAN, Start(client) PROVE Promise!Next
  <2>1. /\ db'.owner = db.owner /\ made' = made
        /\ \A r \in Revs : \/ db'.box[r] = db.box[r]
                           \/ /\ db.box[r].state = "sending" /\ db.owner[r] # None
                              /\ db'.box[r].state = "uncertain"
    BY <1>11, StartStep
  <2>2. \A r \in Revs : \/ Phase(db', r) = Phase(db, r)
                       \/ <<Phase(db, r), Phase(db', r)>> \in Promise!Moves
    BY <2>1 DEF Phase, Active, Promise!Moves
  <2>3. Promise!Housekeep
    BY <2>1, <2>2, PhaseTypes DEF Promise!Housekeep
  <2> QED
    BY <2>3 DEF Promise!Next
<1>12. CASE UNCHANGED vars
  BY <1>12 DEF vars
<1> QED
  BY <1>1, <1>2, <1>3, <1>4, <1>5, <1>6, <1>7, <1>8, <1>9, <1>10, <1>11, <1>12 DEF Next

\* The handlers, the worker and its crashes implement the promise of Delivery for every
\* value of the constants.
THEOREM KeepsThePromise == Spec => DeliveryPromise
<1>1. Init => Promise!Init
  BY DEF Init, Phase, Promise!Init
<1>2. IInv /\ IInv' /\ [Next]_vars =>
        [Promise!Next]_<<[r \in Revs |-> Phase(db, r)], made>>
  BY StepKeepsThePromise
<1> QED
  BY <1>1, <1>2, Invariance, PTL DEF Spec, DeliveryPromise, Promise!Spec
=============================================================================
