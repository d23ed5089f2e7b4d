------------------------------- MODULE Outbox -------------------------------
(***************************************************************************)
(* The SMS outbox of the server (server/src/notifications.rs): the rows of *)
(* notification_outbox, the admission intents that wait on an episode when *)
(* the outbox is full, and the settings row.                               *)
(*                                                                         *)
(* The code changes them inside SQLite transactions that hold the writer   *)
(* lock, so each function of the code is an operator from a database to a  *)
(* database, and the functions that call others compose these operators.   *)
(* A database is a record:                                                 *)
(*   ep        attention_episodes, by episode number                       *)
(*   box       notification_outbox, by the revision of the transition it   *)
(*             announces.  transition_key is "episode:revision" and a      *)
(*             revision is a fresh UUID, so the revision names the row     *)
(*   enabled, setrev, limited   notification_settings                      *)
(*   nextEp, nextRev            the next fresh episode and revision UUIDs  *)
(*   owner     history: the episode whose transition a revision in the box *)
(*             announced, None for a revision that was never admitted      *)
(*   relieved  history: the episodes that an operator acknowledged, and    *)
(*             those whose waiting notification another concern took over  *)
(*                                                                         *)
(* Time is an age: 0..MaxAge days since created_at, saturating.  What is   *)
(* MaxAge old is older than the 24 hours after which the code gives up.    *)
(***************************************************************************)
EXTENDS Integers, FiniteSets

CONSTANTS
  Keys,          \* source keys of the conditions
  Presence,      \* the keys device_presence:<watch> of one USB watch
  Removals,      \* the keys drive_removal:<node>:<object> of its disks
  Epochs,        \* connection epochs of that watch
  None,          \* absence: SQL NULL, JSON null
  MaxEp,         \* bound: episodes ever opened
  MaxRev,        \* bound: revisions ever allocated
  MAX_OUTBOX,    \* rows the outbox holds (1000 in the code)
  MAX_EPISODES,  \* rows attention_episodes holds (10000 in the code)
  MaxAge,        \* age at which a row, an intent or a transfer has expired
  RetryLimit     \* POST attempts of one row (4 in the code)

EpIds == 1..MaxEp
Revs == 1..MaxRev
Ages == 0..MaxAge

ASSUME BoundsAssumption ==
  /\ MaxEp \in Nat \ {0} /\ MaxRev \in Nat \ {0}
  /\ MAX_OUTBOX \in Nat \ {0} /\ MAX_EPISODES \in Nat \ {0}
  /\ MaxAge \in Nat \ {0} /\ RetryLimit \in Nat \ {0}

ASSUME KeysAssumption ==
  /\ Keys # {} /\ Presence \subseteq Keys /\ Removals \subseteq Keys
  /\ Presence \cap Removals = {}
  /\ None \notin Epochs /\ None \notin Nat

Active == {"queued", "sending", "accepted"}
Settled == {"delivered", "failed", "uncertain", "suppressed"}
Severities == {"info", "warning", "critical"}

Row == [ep : EpIds, state : Active \cup Settled \cup {"absent"},
        attempts : 0..RetryLimit, age : Ages, setrev : Nat, sid : BOOLEAN]
Intent == [state : {"none", "pending", "suppressed", "failed"},
           rev : Revs, setrev : Nat, age : Ages]
Transfer == [from : EpIds, setrev : Nat, age : Ages, epoch : Epochs \cup {None}]
Episode == [key : Keys, status : {"unused", "open", "resolved", "deleted"},
            sev : Severities, rev : Revs, ack : BOOLEAN,
            epoch : Epochs \cup {None}, corr : EpIds \cup {None},
            tp : Transfer \cup {None}, from : EpIds \cup {None}, intent : Intent]
Database == [ep : [EpIds -> Episode], box : [Revs -> Row], enabled : BOOLEAN,
             setrev : Nat, limited : BOOLEAN, nextEp : 1..(MaxEp + 1),
             nextRev : 1..(MaxRev + 1), owner : [Revs -> EpIds \cup {None}],
             relieved : SUBSET EpIds]

\* Absence is no transfer.
ASSUME NoneAssumption == None \notin Transfer

NoIntent == [state |-> "none", rev |-> 1, setrev |-> 0, age |-> 0]
NoRow == [ep |-> 1, state |-> "absent", attempts |-> 0, age |-> 0, setrev |-> 0,
          sid |-> FALSE]

-----------------------------------------------------------------------------
Rows(d) == {r \in Revs : d.box[r].state # "absent"}

\* Mutant of Evictable: an accepted row is taken for settled.
EvictableAccepted(d) == {r \in Revs : d.box[r].state \in Settled \cup {"accepted"}}

\* Rows that admission may evict: everything but queued, sending and accepted.
Evictable(d) == {r \in Revs : d.box[r].state \in Settled}

\* ORDER BY created_at, id.  Ids are UUIDs: within an age the order is arbitrary.
OlderRow(d, r, s) == \/ d.box[r].age > d.box[s].age
                     \/ d.box[r].age = d.box[s].age /\ r < s

\* The n oldest evictable rows.
Oldest(d, n) ==
  {r \in Evictable(d) : Cardinality({s \in Evictable(d) : OlderRow(d, s, r)}) < n}

PendingIntents(d) == {e \in EpIds : d.ep[e].intent.state = "pending"}

\* cancel_intent on the episodes of S.
CancelIntent(d, S) ==
  [d EXCEPT !.ep = [e \in EpIds |->
     IF e \in S /\ d.ep[e].intent.state = "pending"
     THEN [d.ep[e] EXCEPT !.intent.state = "suppressed"]
     ELSE d.ep[e]]]

\* UPDATE ... SET state='suppressed' WHERE state='queued', for the rows of episodes S.
SuppressQueued(d, S) ==
  [d EXCEPT !.box = [r \in Revs |->
     IF d.box[r].ep \in S /\ d.box[r].state = "queued"
     THEN [d.box[r] EXCEPT !.state = "suppressed"]
     ELSE d.box[r]]]

NewRow(d, e, age) ==
  [NoRow EXCEPT !.ep = e, !.state = IF d.enabled THEN "queued" ELSE "suppressed",
                !.age = age, !.setrev = d.setrev]

Full(d) == Cardinality(Rows(d)) >= MAX_OUTBOX

\* Mutant of Defer: the flag is left to the next reconciliation.
DeferUnflagged(d, e, rev) ==
  [d EXCEPT !.ep[e].intent = [state |-> IF d.enabled THEN "pending" ELSE "suppressed",
                              rev |-> rev, setrev |-> d.setrev, age |-> 0]]

\* Nothing can be evicted: an intent on the episode waits for a row.
Defer(d, e, rev) ==
  [d EXCEPT !.ep[e].intent = [state |-> IF d.enabled THEN "pending" ELSE "suppressed",
                              rev |-> rev, setrev |-> d.setrev, age |-> 0],
            !.limited = @ \/ d.enabled]

\* A new row, in the place of the oldest settled one when the outbox is full.
Insert(d, e, rev) ==
  LET evicted == IF Full(d) THEN Oldest(d, 1) ELSE {}
  IN [d EXCEPT !.box = [r \in Revs |-> IF r = rev THEN NewRow(d, e, 0)
                                       ELSE IF r \in evicted THEN NoRow ELSE d.box[r]],
               !.ep[e].intent = NoIntent,
               !.owner[rev] = e]

\* admit: one transition into the outbox.
Admit(d, e, rev) ==
  IF d.box[rev].state # "absent"
  THEN [d EXCEPT !.ep[e].intent = IF @.rev = rev THEN NoIntent ELSE @]
  ELSE IF Full(d) /\ Evictable(d) = {} THEN Defer(d, e, rev)
  ELSE Insert(d, e, rev)

-----------------------------------------------------------------------------
(* retry_pending: the pending intents, oldest first.                       *)

\* Why a pending intent is withdrawn instead of admitted.
Withdrawn(d, e) ==
  LET intent == d.ep[e].intent
  IN \/ ~d.enabled \/ intent.setrev # d.setrev       \* configuration_changed
     \/ d.ep[e].status # "open"                      \* condition_resolved
     \/ d.ep[e].ack                                  \* acknowledged
     \/ intent.rev # d.ep[e].rev                     \* superseded

ExpiredIntent(d, e) == ~Withdrawn(d, e) /\ d.ep[e].intent.age = MaxAge

OlderIntent(d, e, f) == \/ d.ep[e].intent.age > d.ep[f].intent.age
                        \/ d.ep[e].intent.age = d.ep[f].intent.age /\ e < f

\* The pending intents that need a free row.
Wanting(d) ==
  {e \in PendingIntents(d) : /\ ~Withdrawn(d, e) /\ ~ExpiredIntent(d, e)
                             /\ d.box[d.ep[e].intent.rev].state = "absent"}

\* Mutant of Admissible: the loop does not stop when the outbox is full.
AdmissibleAll(d) == Wanting(d)

\* The loop stops at the first intent that finds neither a free nor an evictable row.
Admissible(d) ==
  {e \in Wanting(d) :
     Cardinality(Rows(d)) + Cardinality({f \in Wanting(d) : OlderIntent(d, f, e)})
       < MAX_OUTBOX + Cardinality(Evictable(d))}

\* Mutant of Reached: the pass is skipped while the outbox is full.
ReachedUnlessFull(d) == IF Full(d) THEN {} ELSE PendingIntents(d)

Reached(d) ==
  {e \in PendingIntents(d) : \A f \in Wanting(d) \ Admissible(d) : OlderIntent(d, e, f)}

RetryPending(d) ==
  LET admitted == Admissible(d) \cap Reached(d)
      rowOf(r) == {e \in admitted : d.ep[e].intent.rev = r}
      evicted == Oldest(d, Cardinality(Rows(d)) + Cardinality(admitted) - MAX_OUTBOX)
  IN [d EXCEPT
       !.ep = [e \in EpIds |->
          IF e \notin Reached(d) THEN d.ep[e]
          ELSE IF Withdrawn(d, e) THEN [d.ep[e] EXCEPT !.intent.state = "suppressed"]
          ELSE IF ExpiredIntent(d, e) THEN [d.ep[e] EXCEPT !.intent.state = "failed"]
          ELSE [d.ep[e] EXCEPT !.intent = NoIntent]],
       !.box = [r \in Revs |->
          IF rowOf(r) # {}
          THEN LET e == CHOOSE x \in rowOf(r) : TRUE
               IN NewRow(d, e, d.ep[e].intent.age)
          ELSE IF r \in evicted THEN NoRow ELSE d.box[r]],
       !.limited = @ \/ PendingIntents(d) \ Reached(d) # {},
       !.owner = [r \in Revs |-> IF rowOf(r) # {} THEN CHOOSE e \in rowOf(r) : TRUE
                                 ELSE d.owner[r]]]

-----------------------------------------------------------------------------
\* configure: a new settings revision withdraws everything still queued or pending.
Configure(d, enabled) ==
  [SuppressQueued(CancelIntent(d, EpIds), EpIds)
     EXCEPT !.enabled = enabled, !.setrev = @ + 1]

\* Mutant of Sweep: a claim whose outcome was not recorded is sent again.
SweepRequeues(d) ==
  RetryPending([d EXCEPT !.box = [r \in Revs |->
    IF d.box[r].state = "sending" THEN [d.box[r] EXCEPT !.state = "queued"]
    ELSE d.box[r]]])

\* Mutant of Sweep: queued rows do not expire.
SweepKeepsQueued(d) ==
  RetryPending([d EXCEPT !.box = [r \in Revs |->
    LET row == d.box[r]
    IN CASE row.state = "sending" -> [row EXCEPT !.state = "uncertain"]
         [] row.state = "accepted" /\ row.age = MaxAge -> [row EXCEPT !.state = "uncertain"]
         [] OTHER -> row]])

\* The start of every step of the worker: a claim that no step owns is uncertain,
\* rows past 24 hours are given up, and pending intents are retried.
Sweep(d) ==
  RetryPending([d EXCEPT !.box = [r \in Revs |->
    LET row == d.box[r]
    IN CASE row.state = "sending" -> [row EXCEPT !.state = "uncertain"]
         [] row.state = "queued" /\ row.age = MaxAge -> [row EXCEPT !.state = "failed"]
         [] row.state = "accepted" /\ row.age = MaxAge -> [row EXCEPT !.state = "uncertain"]
         [] OTHER -> row]])

\* The queued rows a step may claim for a send.
Sendable(d) ==
  {r \in Revs : /\ d.enabled /\ d.box[r].state = "queued"
                /\ d.box[r].setrev = d.setrev
                /\ d.ep[d.box[r].ep].status = "open"
                /\ ~d.ep[d.box[r].ep].ack}
=============================================================================
