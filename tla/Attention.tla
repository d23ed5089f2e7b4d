----------------------------- MODULE Attention -----------------------------
(***************************************************************************)
(* The attention episodes of the server (server/src/attention.rs): one     *)
(* source key has at most one open episode; a transition of the episode    *)
(* (opening, a fresh change of severity, fresh recovery) gives it a new    *)
(* revision, clears the acknowledgement and notifies.                      *)
(*                                                                         *)
(* Two episodes of one USB disconnect are correlated: the second one is    *)
(* not notified, and takes the notification over if the first recovers     *)
(* while its row is still queued or pending.                               *)
(*                                                                         *)
(* observation_state, summary and the rest of the evidence are display     *)
(* data and are left out; a condition says whether it is fresh.            *)
(***************************************************************************)
EXTENDS Outbox

Condition == [key : Keys, status : {"open", "resolved", "interrupted"},
              sev : Severities, fresh : BOOLEAN, epoch : Epochs \cup {None}]

OpenEpisodes(d, key) ==
  {e \in EpIds : d.ep[e].status = "open" /\ d.ep[e].key = key}

\* Rows of attention_episodes.
Retained(d) == {e \in EpIds : d.ep[e].status \in {"open", "resolved"}}

\* ORDER BY first_seen_at, id LIMIT 1: episodes are numbered as they open.
First(S) == CHOOSE e \in S : \A f \in S : e <= f

\* The other open episodes that report the same disconnect of the same watch.
SameDisconnect(d, e, c) ==
  {f \in EpIds : /\ f # e /\ d.ep[f].status = "open"
                 /\ d.ep[f].key \in Presence \cup Removals
                 /\ d.ep[f].epoch = c.epoch}

\* The open, unacknowledged episodes that rely on e's notification.
Followers(d, e) ==
  {f \in EpIds : d.ep[f].status = "open" /\ ~d.ep[f].ack /\ d.ep[f].corr = e}

\* Mutant of AwaitsDelivery: any row of e counts, also one that was sent.
AwaitsAnyRow(d, e) == d.enabled /\ \E r \in Revs : d.box[r].ep = e /\ d.box[r].state # "absent"

\* e has a notification that is still waiting under the current settings.
AwaitsDelivery(d, e) ==
  /\ d.enabled
  /\ \/ \E r \in Revs : /\ d.box[r].ep = e /\ d.box[r].state = "queued"
                        /\ d.box[r].setrev = d.setrev
     \/ /\ d.ep[e].intent.state = "pending"
        /\ d.ep[e].intent.setrev = d.setrev
        /\ d.ep[e].intent.age < MaxAge

-----------------------------------------------------------------------------
(* Recovery: withdraw what e still has waiting, and hand it to a follower. *)

TransferOf(d, e, f) ==
  [from |-> e, setrev |-> d.setrev, age |-> 0, epoch |-> d.ep[f].epoch]

\* Mutant of HandOver: a USB presence gives up its correlation at once.
HandOverForgets(d, e) ==
  LET f == First(Followers(d, e))
  IN IF Followers(d, e) = {} THEN d
     ELSE [d EXCEPT !.ep[f] = [@ EXCEPT !.corr = None,
                                        !.tp = TransferOf(d, e, f)],
                    !.relieved = @ \cup {e}]

\* A USB presence must be observed again before it may redeem the transfer; a
\* physical removal is a committed event and is notified at once.
HandOver(d, e) ==
  LET f == First(Followers(d, e))
      taken == [d EXCEPT !.ep[f] = [@ EXCEPT !.corr = None, !.from = e],
                         !.relieved = @ \cup {e}]
  IN IF Followers(d, e) = {} THEN d
     ELSE IF d.ep[f].key \in Presence
     THEN [d EXCEPT !.ep[f] = [@ EXCEPT !.tp = TransferOf(d, e, f)],
                    !.relieved = @ \cup {e}]
     ELSE Admit(taken, f, d.ep[f].rev)

Closed(d, e) ==
  [d EXCEPT !.ep[e] = [@ EXCEPT !.status = "resolved", !.rev = d.nextRev, !.ack = FALSE,
                                !.epoch = None, !.corr = None, !.tp = None,
                                !.from = None],
            !.nextRev = @ + 1]

\* Mutant of Recover: what still waits is asked for after it was withdrawn.
RecoverAsksLate(d, e) ==
  LET withdrawn == SuppressQueued(CancelIntent(Closed(d, e), {e}), {e})
  IN IF AwaitsDelivery(withdrawn, e) THEN HandOver(withdrawn, e) ELSE withdrawn

\* Mutant of Recover: a pending intent survives the recovery.
RecoverKeepsIntent(d, e) == SuppressQueued(Closed(d, e), {e})

Recover(d, e) ==
  LET withdrawn == SuppressQueued(CancelIntent(Closed(d, e), {e}), {e})
  IN IF AwaitsDelivery(d, e) THEN HandOver(withdrawn, e) ELSE withdrawn

-----------------------------------------------------------------------------
(* An open condition, or one that is not fresh: e is open afterwards.      *)

\* A fresh change of severity; one that only became stale is no transition.
Transition(d, e, c) == c.fresh /\ d.ep[e].sev # c.sev

\* The transition that opens e or changes its severity: a new revision, notified unless
\* another open episode reports the same disconnect.
Reopen(d, e, c) ==
  LET old == d.ep[e]
      current == old.status = "open"
      sev == IF current /\ ~c.fresh THEN old.sev ELSE c.sev
      related == IF c.key \in Presence \cup Removals /\ c.epoch # None
                 THEN SameDisconnect(d, e, c) ELSE {}
      corr == IF related = {} THEN None ELSE First(related)
      seen == [d EXCEPT
                !.ep[e] = [old EXCEPT !.key = c.key, !.status = "open", !.sev = sev,
                                      !.rev = d.nextRev, !.ack = FALSE,
                                      !.epoch = c.epoch, !.corr = corr, !.tp = None,
                                      !.from = None],
                !.nextRev = @ + 1,
                !.nextEp = IF e = @ THEN @ + 1 ELSE @]
      told == CancelIntent(seen, {e})
  IN IF corr = None /\ sev \in {"warning", "critical"}
     THEN Admit(told, e, d.nextRev) ELSE told

\* A transfer is redeemed by a fresh open observation of the same connection.
Redeems(d, e, c) ==
  LET tp == d.ep[e].tp
  IN /\ tp # None /\ c.fresh /\ c.status = "open" /\ ~d.ep[e].ack
     /\ tp.epoch = c.epoch /\ tp.age < MaxAge
     /\ d.enabled /\ tp.setrev = d.setrev

Refresh(d, e, c) ==
  LET sev == IF c.fresh THEN c.sev ELSE d.ep[e].sev
      seen == [d EXCEPT !.ep[e] = [@ EXCEPT !.sev = sev, !.epoch = c.epoch]]
      redeemed == [d EXCEPT !.ep[e] = [@ EXCEPT !.sev = sev, !.epoch = c.epoch,
                                                !.tp = None, !.corr = None,
                                                !.from = d.ep[e].tp.from]]
  IN IF Redeems(d, e, c) THEN Admit(redeemed, e, d.ep[e].rev) ELSE seen

\* observe_condition
Observe(d, c) ==
  LET open == OpenEpisodes(d, c.key)
      e == IF open = {} THEN d.nextEp ELSE First(open)
  IN IF open = {} /\ c.status # "open" THEN d
     ELSE IF open = {} /\ Cardinality(Retained(d)) >= MAX_EPISODES
     THEN [d EXCEPT !.limited = TRUE]
     ELSE IF open # {} /\ c.status = "resolved" /\ c.fresh THEN Recover(d, e)
     ELSE IF open = {} \/ Transition(d, e, c) THEN Reopen(d, e, c)
     ELSE Refresh(d, e, c)

-----------------------------------------------------------------------------
Noted(d, e) ==
  [d EXCEPT !.ep[e] = [@ EXCEPT !.ack = TRUE, !.rev = d.nextRev], !.nextRev = @ + 1,
            !.relieved = @ \cup {e}]

\* Mutant of Acknowledge: only the rows are suppressed.
AcknowledgeRows(d, e) == SuppressQueued(Noted(d, e), {e})

\* acknowledge, with the current revision of an open episode (409 otherwise).
Acknowledge(d, e) == SuppressQueued(CancelIntent(Noted(d, e), {e}), {e})

\* The head of reconcile: 30-day retention of settled rows (rs) and of resolved
\* episodes without rows (es), the limit flag, and the pending intents' first turn.
Retain(d, rs, es) ==
  RetryPending([d EXCEPT
    !.box = [r \in Revs |-> IF r \in rs THEN NoRow ELSE d.box[r]],
    !.ep = [e \in EpIds |-> IF e \in es THEN [d.ep[e] EXCEPT !.status = "deleted"]
                            ELSE d.ep[e]],
    !.limited = FALSE])

\* updated_at is 30 days ago: created_at is at least as old.
Forgettable(d) == {r \in Evictable(d) : d.box[r].age = MaxAge}
Unreferenced(d, rs) ==
  {e \in EpIds : d.ep[e].status = "resolved" /\ \A r \in Rows(d) \ rs : d.box[r].ep # e}

\* The tail of reconcile: pending intents again, then the flag.
Reconciled(d) ==
  LET retried == RetryPending(d)
      full == \/ Cardinality(Retained(retried)) >= MAX_EPISODES
              \/ Cardinality({r \in Revs : retried.box[r].state \in Active}) >= MAX_OUTBOX
  IN [retried EXCEPT !.limited = @ \/ full]
=============================================================================
