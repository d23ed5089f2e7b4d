--------------------------- MODULE Notifications ---------------------------
(***************************************************************************)
(* The notification worker of the server (server/src/notifications.rs)     *)
(* beside the handlers that change attention episodes and settings.        *)
(*                                                                         *)
(* A worker step commits a claim, leaves the transaction and the writer    *)
(* lock, does the HTTP request, takes the lock again and records the       *)
(* outcome.  The handlers and a crash interleave between the three.  The   *)
(* provider may create a message although the worker never learns of it.   *)
(***************************************************************************)
EXTENDS Attention

CONSTANTS
  Reports,      \* the conditions an ingested heartbeat may report
  Batches,      \* pairs of conditions one reconciliation observes in turn
  MaxConfig,    \* bound: configuration changes
  MaxCrashes    \* bound: crashes of the server

ASSUME ReportsAssumption ==
  /\ Reports \subseteq Condition /\ Batches \subseteq Condition \X Condition
  /\ MaxConfig \in Nat /\ MaxCrashes \in Nat

\* Both observers of a disconnect report it as a warning, whatever they see: device_watch.rs
\* 391, cider_api.rs 364 and 387.
ASSUME DisconnectAssumption ==
  \A c \in Reports \cup {b[1] : b \in Batches} \cup {b[2] : b \in Batches} :
    c.key \in Presence \cup Removals => c.sev = "warning"

VARIABLES
  db,       \* the database: everything that survives a crash
  worker,   \* the worker's program counter and the job it holds
  made,     \* history: messages the provider created for each transition
  crashes   \* crashes so far

vars == <<db, worker, made, crashes>>

\* What Twilio::request returns: a state and whether it carries a message sid.
Outcome == [state : {"queued", "failed", "uncertain"}, sid : {FALSE}]
           \cup [state : {"accepted", "delivered", "failed", "uncertain"}, sid : {TRUE}]
Worker == [pc : {"down", "idle", "http", "record"}, client : BOOLEAN,
           rev : Revs, poll : BOOLEAN, outcome : Outcome]
NoOutcome == [state |-> "uncertain", sid |-> FALSE]

Init ==
  /\ db = [ep |-> [e \in EpIds |->
             [key |-> CHOOSE k \in Keys : TRUE, status |-> "unused", sev |-> "info",
              rev |-> 1, ack |-> FALSE, epoch |-> None, corr |-> None, tp |-> None,
              from |-> None, intent |-> NoIntent]],
           box |-> [r \in Revs |-> NoRow], enabled |-> FALSE, setrev |-> 0,
           limited |-> FALSE, nextEp |-> 1, nextRev |-> 1,
           owner |-> [r \in Revs |-> None], relieved |-> {}]
  /\ worker = [pc |-> "down", client |-> FALSE, rev |-> 1, poll |-> FALSE,
               outcome |-> NoOutcome]
  /\ made = [r \in Revs |-> 0]
  /\ crashes = 0

-----------------------------------------------------------------------------
(* Handlers: one transaction each, under the writer lock.                  *)

\* The bounds on episodes and revisions: n observations may need n of each.
Room(n) == db.nextEp + n <= MaxEp + 1 /\ db.nextRev + n <= MaxRev + 1

\* A heartbeat or a device observation reports a condition.
Ingest(c) ==
  /\ Room(1)
  /\ db' = Observe(db, c)
  /\ UNCHANGED <<worker, made, crashes>>

\* attention::reconcile
Reconcile(batch, rs, es) ==
  /\ Room(2)
  /\ db' = Reconciled(Observe(Observe(Retain(db, rs, es), batch[1]), batch[2]))
  /\ UNCHANGED <<worker, made, crashes>>

AcknowledgeEpisode(e) ==
  /\ Room(1) /\ db.ep[e].status = "open"
  /\ db' = Acknowledge(db, e)
  /\ UNCHANGED <<worker, made, crashes>>

ChangeSettings(enabled) ==
  /\ db.setrev < MaxConfig
  /\ db' = Configure(db, enabled)
  /\ UNCHANGED <<worker, made, crashes>>

\* A day's fraction passes.  Only the age of what still waits, and of rows (their
\* eviction and retention), matters.
Older(x) == [x EXCEPT !.age = IF @ < MaxAge THEN @ + 1 ELSE @]
Tick ==
  /\ db' = [db EXCEPT
       !.box = [r \in Revs |-> IF db.box[r].state = "absent" THEN db.box[r]
                               ELSE Older(db.box[r])],
       !.ep = [e \in EpIds |-> [db.ep[e] EXCEPT
                 !.intent = IF @.state = "pending" THEN Older(@) ELSE @,
                 !.tp = IF @ = None THEN @ ELSE Older(@)]]]
  /\ UNCHANGED <<worker, made, crashes>>

-----------------------------------------------------------------------------
(* The worker: step, from its first lock to its second.                    *)

\* Nothing is due, or the credentials are missing: the step ends with the sweep.
SweepOnly ==
  /\ worker.pc = "idle"
  /\ db' = Sweep(db)
  /\ UNCHANGED <<worker, made, crashes>>

\* A due queued row is claimed: "sending" is committed before the request.
ClaimSend(r) ==
  LET swept == Sweep(db)
  IN /\ worker.pc = "idle" /\ worker.client
     /\ r \in Sendable(swept)
     /\ db' = [swept EXCEPT !.box[r].state = "sending",
                            !.box[r].attempts = @ + 1]
     /\ worker' = [worker EXCEPT !.pc = "http", !.rev = r, !.poll = FALSE]
     /\ UNCHANGED <<made, crashes>>

\* Otherwise a due accepted row is asked for its delivery status.
ClaimPoll(r) ==
  LET swept == Sweep(db)
  IN /\ worker.pc = "idle" /\ worker.client
     /\ swept.box[r].state = "accepted"
     /\ db' = swept
     /\ worker' = [worker EXCEPT !.pc = "http", !.rev = r, !.poll = TRUE]
     /\ UNCHANGED <<made, crashes>>

\* request() reads with GET only when the row has a sid; without one it posts.
Posting == worker.pc = "http" /\ ~(worker.poll /\ db.box[worker.rev].sid)

\* How many messages the provider may have created for a request with outcome o.
Created(o) ==
  IF ~Posting THEN {0}
  ELSE IF o.sid THEN {1}
  ELSE IF o.state = "uncertain" THEN {0, 1}
  ELSE {0}

\* The request returns: 429, a rejection, an ambiguous failure, or a sid.
Respond(o) ==
  /\ worker.pc = "http"
  /\ \E n \in Created(o) : made' = [made EXCEPT ![worker.rev] = @ + n]
  /\ worker' = [worker EXCEPT !.pc = "record", !.outcome = o]
  /\ UNCHANGED <<db, crashes>>

\* Mutant of Final: a 429 is retried for ever.
FinalRetries(poll, o, attempts) ==
  IF poll /\ o.state \in {"queued", "uncertain", "failed"} /\ ~o.sid THEN "accepted"
  ELSE o.state

\* Mutant of Final: a poll is treated like a send.
FinalForgetsPoll(poll, o, attempts) ==
  IF o.state = "queued" /\ attempts >= RetryLimit THEN "failed" ELSE o.state

\* A poll that learns nothing keeps the row accepted; a 429 past the retry limit fails.
Final(poll, o, attempts) ==
  IF poll /\ o.state \in {"queued", "uncertain", "failed"} /\ ~o.sid THEN "accepted"
  ELSE IF ~poll /\ o.state = "queued" /\ attempts >= RetryLimit THEN "failed"
  ELSE o.state

\* The outcome is written to the row by its id alone.
Record ==
  LET r == worker.rev
      row == db.box[r]
  IN /\ worker.pc = "record"
     /\ db' = IF row.state = "absent" THEN db
              ELSE [db EXCEPT
                !.box[r].state = Final(worker.poll, worker.outcome, row.attempts),
                !.box[r].sid = @ \/ worker.outcome.sid]
     /\ worker' = [worker EXCEPT !.pc = "idle", !.outcome = NoOutcome]
     /\ UNCHANGED <<made, crashes>>

\* The second write fails: the step returns an error and the loop goes on.
RecordFails ==
  /\ worker.pc = "record"
  /\ worker' = [worker EXCEPT !.pc = "idle", !.outcome = NoOutcome]
  /\ UNCHANGED <<db, made, crashes>>

\* The process dies; a request in flight may still reach the provider.
Crash ==
  /\ worker.pc # "down" /\ crashes < MaxCrashes
  /\ worker' = [worker EXCEPT !.pc = "down", !.outcome = NoOutcome]
  /\ \E n \in IF Posting THEN {0, 1} ELSE {0} :
       made' = [made EXCEPT ![worker.rev] = @ + n]
  /\ crashes' = crashes + 1
  /\ UNCHANGED db

\* run: recover, before the first step.  Credentials are read once.
Start(client) ==
  /\ worker.pc = "down"
  /\ db' = [db EXCEPT !.box = [r \in Revs |->
              IF db.box[r].state = "sending"
              THEN [db.box[r] EXCEPT !.state = "uncertain"] ELSE db.box[r]]]
  /\ worker' = [worker EXCEPT !.pc = "idle", !.client = client]
  /\ UNCHANGED <<made, crashes>>

-----------------------------------------------------------------------------
ReconcileAny ==
  \E batch \in Batches, rs \in SUBSET Forgettable(db) :
    \E es \in SUBSET Unreferenced(db, rs) : Reconcile(batch, rs, es)

WorkerStep ==
  \/ SweepOnly
  \/ \E r \in Revs : ClaimSend(r) \/ ClaimPoll(r)

Next ==
  \/ \E c \in Reports : Ingest(c)
  \/ ReconcileAny
  \/ \E e \in EpIds : AcknowledgeEpisode(e)
  \/ \E enabled \in BOOLEAN : ChangeSettings(enabled)
  \/ Tick
  \/ WorkerStep
  \/ \E o \in Outcome : Respond(o)
  \/ Record
  \/ RecordFails
  \/ Crash
  \/ \E client \in BOOLEAN : Start(client)

Spec == Init /\ [][Next]_vars

\* The worker's loop runs a step every five seconds, a request times out after ten,
\* the service is restarted after a crash, and time passes.
FairSpec ==
  /\ Spec
  /\ WF_vars(Tick)
  /\ WF_vars(WorkerStep)
  /\ WF_vars(\E o \in Outcome : Respond(o))
  /\ WF_vars(Record \/ RecordFails)
  /\ WF_vars(\E client \in BOOLEAN : Start(client))

-----------------------------------------------------------------------------
\* The database and the worker keep their types; with them, no row is posted more often
\* than the retry limit allows.
TypeOK ==
  /\ db \in Database
  /\ worker \in Worker
  /\ made \in [Revs -> Nat]
  /\ crashes \in 0..MaxCrashes

\* No transition is announced by two messages, whatever crashes, lost responses,
\* failed writes, evictions and retries happen (a POST is repeated only after 429).
AtMostOneMessage == \A r \in Revs : made[r] <= 1

\* A pending intent always announces what its episode currently is: open, not
\* acknowledged, at its current revision, under the current enabled settings, and
\* not yet in the outbox.  Every handler that ends one of these withdraws the intent.
PendingIntentIsCurrent ==
  \A e \in PendingIntents(db) :
    LET ep == db.ep[e]
    IN /\ ep.status = "open" /\ ~ep.ack
       /\ ep.intent.rev = ep.rev /\ db.owner[ep.rev] = None
       /\ db.enabled /\ ep.intent.setrev = db.setrev

\* admission_limited stays true while any intent waits (docs/operator-attention.md).
LimitedWhilePending == PendingIntents(db) # {} => db.limited

\* The outbox never holds more rows than its bound.
OutboxBounded == Cardinality(Rows(db)) <= MAX_OUTBOX

\* Under the settings in force x has a notification that should have been sent and that
\* nobody tried to send: a row that was withdrawn or never claimed, or an intent that was
\* withdrawn or still waits and has not expired.
Forgone(d, x) ==
  /\ d.enabled
  /\ \/ \E r \in Revs :
          /\ d.box[r].ep = x /\ d.box[r].setrev = d.setrev
          /\ \/ d.box[r].state = "suppressed"
             \/ d.box[r].state = "queued" /\ d.box[r].attempts = 0
     \/ /\ d.ep[x].intent.state \in {"pending", "suppressed"}
        /\ d.ep[x].intent.setrev = d.setrev /\ d.ep[x].intent.age < MaxAge

\* No open, unacknowledged warning is silenced by an admission, an eviction, a retry or a
\* recovery.  Its transition was admitted to the outbox or has an intent; or it relies on
\* an earlier episode of the same disconnect.  That one is open, and the same is asked of
\* it; or it has recovered, and then its notification waits to be handed over (or did, until
\* the offer expired), went to another concern that relied on it, was acknowledged, was
\* asked for by settings that have been changed since, or was claimed by the worker before
\* the recovery (it had left the queue).  The last case is where the code loses one: see
\* UndeliveredIsHandedOver.
NoConcernDropped ==
  \A e \in EpIds :
    LET ep == db.ep[e]
    IN ep.status = "open" /\ ~ep.ack /\ ep.sev \in {"warning", "critical"}
       => \/ db.owner[ep.rev] # None
          \/ ep.intent.state # "none" /\ ep.intent.rev = ep.rev
          \/ /\ ep.corr # None /\ ep.corr < e
             /\ \/ db.ep[ep.corr].status = "open"
                \/ ep.tp # None
                \/ ep.corr \in db.relieved
                \/ ~Forgone(db, ep.corr)

\* One disconnect is announced once, whichever of its two observations comes first and
\* whichever recovers: where a notification was taken over from a recovered episode, the
\* provider has not created a message for both.
OneMessagePerDisconnect ==
  \A e, f \in EpIds : db.ep[f].from = e =>
    \A r, s \in Revs : db.owner[r] = e /\ db.owner[s] = f => made[r] + made[s] <= 1

\* The bound never costs a notification that still matters: within their 24 hours a
\* queued row of an open episode and an accepted row stay, and so does a row a request
\* owns.
LiveRowsStay ==
  [][\A r \in Revs :
       LET row == db.box[r]
       IN \/ /\ row.state = "queued" /\ row.age < MaxAge
             /\ db'.ep[row.ep].status = "open"
          \/ row.state = "accepted" /\ row.age < MaxAge
          \/ row.state = "sending" /\ worker.pc \in {"http", "record"}
          => db'.box[r].state # "absent"]_vars

\* Every row of the outbox is settled in the end, also with missing credentials,
\* for an acknowledged or resolved episode and after a crash.
RowsSettle ==
  \A r \in Revs : db.box[r].state \in Active ~> db.box[r].state \notin Active

\* A pending intent is admitted, withdrawn or expires.
IntentsSettle ==
  \A e \in EpIds : e \in PendingIntents(db) ~> e \notin PendingIntents(db)

\* A comment in attention.rs says of the transfer: "If the first of two correlated
\* observations recovers before delivery, preserve its still-needed notification on
\* the other current concern".  So no recovered episode has an undelivered row in the
\* queue while another open, unacknowledged concern relies on it.
UndeliveredIsHandedOver ==
  \A e, f \in EpIds :
    /\ db.ep[e].status = "resolved" /\ f \in Followers(db, e)
    /\ db.ep[f].tp = None
    => ~\E r \in Revs : db.box[r].ep = e /\ db.box[r].state = "queued"

-----------------------------------------------------------------------------
(* The outbox implements the promise of Delivery.                          *)

Phase(d, r) == IF d.owner[r] = None THEN "new"
               ELSE IF d.box[r].state \in Active THEN d.box[r].state ELSE "settled"

Promise == INSTANCE Delivery
             WITH Transitions <- Revs, phase <- [r \in Revs |-> Phase(db, r)]

\* Every behaviour of the handlers, the worker and its crashes is one of Delivery: a row
\* leaves the queue for good unless the provider certainly refused it, and no claimed
\* or settled row is announced again.
DeliveryPromise == Promise!Spec

-----------------------------------------------------------------------------
(* The inductive invariant: first of the database alone, which every       *)
(* handler preserves, then of the worker's job.                            *)

\* Revisions and episodes not yet allocated are unused.
Fresh(d) ==
  /\ \A e \in EpIds : d.ep[e].status = "unused" <=> e >= d.nextEp
  /\ \A e \in EpIds : e >= d.nextEp =>
       d.ep[e].intent.state = "none" /\ d.ep[e].corr = None /\ d.ep[e].tp = None
  /\ \A e \in EpIds : e < d.nextEp => d.ep[e].rev < d.nextRev
  /\ \A r \in Revs : r >= d.nextRev => d.owner[r] = None

OwnRevisions(d) ==
  \A e, f \in EpIds : e < d.nextEp /\ f < d.nextEp /\ e # f => d.ep[e].rev # d.ep[f].rev

RowsAreOwned(d) == \A r \in Revs : d.owner[r] = None => d.box[r].state = "absent"

\* An episode that relies on another one's notification has none of its own.
MutedIsUnannounced(d) ==
  \A e \in EpIds : /\ d.ep[e].tp # None => d.ep[e].corr # None /\ d.ep[e].key \in Presence
                   /\ d.ep[e].corr # None => d.owner[d.ep[e].rev] = None

IntentIsCurrent(d, e) ==
  d.ep[e].intent.state = "pending" =>
    /\ d.ep[e].status = "open" /\ ~d.ep[e].ack
    /\ d.ep[e].intent.rev = d.ep[e].rev /\ d.owner[d.ep[e].rev] = None
    /\ d.enabled /\ d.ep[e].intent.setrev = d.setrev
    /\ d.ep[e].corr = None

DatabaseInv(d) ==
  /\ Fresh(d) /\ OwnRevisions(d) /\ RowsAreOwned(d) /\ MutedIsUnannounced(d)
  /\ \A e \in EpIds : IntentIsCurrent(d, e)

RowInv(r) ==
  LET row == db.box[r]
  IN /\ made[r] \in {0, 1}
     /\ db.owner[r] = None => made[r] = 0
     /\ row.state = "queued" => made[r] = 0 /\ row.attempts < RetryLimit
     /\ row.state = "accepted" => row.sid /\ made[r] = 1

\* The row of the job in hand is still as the claim left it.
JobInv ==
  LET row == db.box[worker.rev]
  IN /\ worker.pc \in {"http", "record"} =>
          row.state = IF worker.poll THEN "accepted" ELSE "sending"
     /\ worker.pc = "http" /\ ~worker.poll => made[worker.rev] = 0
     /\ worker.pc = "record" /\ ~worker.poll =>
          /\ worker.outcome.state = "queued" => made[worker.rev] = 0
          /\ worker.outcome.sid => made[worker.rev] = 1

IInv == /\ TypeOK
        /\ DatabaseInv(db)
        /\ \A r \in Revs : RowInv(r)
        /\ JobInv
=============================================================================
