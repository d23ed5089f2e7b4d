----------------------------- MODULE Ingestion -----------------------------
(***************************************************************************)
(* What the server keeps of one collector and what it does with a          *)
(* heartbeat (server/src/cider_api.rs).  The handler runs in one           *)
(* transaction under the writer lock, so it is an operator from a receiver *)
(* to a receiver and an answer.  A receiver is a record:                   *)
(*   gen, seq   generation and sequence of the last accepted heartbeat     *)
(*   inv        the inventory revision it holds of this generation, or 0   *)
(*   ver[e]     the last version accepted of entity e: the generation of   *)
(*              the heartbeat, the revision, and the value, Deleted for a  *)
(*              tombstone.  The graph holds e while its last version is a  *)
(*              value, and since the acquisition context of e is recorded  *)
(*              with its version, ver[e].gen is also its session           *)
(*   receipts   the heartbeats accepted, with their acknowledgements       *)
(*   projected[x]  the rows made of event x                                *)
(*   alarm[e]   the removal episode of device e: the session that observed *)
(*              the device, the session of the heartbeat, open or not      *)
(*                                                                         *)
(* A session is a fresh UUID made with its generation and a boot changes   *)
(* only with it, so the generation stands for all three.  Two heartbeats   *)
(* never share a sequence, so a receipt that matches has the fingerprint.  *)
(* created_at is checked against the server's clock: a heartbeat too late  *)
(* is one the network lost.  Collections are recorded and projected as     *)
(* events are, by the same two functions.                                  *)
(***************************************************************************)
EXTENDS Inventory

CONSTANTS
  Events,      \* event identifiers
  Removable,   \* physical devices and NFS mounts
  Deleted,     \* the value of a tombstone
  Never        \* an entity the server never heard of

ASSUME IngestionAssumption ==
  /\ Removable \subseteq Resources
  /\ Deleted # Never /\ {Deleted, Never} \cap Value = {}

Version == [gen : Nat, rev : Nat, val : Value \cup {Deleted, Never}]
Ack == [inv : Nat, request : BOOLEAN]
Alarm == [state : {"none", "open", "resolved"}, observed : Nat, session : Nat]

NewReceiver ==
  [gen |-> 0, seq |-> 0, inv |-> 0,
   ver |-> [e \in Entities |-> [gen |-> 0, rev |-> 0, val |-> Never]],
   receipts |-> {}, projected |-> [x \in Events |-> 0],
   alarm |-> [e \in Removable |-> [state |-> "none", observed |-> 0, session |-> 0]]]

Holds(srv, e) == srv.ver[e].val \notin {Deleted, Never}

-----------------------------------------------------------------------------
\* What heartbeat hb says of entity e: an upsert, a tombstone, or nothing.
Says(hb, e) == hb.included /\ (Present(hb.m, e) \/ Gone(hb.m, e))
SaidVersion(hb, e) ==
  [gen |-> hb.gen,
   rev |-> IF Present(hb.m, e) THEN hb.m.rec[e].rev ELSE hb.m.tomb[e],
   val |-> IF Present(hb.m, e) THEN hb.m.rec[e].val ELSE Deleted]

\* accept_version refuses: within a generation a revision may not go back,
\* nor come again with other content.
Conflicting(srv, hb, e) ==
  LET old == srv.ver[e] new == SaidVersion(hb, e) IN
  /\ Says(hb, e) /\ old.gen = new.gen
  /\ new.rev < old.rev \/ (new.rev = old.rev /\ new.val # old.val)

\* Mutant of Stale: only the generation is compared.
StaleGeneration(srv, hb) == hb.gen < srv.gen

\* Older generation, or no newer sequence of the same one.
Stale(srv, hb) == hb.gen < srv.gen \/ (hb.gen = srv.gen /\ hb.seq <= srv.seq)

Receipts(srv, hb) == {r \in srv.receipts : r.gen = hb.gen /\ r.seq = hb.seq}

\* The revision held for the generation of hb: a new generation starts over.
HeldRevision(srv, hb) == IF hb.gen > srv.gen THEN 0 ELSE srv.inv

\* Every link of a full heartbeat has its ends in it or in the graph.
Resolved(srv, hb) ==
  \A l \in Links : Says(hb, l) /\ Present(hb.m, l) =>
     \A r \in {From[l], To[l]} : Present(hb.m, r) \/ Holds(srv, r)

Refused(srv, hb) ==
  \/ Stale(srv, hb)
  \/ ~Resolved(srv, hb)
  \/ hb.rev < HeldRevision(srv, hb)
  \/ \E e \in Entities : Conflicting(srv, hb, e)

\* update_graph: a version of this generation that came before is skipped.
UpdateGraph(srv, hb) ==
  [e \in Entities |-> IF Says(hb, e) THEN SaidVersion(hb, e) ELSE srv.ver[e]]

\* Devices whose last version was accepted in the session of hb, and which hb
\* deletes (prior_devices, observe_drive_removals).
Removed(srv, hb) ==
  {e \in Removable : /\ Holds(srv, e) /\ srv.ver[e].gen = hb.gen
                     /\ Says(hb, e) /\ Gone(hb.m, e)}

\* Devices hb says are there, and whose version was accepted with it or before
\* in the session with the same date.
Returned(hb) == {e \in Removable : Says(hb, e) /\ Present(hb.m, e)}

\* observe_drive_removals, run when the graph changed.  A removal counts when
\* its tombstone is recent, a return when the record's observation is; an
\* episode that is open stays as it was, a resolved one opens again.
Alarms(srv, hb, recent) ==
  [e \in Removable |->
     IF recent /\ e \in Removed(srv, hb) /\ srv.alarm[e].state # "open"
     THEN [state |-> "open", observed |-> srv.ver[e].val.session, session |-> hb.gen]
     ELSE IF recent /\ e \in Returned(hb) /\ srv.alarm[e].state = "open"
     THEN [srv.alarm[e] EXCEPT !.state = "resolved"]
     ELSE srv.alarm[e]]

\* record, mark_projected: an event is projected once, and only while the
\* inventory it refers to is known.
Projected(srv, hb, known) ==
  [x \in Events |-> IF x \in hb.events /\ known /\ srv.projected[x] = 0 THEN 1
                    ELSE srv.projected[x]]

\* The receiver after hb was accepted.
Accepted(srv, hb, recent) ==
  LET inv == IF hb.included THEN hb.rev ELSE HeldRevision(srv, hb)
      ver == UpdateGraph(srv, hb)
      changed == hb.included /\ (ver # srv.ver \/ inv # HeldRevision(srv, hb))
      known == inv = hb.rev
      ack == [inv |-> inv, request |-> ~known]
  IN  [gen |-> hb.gen, seq |-> hb.seq, inv |-> inv, ver |-> ver,
       receipts |-> srv.receipts \cup {[gen |-> hb.gen, seq |-> hb.seq, ack |-> ack]},
       projected |-> Projected(srv, hb, known),
       alarm |-> IF changed THEN Alarms(srv, hb, recent) ELSE srv.alarm]

\* The handler: a heartbeat accepted before gets the answer it got then, one
\* that is refused changes nothing.
Receive(srv, hb, recent) ==
  IF Receipts(srv, hb) # {}
  THEN [srv |-> srv, ack |-> (CHOOSE r \in Receipts(srv, hb) : TRUE).ack]
  ELSE IF Refused(srv, hb) THEN [srv |-> srv, ack |-> None]
  ELSE LET next == Accepted(srv, hb, recent) IN
       [srv |-> next, ack |-> [inv |-> next.inv, request |-> next.inv # hb.rev]]

ReceiverType(srv) ==
  /\ srv.gen \in Nat /\ srv.seq \in Nat /\ srv.inv \in Nat
  /\ srv.ver \in [Entities -> Version]
  /\ \A r \in srv.receipts : r.gen \in Nat /\ r.seq \in Nat /\ r.ack \in Ack
  /\ srv.projected \in [Events -> Nat]
  /\ srv.alarm \in [Removable -> Alarm]
=============================================================================
