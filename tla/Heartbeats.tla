----------------------------- MODULE Heartbeats -----------------------------
(***************************************************************************)
(* One collector, the network and the server: ciderd/src/runtime.rs        *)
(* (Engine::start, state_owner, persist_metadata, the loop of              *)
(* run_with_worker), identity.rs, acknowledge, snapshot and prepare of     *)
(* state.rs, heartbeat.rs, and the handler of Ingestion.                   *)
(*                                                                         *)
(* The state owner handles one message at a time and publishes a snapshot  *)
(* after each, so the state seen by the heartbeat loop is the state        *)
(* between two messages and each message is one action.  Heartbeats are    *)
(* never sent twice by the collector; the network may lose one, delay it   *)
(* past later ones, or hand it over twice.                                 *)
(***************************************************************************)
EXTENDS Ingestion

CONSTANTS
  EventLimit,  \* events the buffer holds
  MaxGen,      \* bound: starts of the collector
  MaxSeq,      \* bound: heartbeats of one session
  Calm,        \* bound: no fault and no new observation after this sequence
  MaxNet,      \* bound: heartbeats in the network
  MaxFaults,   \* bound: faults of the network, of the limit and of the process
  MaxWork      \* bound: enumerations and inventory requests

ASSUME HeartbeatsAssumption ==
  /\ EventLimit \in Nat /\ MaxGen \in Nat /\ MaxSeq \in Nat /\ Calm \in Nat
  /\ MaxNet \in Nat /\ MaxFaults \in Nat /\ MaxWork \in Nat

VARIABLES
  gen,      \* agent_generation in the identity file
  disk,     \* inventory.json, None before it was first written
  pc,       \* "off", "opening" after the generation was taken, "on"
  inv,      \* the state owner's metadata and inventory revision
  iack,     \* inventory_ack, 0 for none
  events,   \* the buffer of events
  seq,      \* sequence of the last attempt
  waiting,  \* the sequence whose answer is awaited, 0 for none
  mailbox,  \* an acknowledgement on its way to the state owner, None for none
  unsaved,  \* the persistence task has metadata to write
  net,      \* heartbeats in the network
  srv,      \* the server's receiver
  raised,   \* history: events that have occurred
  lost,     \* history: events dropped by a full buffer or an ended session
  faults,   \* bound: faults so far
  work      \* bound: enumerations and inventory requests so far

durable == <<gen, disk>>
session == <<iack, events, seq, waiting, mailbox>>
world == <<raised, lost>>
vars == <<gen, disk, pc, inv, iack, events, seq, waiting, mailbox, unsaved, net, srv,
          raised, lost, faults, work>>

NoInventory == [m |-> [rec |-> [e \in Entities |-> NoRecord],
                       tomb |-> [e \in Entities |-> 0],
                       groups |-> [g \in {} |-> {}]],
                rev |-> 0]

Tombstones(m) == {e \in Entities : Gone(m, e)}

-----------------------------------------------------------------------------
(* Heartbeats                                                              *)

\* Mutant of Snapshot: over the limit the inventory is left out but the events
\* are kept.
SnapshotWithEvents(n, limited) ==
  LET included == iack # inv.rev /\ ~limited IN
  [gen |-> gen, seq |-> n, rev |-> inv.rev, included |-> included,
   m |-> IF included THEN [rec |-> inv.m.rec, tomb |-> inv.m.tomb]
         ELSE [rec |-> NoInventory.m.rec, tomb |-> NoInventory.m.tomb],
   events |-> events]

\* snapshot and prepare: the inventory is left out while its revision is
\* acknowledged; over the byte limit everything optional is.
Snapshot(n, limited) ==
  LET included == iack # inv.rev /\ ~limited IN
  [gen |-> gen, seq |-> n, rev |-> inv.rev, included |-> included,
   m |-> IF included THEN [rec |-> inv.m.rec, tomb |-> inv.m.tomb]
         ELSE [rec |-> NoInventory.m.rec, tomb |-> NoInventory.m.tomb],
   events |-> IF limited THEN {} ELSE events]

\* What may still go wrong, and what may still be observed.
Fault == faults < MaxFaults /\ (pc = "on" => seq <= Calm)
Work == work < MaxWork /\ seq <= Calm

-----------------------------------------------------------------------------
Init ==
  /\ gen = 0 /\ disk = None /\ pc = "off" /\ inv = NoInventory
  /\ iack = 0 /\ events = {} /\ seq = 0 /\ waiting = 0 /\ mailbox = None
  /\ unsaved = FALSE /\ net = {} /\ srv = NewReceiver
  /\ raised = {} /\ lost = {} /\ faults = 0 /\ work = 0

\* Session::open: the next generation is durable before anything is sent.
Open ==
  /\ pc = "off" /\ gen < MaxGen
  /\ gen' = gen + 1 /\ pc' = "opening"
  /\ UNCHANGED <<disk, inv, session, unsaved, net, srv, world, faults, work>>

\* Engine::start over the saved inventory.  Nothing is written before the
\* next change: the persistence task has already seen the initial value.
StartOver ==
  /\ pc = "opening" /\ disk # None
  /\ pc' = "on" /\ inv' = Restart(disk, gen)
  /\ UNCHANGED <<durable, session, unsaved, net, srv, world, faults, work>>

\* Engine::start of a new identity writes the inventory before it goes on.
StartFirst ==
  /\ pc = "opening" /\ disk = None /\ gen = 1
  /\ pc' = "on" /\ disk' = First.m /\ inv' = ConfiguredQuotas(First, gen)
  /\ UNCHANGED <<gen, session, unsaved, net, srv, world, faults, work>>

\* A later generation without a saved inventory is refused.
StartRefused ==
  /\ pc = "opening" /\ disk = None /\ gen > 1
  /\ pc' = "off"
  /\ UNCHANGED <<durable, inv, session, unsaved, net, srv, world, faults, work>>

-----------------------------------------------------------------------------
(* The state owner                                                         *)

\* The state owner tells the persistence task of a new revision or of a
\* different number of tombstones.
Changed(old, new) ==
  old.rev # new.rev \/ Cardinality(Tombstones(old.m)) # Cardinality(Tombstones(new.m))

\* Raise, or drop for want of room (State::event).
Buffer(x) ==
  /\ raised' = raised \cup {x}
  /\ IF Cardinality(events) < EventLimit
     THEN events' = events \cup {x} /\ lost' = lost
     ELSE events' = events /\ lost' = lost \cup {x}

\* A collector finished: an enumeration of group g is recorded
\* (scheduler::apply); one that is not is an event.
Enumerated(g, found, complete) ==
  /\ pc = "on" /\ Work
  /\ Owner[g] # None => Present(inv.m, Owner[g])
  /\ inv' = Enumerate(inv, g, found, gen, complete)
  /\ unsaved' = (unsaved \/ Changed(inv, inv'))
  /\ IF Accepts(inv, g, found, gen, complete)
     THEN UNCHANGED <<events, world>>
     ELSE \E x \in Events \ raised : Buffer(x)
  /\ work' = work + 1
  /\ UNCHANGED <<durable, pc, iack, seq, waiting, mailbox, net, srv, faults>>

\* Message::Event.
Raise(x) ==
  /\ pc = "on" /\ seq <= Calm /\ x \notin raised
  /\ Buffer(x)
  /\ UNCHANGED <<durable, pc, inv, iack, seq, waiting, mailbox, unsaved, net, srv, faults,
                 work>>

\* Message::ReconcileInventory, sent with every start of the disk inventory.
RequestInventory ==
  /\ pc = "on" /\ Work /\ iack # 0
  /\ iack' = 0 /\ work' = work + 1
  /\ UNCHANGED <<durable, pc, inv, events, seq, waiting, mailbox, unsaved, net, srv,
                 world, faults>>

\* Mutant of AckedRevision: what is acknowledged is taken to be the present
\* inventory.
AckedRevisionPresent(sent, ack) ==
  IF ack.request THEN 0 ELSE IF sent.included /\ ack.inv = sent.rev THEN inv.rev ELSE iack

AckedRevision(sent, ack) ==
  IF ack.request THEN 0 ELSE IF sent.included /\ ack.inv = sent.rev THEN ack.inv ELSE iack

\* Mutant of AckedTombstones: the tombstones that were sent are kept and the
\* others dropped.
AckedTombstonesSwapped(sent, ack) ==
  IF sent.included /\ ack.inv = sent.rev
  THEN [e \in Entities |-> IF inv.m.tomb[e] = sent.m.tomb[e] THEN inv.m.tomb[e] ELSE 0]
  ELSE inv.m.tomb

AckedTombstones(sent, ack) ==
  IF sent.included /\ ack.inv = sent.rev
  THEN [e \in Entities |-> IF inv.m.tomb[e] = sent.m.tomb[e] THEN 0 ELSE inv.m.tomb[e]]
  ELSE inv.m.tomb

\* Message::Ack (State::acknowledge): the answer belongs to this session,
\* since the loop only waits for its own.
HandleAck ==
  /\ pc = "on" /\ mailbox # None
  /\ iack' = AckedRevision(mailbox.sent, mailbox.ack)
  /\ inv' = [inv EXCEPT !.m.tomb = AckedTombstones(mailbox.sent, mailbox.ack)]
  /\ unsaved' = (unsaved \/ Changed(inv, inv'))
  /\ events' = events \ mailbox.sent.events
  /\ mailbox' = None
  /\ UNCHANGED <<durable, pc, seq, waiting, net, srv, world, faults, work>>

\* persist_metadata: one write of the latest metadata; a write that fails is
\* one that has not happened yet.
Persist ==
  /\ pc = "on" /\ unsaved
  /\ disk' = inv.m /\ unsaved' = FALSE
  /\ UNCHANGED <<gen, pc, inv, session, net, srv, world, faults, work>>

-----------------------------------------------------------------------------
(* The heartbeat loop, the network and the server                          *)

\* The loop is between two attempts.  Once calm, it waits its interval: the
\* state owner has handled the acknowledgement by then.
MaySend ==
  /\ pc = "on" /\ waiting = 0 /\ seq < MaxSeq /\ Cardinality(net) < MaxNet
  /\ seq >= Calm => mailbox = None

\* The attempt can only end without an answer.
Unanswered == ~\E hb \in net : hb.gen = gen /\ hb.seq = waiting
MayGiveUp == pc = "on" /\ waiting # 0 /\ (Unanswered \/ Fault)

\* One attempt, over the published snapshot, with a sequence of its own.
Send(limited) ==
  /\ MaySend
  /\ limited => Fault
  /\ seq' = seq + 1 /\ waiting' = seq'
  /\ net' = net \cup {Snapshot(seq', limited)}
  /\ faults' = IF limited THEN faults + 1 ELSE faults
  /\ UNCHANGED <<durable, pc, inv, iack, events, mailbox, unsaved, srv, world, work>>

\* The request times out, or its answer says no or is lost on the way.
GiveUp ==
  /\ MayGiveUp
  /\ waiting' = 0
  /\ faults' = IF Unanswered THEN faults ELSE faults + 1
  /\ UNCHANGED <<durable, pc, inv, iack, events, seq, mailbox, unsaved, net, srv, world,
                 work>>

\* The network loses a heartbeat.
Lose(hb) ==
  /\ hb \in net /\ Fault
  /\ net' = net \ {hb} /\ faults' = faults + 1
  /\ UNCHANGED <<durable, pc, inv, session, unsaved, srv, world, work>>

\* The server handles a heartbeat; the network may keep it to hand it over
\* again, and the answer reaches a collector that still waits for it unless
\* it is lost or the state owner's queue is full.
Deliver(hb, again, arrives, recent) ==
  LET done == Receive(srv, hb, recent)
      awaited == pc = "on" /\ hb.gen = gen /\ hb.seq = waiting
  IN
  /\ hb \in net
  /\ again \/ (awaited /\ done.ack # None /\ ~arrives) => Fault
  /\ srv' = done.srv
  /\ net' = IF again THEN net ELSE net \ {hb}
  /\ IF awaited /\ done.ack # None /\ arrives
     THEN /\ waiting' = 0
          /\ mailbox' = IF mailbox = None THEN [sent |-> hb, ack |-> done.ack] ELSE mailbox
     ELSE UNCHANGED <<waiting, mailbox>>
  /\ faults' = IF again \/ (awaited /\ done.ack # None /\ ~arrives)
               THEN faults + 1 ELSE faults
  /\ UNCHANGED <<durable, pc, inv, iack, events, seq, unsaved, world, work>>

-----------------------------------------------------------------------------
(* The end of a session                                                    *)

\* Mutant of Forget: the new session still waits for the old one's answer.
ForgetWaiting ==
  /\ pc' = "off" /\ inv' = NoInventory /\ iack' = 0 /\ events' = {}
  /\ seq' = 0 /\ waiting' = waiting /\ mailbox' = None /\ unsaved' = FALSE
  /\ lost' = lost \cup events
  /\ UNCHANGED <<durable, srv, raised, work>>

\* What a process that ends takes with it.
Forget ==
  /\ pc' = "off" /\ inv' = NoInventory /\ iack' = 0 /\ events' = {}
  /\ seq' = 0 /\ waiting' = 0 /\ mailbox' = None /\ unsaved' = FALSE
  /\ lost' = lost \cup events
  /\ UNCHANGED <<durable, srv, raised, work>>

\* The loop stops: one last heartbeat whose answer is not used.  Metadata
\* not written yet stays unwritten.
Stop ==
  /\ pc = "on" /\ Fault /\ seq < MaxSeq /\ Cardinality(net) < MaxNet
  /\ net' = net \cup {Snapshot(seq + 1, FALSE)}
  /\ faults' = faults + 1
  /\ Forget

Crash ==
  /\ pc \in {"opening", "on"} /\ Fault
  /\ faults' = faults + 1 /\ UNCHANGED net
  /\ Forget

-----------------------------------------------------------------------------
Next ==
  \/ Open \/ StartOver \/ StartFirst \/ StartRefused
  \/ \E g \in Groups \ {HostGroup, QuotaGroup, Derived}, complete \in BOOLEAN :
       \E ids \in SUBSET Reports[g] : \E found \in [ids -> Contents] :
         Enumerated(g, found, complete)
  \/ \E x \in Events : Raise(x)
  \/ RequestInventory \/ HandleAck \/ Persist
  \/ \E limited \in BOOLEAN : Send(limited)
  \/ GiveUp
  \/ \E hb \in net : Lose(hb)
  \/ \E hb \in net : \E again, arrives, recent \in BOOLEAN : Deliver(hb, again, arrives, recent)
  \/ Stop \/ Crash

Spec == Init /\ [][Next]_vars

\* Fairness: a start that can be made is made and ends, the tasks of the
\* collector run, and the network does not keep a heartbeat for ever.  Each
\* conjunct names the part of the step that the schedule is about.
Fairness ==
  /\ WF_gen(pc = "off" /\ gen < MaxGen /\ gen' = gen + 1)
  /\ WF_pc(pc = "opening" /\ pc' \in {"off", "on"})
  /\ WF_mailbox(mailbox # None /\ mailbox' = None)
  /\ WF_unsaved(unsaved /\ unsaved' = FALSE)
  /\ WF_seq(MaySend /\ seq' = seq + 1)
  /\ WF_waiting(MayGiveUp /\ waiting' = 0)
  /\ WF_net(\E hb \in net : net' = net \ {hb})

FairSpec == Spec /\ Fairness

-----------------------------------------------------------------------------
(* Properties                                                              *)

Heartbeat(hb) ==
  /\ hb.gen \in 1..MaxGen /\ hb.seq \in 1..MaxSeq /\ hb.rev \in Nat
  /\ hb.included \in BOOLEAN /\ hb.events \subseteq Events
  /\ hb.m.rec \in [Entities -> Record] /\ hb.m.tomb \in [Entities -> Nat]

\* Type invariant of the collector, the network and the server.
TypeOK ==
  /\ gen \in 0..MaxGen /\ pc \in {"off", "opening", "on"}
  /\ InventoryType(inv) /\ (disk # None => InventoryType([m |-> disk, rev |-> 0]))
  /\ iack \in Nat /\ events \subseteq Events /\ seq \in 0..MaxSeq /\ waiting \in {0, seq}
  /\ mailbox # None => Heartbeat(mailbox.sent) /\ mailbox.ack \in Ack
  /\ unsaved \in BOOLEAN /\ \A hb \in net : Heartbeat(hb)
  /\ ReceiverType(srv) /\ raised \subseteq Events /\ lost \subseteq raised

\* A heartbeat that is not late is never refused: restarts, lost answers and
\* overlapping reports never make the collector send a revision the server
\* has seen with other content, or an older one.
NoConflict ==
  \A hb \in net : ~Stale(srv, hb) => ~Refused(srv, hb)

\* Whatever the server learnt from this session is still in the collector's
\* inventory or has a tombstone waiting, until the server has let go of it:
\* an acknowledgement never makes the collector forget a deletion too early.
DeletionIntentKept ==
  pc = "on" => \A e \in Entities :
    Holds(srv, e) /\ srv.ver[e].gen = gen => Present(inv.m, e) \/ Gone(inv.m, e)

\* The collector leaves its inventory out of heartbeats only while the server
\* holds exactly that inventory of this session.
AcknowledgedIsHeld ==
  pc = "on" /\ iack = inv.rev =>
    /\ srv.gen = gen /\ srv.inv = inv.rev
    /\ \A e \in Entities :
         IF Present(inv.m, e)
         THEN srv.ver[e] = [gen |-> gen, rev |-> inv.m.rec[e].rev, val |-> inv.m.rec[e].val]
         ELSE Holds(srv, e) => srv.ver[e].gen < gen

\* An event leaves the buffer only when the server has made a row of it:
\* otherwise the buffer was full or the session ended.
EventsAccountedFor ==
  \A x \in raised : x \in events \/ x \in lost \/ srv.projected[x] = 1

\* What the server promises (module Telemetry), whatever the network does.
Promise == INSTANCE Telemetry WITH
  latest <- <<srv.gen, srv.seq>>,
  version <- [e \in Entities |-> <<srv.ver[e].gen, srv.ver[e].rev>>],
  rows <- srv.projected
TelemetryPromise == Promise!Spec

\* Once nothing goes wrong any more, the next attempts bring the server the
\* collector's inventory, and every pending deletion is acknowledged.
InSync ==
  /\ srv.gen = gen /\ srv.inv = inv.rev /\ Tombstones(inv.m) = {}
  /\ \A e \in Entities : Present(inv.m, e) =>
        srv.ver[e] = [gen |-> gen, rev |-> inv.m.rec[e].rev, val |-> inv.m.rec[e].val]
CatchesUp == <>[](pc = "on") => <>[]InSync

\* What the wire contract says of deletions (guide.org:733): a crash cannot
\* leave a removed disk permanently present on the server.
CannotLinger ==
  \A e \in Entities :
    <>[](pc = "on" /\ ~Present(inv.m, e)) => <>[]~Holds(srv, e)

\* What the handler's comment says of removals (cider_api.rs:180): a removal
\* follows an observation in the same agent session.
RemovalFollowsObservation ==
  \A e \in Removable : srv.alarm[e].state = "open" =>
    srv.alarm[e].observed = srv.alarm[e].session
=============================================================================
