----------------------------- MODULE Inventory -----------------------------
(***************************************************************************)
(* The inventory of a collector (ciderd/src/state.rs): resources and links *)
(* between them, found by enumerations ("groups"), with a revision for     *)
(* every record and a tombstone for every deletion the server has not      *)
(* acknowledged.                                                           *)
(*                                                                         *)
(* The methods of State change a Metadata in one piece or not at all, so   *)
(* each is an operator from an inventory [m, rev] to an inventory:         *)
(*   m.rec[e]   [rev, val] of entity e, rev = 0 when it is absent          *)
(*   m.tomb[e]  revision of the pending tombstone of e, 0 for none         *)
(*   m.groups   the members of the groups that have reported, by group     *)
(*   rev        inventory.revision of the envelope                         *)
(* A value is what decides whether a record has changed: content stands    *)
(* for the attributes a source reports, session for the attribute          *)
(* observed_agent_session, assoc for association_state.  A group is named  *)
(* "collector:resource", so its name fixes the resource that owns it; the  *)
(* groups host, quota and derived have no owner.                           *)
(*                                                                         *)
(* Left out: the limits on numbers and bytes of records, which reject an   *)
(* update as a whole, and evidence that has gone stale.                    *)
(***************************************************************************)
EXTENDS Integers, FiniteSets, FiniteSetsExt, Functions

CONSTANTS
  Resources,   \* resource identifiers
  Links,       \* relationship identifiers
  From, To,    \* the ends of each link
  Host,        \* the resource of the host itself
  Groups,      \* the groups that may report
  HostGroup,   \* the group "host"
  QuotaGroup,  \* the group "nfs.quota.configuration"
  Derived,     \* the group "derived.storage", which owns derived links only
  Owner,       \* the resource a group enriches, None for a group without one
  Reports,     \* the entities a group's enumeration can report
  Configured,  \* the quota targets of the configuration
  Contents,    \* what a source can say of an entity
  Plain,       \* the content of what the collector itself makes up
  None         \* absence

Entities == Resources \cup Links

ASSUME InventoryAssumption ==
  /\ IsFiniteSet(Entities) /\ IsFiniteSet(Groups)
  /\ Host \in Resources /\ Resources \cap Links = {}
  /\ From \in [Links -> Resources] /\ To \in [Links -> Resources]
  /\ {HostGroup, QuotaGroup, Derived} \subseteq Groups
  /\ None \notin Resources
  /\ Owner \in [Groups -> Resources \cup {None}]
  /\ \A g \in {HostGroup, QuotaGroup, Derived} : Owner[g] = None
  /\ Reports \in [Groups -> SUBSET Entities]
  /\ Reports[Derived] \subseteq Links
  /\ Configured \subseteq Resources
  /\ Plain \in Contents

Value == [content : Contents, session : Nat, assoc : {"none", "unresolved", "resolved"}]
Record == [rev : Nat, val : Value]
NoRecord == [rev |-> 0, val |-> [content |-> Plain, session |-> 0, assoc |-> "none"]]
Fresh(c, session) == [content |-> c, session |-> session, assoc |-> "none"]

Present(m, e) == m.rec[e].rev # 0
Gone(m, e) == m.tomb[e] # 0
Members(m, g) == IF g \in DOMAIN m.groups THEN m.groups[g] ELSE {}

-----------------------------------------------------------------------------
(* Validity of an inventory: what restore and reconcile insist on.         *)

Owned(m, owner, e) ==
  \E g \in DOMAIN m.groups : Owner[g] = owner /\ e \in m.groups[g]

\* No resource enriches, through others, its own owner: among any resources
\* one is enriched by none of them (the code counts, as Kahn's sort does).
OwnershipAcyclic(m) ==
  \A S \in (SUBSET {r \in Resources : Present(m, r)}) \ {{}} :
     \E r \in S : \A o \in S : ~Owned(m, o, r)

\* validate_metadata.
Valid(m) ==
  /\ \A l \in Links : Present(m, l) => Present(m, From[l]) /\ Present(m, To[l])
  /\ \A e \in Entities : ~(Gone(m, e) /\ Present(m, e))
  /\ \A g \in DOMAIN m.groups :
        /\ \A e \in m.groups[g] : Present(m, e)
        /\ Owner[g] # None => Present(m, Owner[g]) /\ Owner[g] \notin m.groups[g]
  /\ OwnershipAcyclic(m)

-----------------------------------------------------------------------------
(* Steps of reconcile_group.                                               *)

\* Records what a source found.  The derived association survives another
\* report of the same session; a record that says nothing new keeps its
\* revision, unless it supersedes a pending tombstone.
Upsert(m, found, session, r) ==
  LET Reported(e) ==
        IF Present(m, e) /\ m.rec[e].val.session = session
        THEN [Fresh(found[e], session) EXCEPT !.assoc = m.rec[e].val.assoc]
        ELSE Fresh(found[e], session)
      Same(e) == Present(m, e) /\ ~Gone(m, e) /\ m.rec[e].val = Reported(e)
  IN  [m EXCEPT
        !.rec = [e \in Entities |->
          IF e \notin DOMAIN found \/ Same(e) THEN m.rec[e]
          ELSE [rev |-> r, val |-> Reported(e)]],
        !.tomb = [e \in Entities |-> IF e \in DOMAIN found THEN 0 ELSE m.tomb[e]]]

\* Removes entities and leaves their tombstones (append_tombstone).
Bury(m, es, r) ==
  [m EXCEPT !.rec = [e \in Entities |-> IF e \in es THEN NoRecord ELSE m.rec[e]],
            !.tomb = [e \in Entities |-> IF e \in es THEN r ELSE m.tomb[e]]]

\* One round of retire_unowned_entities: candidates that no group keeps go,
\* then the groups whose owner has gone; their members are candidates next.
RetireRound(s, r) ==
  LET unkept == {e \in s.candidates :
                   Present(s.m, e) /\ \A g \in DOMAIN s.m.groups : e \notin s.m.groups[g]}
      m == Bury(s.m, unkept, r)
      orphans == {g \in DOMAIN m.groups : Owner[g] # None /\ ~Present(m, Owner[g])}
  IN  [m |-> [m EXCEPT !.groups = Restrict(m.groups, DOMAIN m.groups \ orphans)],
       candidates |-> UNION {m.groups[g] : g \in orphans}]

\* Every round but the last drops a group.
Retire(m, candidates, r) ==
  LET round[n \in Nat] == IF n = 0 THEN [m |-> m, candidates |-> candidates]
                          ELSE RetireRound(round[n - 1], r)
  IN  round[Cardinality(Groups) + 1].m

\* Links that lost an end go, whoever reported them, and groups forget the
\* entities that are gone.
Detach(m, r) ==
  LET dangling == {l \in Links : Present(m, l) /\ ~(Present(m, From[l]) /\ Present(m, To[l]))}
      left == Bury(m, dangling, r)
  IN  [left EXCEPT !.groups = [g \in DOMAIN left.groups |->
                                 {e \in left.groups[g] : Present(left, e)}]]

\* The owner of group g must still be there, and the ends of every link the
\* report names.
Admissible(m, g, found) ==
  /\ Owner[g] # None => Present(m, Owner[g])
  /\ \A l \in DOMAIN found \cap Links :
        \A r \in {From[l], To[l]} : Present(m, r) \/ r \in DOMAIN found

\* reconcile_group.  A complete enumeration replaces the group and retires
\* what it no longer reports, a partial one only adds.  An inadmissible or
\* invalid update leaves everything as it was.
Reconcile(inv, g, found, session, complete) ==
  LET r == inv.rev + 1
      ids == DOMAIN found \ {Owner[g]}
      up == Upsert(inv.m, found, session, r)
      m == [up EXCEPT !.groups = [h \in DOMAIN @ \cup {g} |->
              IF h # g THEN @[h] ELSE IF complete THEN ids ELSE Members(up, g) \cup ids]]
      missing == IF complete THEN Members(up, g) \ ids ELSE {}
      next == Detach(Retire(m, missing, r), r)
  IN  IF Admissible(inv.m, g, found) /\ Valid(next) /\ next # inv.m
      THEN [m |-> next, rev |-> r] ELSE inv

-----------------------------------------------------------------------------
(* Derived links, restart and first start.                                 *)

\* A resource is evidence for a derived link when this session observed it.
Current(m, r, session) == Present(m, r) /\ m.rec[r].val.session = session

\* topology::reconcile: the links whose two ends are current.
Joined(m, session) ==
  {l \in Reports[Derived] : Current(m, From[l], session) /\ Current(m, To[l], session)}

\* The association state topology::reconcile gives a resource: a driver or a
\* mount always has one, the other end only while it is current.
Association(m, r, session) ==
  IF \E l \in Joined(m, session) : r \in {From[l], To[l]} THEN "resolved"
  ELSE IF \/ \E l \in Reports[Derived] : r = From[l]
          \/ Current(m, r, session) /\ \E l \in Reports[Derived] : r = To[l]
       THEN "unresolved" ELSE m.rec[r].val.assoc

\* refresh_topology: the derived links, then the associations of the
\* resources they join, each with a revision of its own.
RefreshTopology(inv, session) ==
  LET linked == Reconcile(inv, Derived, [l \in Joined(inv.m, session) |-> Plain], session, TRUE)
      r == linked.rev + 1
      Annotated(e) == [linked.m.rec[e].val EXCEPT !.assoc = Association(inv.m, e, session)]
      m == [linked.m EXCEPT !.rec = [e \in Entities |->
              IF \/ e \in Links \/ ~Present(linked.m, e)
                 \/ linked.m.rec[e].val = Annotated(e)
              THEN linked.m.rec[e] ELSE [rev |-> r, val |-> Annotated(e)]]]
  IN  IF m # linked.m THEN [m |-> m, rev |-> r] ELSE linked

\* The report is recorded, or changes nothing because it was recorded before.
Accepts(inv, g, found, session, complete) ==
  LET after == Reconcile(inv, g, found, session, complete) IN
  Admissible(inv.m, g, found) /\ (after = inv => Valid(inv.m))

\* A finished collector's inventory, then the derived links (scheduler::apply).
Enumerate(inv, g, found, session, complete) ==
  RefreshTopology(Reconcile(inv, g, found, session, complete), session)

\* The inventory of a first start: the host, revision 1.
First == [m |-> [rec |-> [e \in Entities |->
                    IF e = Host THEN [rev |-> 1, val |-> Fresh(Plain, 0)] ELSE NoRecord],
                 tomb |-> [e \in Entities |-> 0],
                 groups |-> [g \in {} |-> {}]],
          rev |-> 1]

\* Every start reports the configured quota targets.
ConfiguredQuotas(inv, session) ==
  Reconcile(inv, QuotaGroup, [e \in Configured |-> Plain], session, TRUE)

\* Mutant of Restored: the revisions start over.
RestoredFromOne(saved) == [m |-> saved, rev |-> 1]

\* restore: a revision above every saved one, before anything is recorded.
Restored(saved) ==
  [m |-> saved,
   rev |-> Max({1} \cup {saved.rec[e].rev : e \in Entities}
                   \cup {saved.tomb[e] : e \in Entities}) + 1]

\* A start over a saved inventory reports the host again.
Restart(saved, session) ==
  ConfiguredQuotas(Reconcile(Restored(saved), HostGroup, [e \in {Host} |-> Plain], 0, TRUE),
                   session)

InventoryType(inv) ==
  /\ inv.rev \in Nat
  /\ inv.m.rec \in [Entities -> Record] /\ inv.m.tomb \in [Entities -> Nat]
  /\ DOMAIN inv.m.groups \subseteq Groups
  /\ \A g \in DOMAIN inv.m.groups : inv.m.groups[g] \in SUBSET Entities
=============================================================================
