-------------------------- MODULE HeartbeatsProofs --------------------------
(***************************************************************************)
(* Proofs about Heartbeats for any inventory, any number of sessions and   *)
(* heartbeats, and a network that loses, repeats and reorders them.        *)
(*                                                                         *)
(* First the operators of Inventory: a reconciliation changes some         *)
(* entries, each to a record or a tombstone with the new revision, and     *)
(* leaves the others; so an inventory only evolves, and a sound one stays  *)
(* sound.                                                                  *)
(*                                                                         *)
(* Then three parties hold a copy of a session's inventory: the collector, *)
(* the heartbeats in the network, and the server.  The invariant says of   *)
(* every two of them how the later one differs from the earlier: an entry  *)
(* that is not the same has a newer revision, and one that is missing has  *)
(* had its tombstone accepted.                                             *)
(***************************************************************************)
EXTENDS Heartbeats, Induction

\* Metadata and inventories as sets of records.
Metadata == [rec : [Entities -> Record], tomb : [Entities -> Nat],
             groups : UNION {[D -> SUBSET Entities] : D \in SUBSET Groups}]
Inventories == [m : Metadata, rev : Nat]

\* The entry of an entity: its record and its tombstone.
SameEntry(m, n, e) == n.rec[e] = m.rec[e] /\ n.tomb[e] = m.tomb[e]
Recorded(n, e, r) == n.rec[e].rev = r /\ n.tomb[e] = 0
Buried(n, e, r) == n.rec[e] = NoRecord /\ n.tomb[e] = r

\* Every entry of n is that of m, or was made with revision r.
Touched(m, n, r) ==
  \A e \in Entities : SameEntry(m, n, e) \/ Recorded(n, e, r) \/ Buried(n, e, r)

\* The entries have revisions up to r, and none is both there and gone.
Bounded(m, r) ==
  \A e \in Entities : m.rec[e].rev <= r /\ m.tomb[e] <= r

Sound(own) == own \in Inventories /\ own.rev # 0 /\ Valid(own.m) /\ Bounded(own.m, own.rev)

\* Between two inventories of a session: the revision does not go back, the
\* same revision is the same inventory, and what is not as it was was made
\* with a revision in between.
Evolves(old, new) ==
  /\ old.rev <= new.rev
  /\ old.rev = new.rev => new = old
  /\ \A e \in Entities :
       \/ SameEntry(old.m, new.m, e)
       \/ Present(new.m, e) /\ new.m.tomb[e] = 0 /\ new.m.rec[e].rev > old.rev
       \/ ~Present(new.m, e) /\ new.m.tomb[e] > old.rev

-----------------------------------------------------------------------------
(* Records.                                                                *)

\* A missing record and a fresh value have their types.
LEMMA EntityTypes ==
  /\ NoRecord \in Record
  /\ \A c \in Contents, s \in Nat : Fresh(c, s) \in Value
BY InventoryAssumption DEF NoRecord, Record, Value, Fresh

\* The fields of a typed inventory.
LEMMA MetadataFields ==
  ASSUME NEW m \in Metadata
  PROVE  /\ m.rec \in [Entities -> Record] /\ m.tomb \in [Entities -> Nat]
         /\ DOMAIN m.groups \subseteq Groups
         /\ \A g \in DOMAIN m.groups : m.groups[g] \in SUBSET Entities
         /\ m.groups = [g \in DOMAIN m.groups |-> m.groups[g]]
BY DEF Metadata

\* Replacing the records keeps the type and the rest.
LEMMA NewRecords ==
  ASSUME NEW m \in Metadata, NEW f \in [Entities -> Record]
  PROVE  LET n == [m EXCEPT !.rec = f] IN
         n \in Metadata /\ n.rec = f /\ n.tomb = m.tomb /\ n.groups = m.groups
BY DEF Metadata

\* Replacing the tombstones keeps the type and the rest.
LEMMA NewTombstones ==
  ASSUME NEW m \in Metadata, NEW t \in [Entities -> Nat]
  PROVE  LET n == [m EXCEPT !.tomb = t] IN
         n \in Metadata /\ n.rec = m.rec /\ n.tomb = t /\ n.groups = m.groups
BY DEF Metadata

\* Replacing the groups keeps the type and the rest.
LEMMA NewGroups ==
  ASSUME NEW m \in Metadata, NEW D \in SUBSET Groups, NEW f \in [D -> SUBSET Entities]
  PROVE  LET n == [m EXCEPT !.groups = f] IN
         n \in Metadata /\ n.rec = m.rec /\ n.tomb = m.tomb /\ n.groups = f
BY DEF Metadata

\* Two changes at one revision are one change at that revision.
LEMMA TouchedTwice ==
  ASSUME NEW m, NEW n, NEW k, NEW r, Touched(m, n, r), Touched(n, k, r)
  PROVE  Touched(m, k, r)
BY DEF Touched, SameEntry, Recorded, Buried

-----------------------------------------------------------------------------
(* The steps of reconcile_group.                                           *)

\* What a source reports is recorded at the new revision.
LEMMA Upserted ==
  ASSUME NEW m \in Metadata, NEW D \in SUBSET Entities, NEW found \in [D -> Contents],
         NEW current \in Nat, NEW r \in Nat
  PROVE  /\ Upsert(m, found, current, r) \in Metadata
         /\ Upsert(m, found, current, r).groups = m.groups
         /\ Touched(m, Upsert(m, found, current, r), r)
<1> DEFINE Reported(e) ==
             IF Present(m, e) /\ m.rec[e].val.session = current
             THEN [Fresh(found[e], current) EXCEPT !.assoc = m.rec[e].val.assoc]
             ELSE Fresh(found[e], current)
           Same(e) == Present(m, e) /\ ~Gone(m, e) /\ m.rec[e].val = Reported(e)
           f == [e \in Entities |->
                   IF e \notin DOMAIN found \/ Same(e) THEN m.rec[e]
                   ELSE [rev |-> r, val |-> Reported(e)]]
           t == [e \in Entities |-> IF e \in DOMAIN found THEN 0 ELSE m.tomb[e]]
<1>1. m.rec \in [Entities -> Record] /\ m.tomb \in [Entities -> Nat]
  BY MetadataFields
<1>2. ASSUME NEW e \in D PROVE Reported(e) \in Value
  <2>1. Fresh(found[e], current) \in Value /\ m.rec[e].val \in Value
    BY <1>1, EntityTypes DEF Record
  <2> QED
    BY <2>1 DEF Value, Fresh
<1>3. f \in [Entities -> Record]
  <2>1. ASSUME NEW e \in Entities, e \in D PROVE [rev |-> r, val |-> Reported(e)] \in Record
    BY <1>2, <2>1 DEF Record
  <2> HIDE DEF Reported
  <2> QED
    BY <1>1, <2>1
<1>4. t \in [Entities -> Nat]
  BY <1>1
<1>5. Upsert(m, found, current, r) = [m EXCEPT !.rec = f, !.tomb = t]
  BY DEF Upsert
<1>6. \A e \in Entities : \/ f[e] = m.rec[e] /\ t[e] = m.tomb[e]
                          \/ f[e].rev = r /\ t[e] = 0
  <2>1. ASSUME NEW e \in Entities, e \in D, Same(e) PROVE f[e] = m.rec[e] /\ t[e] = m.tomb[e]
    BY <2>1 DEF Gone
  <2> HIDE DEF Same
  <2> QED
    BY <2>1
<1> HIDE DEF f, t
<1> DEFINE n == [m EXCEPT !.rec = f, !.tomb = t]
<1>7. n \in Metadata /\ n.rec = f /\ n.tomb = t /\ n.groups = m.groups
  BY <1>3, <1>4 DEF Metadata
<1> HIDE DEF n
<1> QED
  BY <1>5, <1>6, <1>7 DEF n, Touched, SameEntry, Recorded

\* Buried entities leave tombstones of the new revision.
LEMMA BuriedEntries ==
  ASSUME NEW m \in Metadata, NEW es, NEW r \in Nat
  PROVE  /\ Bury(m, es, r) \in Metadata
         /\ Bury(m, es, r).groups = m.groups
         /\ Touched(m, Bury(m, es, r), r)
<1> DEFINE f == [e \in Entities |-> IF e \in es THEN NoRecord ELSE m.rec[e]]
           t == [e \in Entities |-> IF e \in es THEN r ELSE m.tomb[e]]
           n == [m EXCEPT !.rec = f, !.tomb = t]
<1>1. f \in [Entities -> Record] /\ t \in [Entities -> Nat]
  BY MetadataFields, EntityTypes
<1>2. Bury(m, es, r) = n
  BY DEF Bury
<1>3. \A e \in Entities : \/ f[e] = m.rec[e] /\ t[e] = m.tomb[e]
                          \/ f[e] = NoRecord /\ t[e] = r
  OBVIOUS
<1> HIDE DEF f, t
<1>4. n \in Metadata /\ n.rec = f /\ n.tomb = t /\ n.groups = m.groups
  BY <1>1 DEF Metadata
<1> HIDE DEF n
<1> QED
  BY <1>2, <1>3, <1>4 DEF Touched, SameEntry, Buried

\* Only the groups differ.
LEMMA Regrouped ==
  ASSUME NEW m \in Metadata, NEW D \in SUBSET Groups, NEW f \in [D -> SUBSET Entities], NEW r
  PROVE  /\ [m EXCEPT !.groups = f] \in Metadata
         /\ [m EXCEPT !.groups = f].groups = f
         /\ Touched(m, [m EXCEPT !.groups = f], r)
<1> DEFINE n == [m EXCEPT !.groups = f]
<1>1. n \in Metadata /\ n.rec = m.rec /\ n.tomb = m.tomb /\ n.groups = f
  BY NewGroups
<1> HIDE DEF n
<1>2. n \in Metadata /\ n.groups = f /\ Touched(m, n, r)
  BY <1>1 DEF Touched, SameEntry
<1> QED
  BY <1>2 DEF n

Candidacies == [m : Metadata, candidates : SUBSET Entities]

\* One round of retirement only buries, and drops groups.
LEMMA RetiredRound ==
  ASSUME NEW s \in Candidacies, NEW r \in Nat
  PROVE  RetireRound(s, r) \in Candidacies /\ Touched(s.m, RetireRound(s, r).m, r)
<1> DEFINE unkept == {e \in s.candidates :
                        Present(s.m, e) /\ \A g \in DOMAIN s.m.groups : e \notin s.m.groups[g]}
           m == Bury(s.m, unkept, r)
           orphans == {g \in DOMAIN m.groups : Owner[g] # None /\ ~Present(m, Owner[g])}
           f == Restrict(m.groups, DOMAIN m.groups \ orphans)
           left == UNION {m.groups[g] : g \in orphans}
<1>1. s.m \in Metadata
  BY DEF Candidacies
<1>2. RetireRound(s, r) = [m |-> [m EXCEPT !.groups = f], candidates |-> left]
  BY DEF RetireRound
<1> HIDE DEF unkept
<1>3. m \in Metadata /\ Touched(s.m, m, r)
  BY <1>1, BuriedEntries
<1> HIDE DEF m
<1>4. left \in SUBSET Entities
  <2>1. \A g \in orphans : m.groups[g] \in SUBSET Entities
    BY <1>3, MetadataFields
  <2> HIDE DEF orphans
  <2> QED
    BY <2>1
<1>5. DOMAIN m.groups \ orphans \in SUBSET Groups
      /\ f \in [DOMAIN m.groups \ orphans -> SUBSET Entities]
  BY <1>3, MetadataFields DEF Restrict
<1> HIDE DEF f, left, orphans
<1>6. [m EXCEPT !.groups = f] \in Metadata /\ Touched(m, [m EXCEPT !.groups = f], r)
  BY <1>3, <1>5, Regrouped
<1>7. Touched(s.m, [m EXCEPT !.groups = f], r)
  BY <1>3, <1>6, TouchedTwice
<1> QED
  BY <1>2, <1>4, <1>6, <1>7 DEF Candidacies

\* Every round of the retirement leaves only entries it made itself.
LEMMA Retired ==
  ASSUME NEW m \in Metadata, NEW candidates \in SUBSET Entities, NEW r \in Nat
  PROVE  Retire(m, candidates, r) \in Metadata /\ Touched(m, Retire(m, candidates, r), r)
<1> DEFINE start == [m |-> m, candidates |-> candidates]
           Rounds(f) == [n \in Nat |-> IF n = 0 THEN start ELSE RetireRound(f[n - 1], r)]
           round == CHOOSE f : f = Rounds(f)
           F == [s \in Candidacies |-> RetireRound(s, r)]
<1>1. Retire(m, candidates, r) = round[Cardinality(Groups) + 1].m
  BY DEF Retire
<1>2. start \in Candidacies
  BY DEF Candidacies
<1>3. F \in [Candidacies -> Candidacies]
  BY RetiredRound
<1>4. PICK f : Iterates(f, F, start, Candidacies)
  <2>1. IsStep(F, Candidacies)
    BY <1>3 DEF IsStep
  <2> HIDE DEF start, F
  <2> QED
    BY <1>2, <2>1, Iteration
<1>5. f = Rounds(f)
  <2>1. ASSUME NEW n \in Nat PROVE f[n] = Rounds(f)[n]
    <3>1. CASE n = 0
      BY <1>4, <3>1 DEF Iterates
    <3>2. CASE n # 0
      <4>1. n - 1 \in Nat /\ n - 1 + 1 = n
        BY <3>2
      <4>2. f[n] = F[f[n - 1]] /\ f[n - 1] \in Candidacies
        BY <1>4, <4>1 DEF Iterates
      <4> QED
        BY <3>2, <4>2
    <3> QED
      BY <3>1, <3>2
  <2> HIDE DEF start
  <2> QED
    BY <1>4, <2>1 DEF Iterates
<1>6. round = Rounds(round)
  <2> HIDE DEF Rounds
  <2> QED
    BY <1>5
<1> HIDE DEF round, start, F
<1> DEFINE S == {n \in Nat : round[n] \in Candidacies /\ Touched(m, round[n].m, r)}
<1>7. 0 \in S
  BY <1>2, <1>6 DEF start, Touched, SameEntry
<1>8. ASSUME NEW n \in Nat, n \in S PROVE n + 1 \in S
  <2>1. round[n + 1] = RetireRound(round[n], r)
    BY <1>6
  <2>2. RetireRound(round[n], r) \in Candidacies /\ Touched(round[n].m, RetireRound(round[n], r).m, r)
    BY <1>8, RetiredRound
  <2>3. Touched(m, RetireRound(round[n], r).m, r)
    BY <1>8, <2>2, TouchedTwice
  <2> QED
    BY <2>1, <2>2, <2>3
<1>9. \A n \in Nat : n \in S
  <2> HIDE DEF S
  <2> QED
    BY <1>7, <1>8, SetInduction
<1>10. Cardinality(Groups) + 1 \in Nat
  BY InventoryAssumption, FS_CardinalityType
<1> QED
  BY <1>1, <1>9, <1>10 DEF Candidacies

\* Detaching buries the links that lost an end.
LEMMA Detached ==
  ASSUME NEW m \in Metadata, NEW r \in Nat
  PROVE  Detach(m, r) \in Metadata /\ Touched(m, Detach(m, r), r)
<1> DEFINE dangling == {l \in Links : Present(m, l) /\ ~(Present(m, From[l]) /\ Present(m, To[l]))}
           left == Bury(m, dangling, r)
           f == [g \in DOMAIN left.groups |-> {e \in left.groups[g] : Present(left, e)}]
<1>1. Detach(m, r) = [left EXCEPT !.groups = f]
  BY DEF Detach
<1> HIDE DEF dangling
<1>2. left \in Metadata /\ Touched(m, left, r)
  BY BuriedEntries
<1> HIDE DEF left
<1>3. DOMAIN left.groups \in SUBSET Groups /\ f \in [DOMAIN left.groups -> SUBSET Entities]
  BY <1>2, MetadataFields
<1> HIDE DEF f
<1> QED
  BY <1>1, <1>2, <1>3, Regrouped, TouchedTwice

-----------------------------------------------------------------------------
(* Reconciliation.                                                         *)

\* Moving forward twice is moving forward.
LEMMA EvolvesTwice ==
  ASSUME NEW a \in Inventories, NEW b \in Inventories, NEW c \in Inventories,
         Evolves(a, b), Evolves(b, c)
  PROVE  Evolves(a, c)
<1>1. a.rev \in Nat /\ b.rev \in Nat /\ c.rev \in Nat
  BY DEF Inventories
<1>2. \A e \in Entities : b.m.rec[e].rev \in Nat /\ c.m.rec[e].rev \in Nat
                         /\ b.m.tomb[e] \in Nat /\ c.m.tomb[e] \in Nat
  BY MetadataFields DEF Inventories, Record
<1>3. a.rev <= c.rev /\ (a.rev = c.rev => c = a)
  BY <1>1 DEF Evolves
<1>4. ASSUME NEW e \in Entities
      PROVE  \/ SameEntry(a.m, c.m, e)
             \/ Present(c.m, e) /\ c.m.tomb[e] = 0 /\ c.m.rec[e].rev > a.rev
             \/ ~Present(c.m, e) /\ c.m.tomb[e] > a.rev
  <2>1. CASE SameEntry(b.m, c.m, e)
    BY <1>1, <1>2, <2>1 DEF Evolves, SameEntry, Present
  <2>2. CASE ~SameEntry(b.m, c.m, e)
    BY <1>1, <1>2, <2>2 DEF Evolves
  <2> QED
    BY <2>1, <2>2
<1> QED
  BY <1>3, <1>4 DEF Evolves

\* What was made with the next revision is an evolution, and a sound one when
\* it is valid.
LEMMA TouchedEvolves ==
  ASSUME NEW own \in Inventories, Sound(own), NEW n \in Metadata, Valid(n),
         Touched(own.m, n, own.rev + 1)
  PROVE  LET new == [m |-> n, rev |-> own.rev + 1] IN Sound(new) /\ Evolves(own, new)
<1> DEFINE new == [m |-> n, rev |-> own.rev + 1]
<1>1. own.rev \in Nat /\ new \in Inventories /\ new.m = n /\ new.rev = own.rev + 1
  BY DEF Inventories
<1>2. \A e \in Entities : own.m.rec[e].rev \in Nat /\ own.m.tomb[e] \in Nat
  BY MetadataFields DEF Inventories, Record
<1>3. ASSUME NEW e \in Entities
      PROVE  /\ n.rec[e].rev <= own.rev + 1 /\ n.tomb[e] <= own.rev + 1
             /\ \/ SameEntry(own.m, n, e)
                \/ Present(n, e) /\ n.tomb[e] = 0 /\ n.rec[e].rev > own.rev
                \/ ~Present(n, e) /\ n.tomb[e] > own.rev
  <2>1. CASE SameEntry(own.m, n, e)
    BY <1>1, <1>2, <2>1 DEF SameEntry, Sound, Bounded
  <2>2. CASE Recorded(n, e, own.rev + 1)
    BY <1>1, <2>2 DEF Recorded, Present
  <2>3. CASE Buried(n, e, own.rev + 1)
    BY <1>1, <2>3 DEF Buried, Present, NoRecord
  <2> QED
    BY <2>1, <2>2, <2>3 DEF Touched
<1> HIDE DEF new
<1>4. Sound(new)
  BY <1>1, <1>3 DEF Sound, Bounded
<1>5. Evolves(own, new)
  BY <1>1, <1>3 DEF Evolves
<1> QED
  BY <1>4, <1>5 DEF new

\* An inventory that stays as it is has not gone back.
LEMMA StaysAsItIs ==
  ASSUME NEW own \in Inventories
  PROVE  Evolves(own, own)
BY DEF Evolves, SameEntry, Inventories

\* An enumeration, complete or not, keeps an inventory sound.
LEMMA Reconciled ==
  ASSUME NEW own, Sound(own), NEW g \in Groups,
         NEW D \in SUBSET Entities, NEW found \in [D -> Contents],
         NEW current \in Nat, NEW complete \in BOOLEAN
  PROVE  /\ Sound(Reconcile(own, g, found, current, complete))
         /\ Evolves(own, Reconcile(own, g, found, current, complete))
<1> DEFINE r == own.rev + 1
           ids == DOMAIN found \ {Owner[g]}
           up == Upsert(own.m, found, current, r)
           f == [h \in DOMAIN up.groups \cup {g} |->
                   IF h # g THEN up.groups[h]
                   ELSE IF complete THEN ids ELSE Members(up, g) \cup ids]
           m == [up EXCEPT !.groups = f]
           missing == IF complete THEN Members(up, g) \ ids ELSE {}
           kept == Retire(m, missing, r)
           next == Detach(kept, r)
<1>1. own \in Inventories /\ own.m \in Metadata /\ own.rev \in Nat /\ r \in Nat
  BY DEF Sound, Inventories
<1>2. Reconcile(own, g, found, current, complete) =
        IF Admissible(own.m, g, found) /\ Valid(next) /\ next # own.m
        THEN [m |-> next, rev |-> r] ELSE own
  BY DEF Reconcile
<1> HIDE DEF r
<1>3. up \in Metadata /\ Touched(own.m, up, r)
  BY <1>1, Upserted
<1> HIDE DEF up
<1>4. ids \in SUBSET Entities /\ Members(up, g) \in SUBSET Entities
  BY <1>3, MetadataFields DEF Members
<1>5. DOMAIN up.groups \cup {g} \in SUBSET Groups
      /\ f \in [DOMAIN up.groups \cup {g} -> SUBSET Entities]
  BY <1>3, <1>4, MetadataFields
<1>6. missing \in SUBSET Entities
  BY <1>4
<1> HIDE DEF ids, f, missing
<1>7. m \in Metadata /\ Touched(own.m, m, r)
  BY <1>3, <1>5, Regrouped, TouchedTwice
<1> HIDE DEF m
<1>8. kept \in Metadata /\ Touched(own.m, kept, r)
  BY <1>1, <1>6, <1>7, Retired, TouchedTwice
<1> HIDE DEF kept
<1>9. next \in Metadata /\ Touched(own.m, next, r)
  BY <1>1, <1>8, Detached, TouchedTwice
<1> HIDE DEF next
<1>10. ASSUME Valid(next)
       PROVE  Sound([m |-> next, rev |-> r]) /\ Evolves(own, [m |-> next, rev |-> r])
  BY <1>1, <1>9, <1>10, TouchedEvolves DEF r
<1> QED
  BY <1>1, <1>2, <1>10, StaysAsItIs

\* Validity only asks what is present, and that nothing present is gone.
LEMMA SameValidity ==
  ASSUME NEW m \in Metadata, NEW n, Valid(m), n.groups = m.groups,
         \A e \in Entities : (Present(n, e) <=> Present(m, e)) /\ (Gone(n, e) => Gone(m, e))
  PROVE  Valid(n)
<1>1. From \in [Links -> Resources] /\ To \in [Links -> Resources]
      /\ Resources \subseteq Entities /\ Links \subseteq Entities
  BY InventoryAssumption DEF Entities
<1>2. /\ \A l \in Links : Present(n, l) => Present(n, From[l]) /\ Present(n, To[l])
      /\ \A e \in Entities : ~(Gone(n, e) /\ Present(n, e))
  BY <1>1 DEF Valid
<1>3. OwnershipAcyclic(n)
  <2>1. {r \in Resources : Present(n, r)} = {r \in Resources : Present(m, r)}
    BY <1>1
  <2>2. \A o, e : Owned(n, o, e) <=> Owned(m, o, e)
    BY DEF Owned
  <2> QED
    BY <2>1, <2>2 DEF Valid, OwnershipAcyclic
<1>4. ASSUME NEW h \in DOMAIN n.groups
      PROVE  /\ \A e \in n.groups[h] : Present(n, e)
             /\ Owner[h] # None => Present(n, Owner[h]) /\ Owner[h] \notin n.groups[h]
  <2>1. h \in Groups /\ m.groups[h] \subseteq Entities
    BY <1>4, MetadataFields
  <2>2. Owner[h] # None => Owner[h] \in Entities
    BY <1>1, <2>1, InventoryAssumption
  <2>3. /\ \A e \in m.groups[h] : Present(m, e)
        /\ Owner[h] # None => Present(m, Owner[h]) /\ Owner[h] \notin m.groups[h]
    BY <1>4 DEF Valid
  <2> QED
    BY <2>1, <2>2, <2>3
<1> QED
  BY <1>2, <1>3, <1>4 DEF Valid

-----------------------------------------------------------------------------
(* Derived links, restart and first start.                                 *)

\* Deriving the links again keeps an inventory sound.
LEMMA Refreshed ==
  ASSUME NEW own, Sound(own), NEW current \in Nat
  PROVE  Sound(RefreshTopology(own, current)) /\ Evolves(own, RefreshTopology(own, current))
<1> DEFINE joined == Joined(own.m, current)
           found == [l \in joined |-> Plain]
           linked == Reconcile(own, Derived, found, current, TRUE)
           r == linked.rev + 1
           Annotated(e) == [linked.m.rec[e].val EXCEPT !.assoc = Association(own.m, e, current)]
           f == [e \in Entities |->
                   IF \/ e \in Links \/ ~Present(linked.m, e)
                      \/ linked.m.rec[e].val = Annotated(e)
                   THEN linked.m.rec[e] ELSE [rev |-> r, val |-> Annotated(e)]]
           m == [linked.m EXCEPT !.rec = f]
<1>1. own \in Inventories /\ own.m \in Metadata
  BY DEF Sound, Inventories
<1>2. joined \in SUBSET Entities /\ found \in [joined -> Contents] /\ Derived \in Groups
  BY InventoryAssumption DEF Joined
<1>3. Sound(linked) /\ Evolves(own, linked)
  <2> HIDE DEF joined, found
  <2> QED
    BY <1>2, Reconciled
<1>4. RefreshTopology(own, current) = IF m # linked.m THEN [m |-> m, rev |-> r] ELSE linked
  BY DEF RefreshTopology
<1> HIDE DEF joined, found, linked
<1>5. linked \in Inventories /\ linked.m \in Metadata /\ linked.rev \in Nat
  BY <1>3 DEF Sound, Inventories
<1>6. ASSUME NEW e \in Entities, e \notin Links PROVE Annotated(e) \in Value
  <2>1. own.m.rec[e].val \in Value /\ linked.m.rec[e].val \in Value
    BY <1>1, <1>5, MetadataFields DEF Record
  <2>2. Association(own.m, e, current) \in {"none", "unresolved", "resolved"}
    BY <2>1 DEF Association, Value
  <2> QED
    BY <2>1, <2>2 DEF Value
<1>7. \A e \in Entities : linked.m.rec[e] \in Record
  BY <1>5, MetadataFields
<1> HIDE DEF Annotated
<1>8. f \in [Entities -> Record]
  BY <1>5, <1>6, <1>7 DEF Record
<1>9. \A e \in Entities : \/ f[e] = linked.m.rec[e]
                          \/ Present(linked.m, e) /\ f[e].rev = r
  OBVIOUS
<1> HIDE DEF f, r
<1>10. m \in Metadata /\ m.rec = f /\ m.tomb = linked.m.tomb /\ m.groups = linked.m.groups
  BY <1>5, <1>8, NewRecords
<1> HIDE DEF m
<1>11. Valid(m)
  <2>1. \A e \in Entities : (Present(m, e) <=> Present(linked.m, e))
                          /\ (Gone(m, e) => Gone(linked.m, e))
    BY <1>5, <1>9, <1>10 DEF Present, Gone, r
  <2> QED
    BY <1>3, <1>5, <1>10, <2>1, SameValidity DEF Sound
<1>12. Touched(linked.m, m, r)
  <2>1. ASSUME NEW e \in Entities PROVE SameEntry(linked.m, m, e) \/ Recorded(m, e, r)
    <3>1. Present(linked.m, e) => linked.m.tomb[e] = 0
      BY <1>3 DEF Sound, Valid, Gone
    <3> QED
      BY <1>9, <1>10, <3>1 DEF SameEntry, Recorded
  <2> QED
    BY <2>1 DEF Touched
<1>13. Sound([m |-> m, rev |-> r]) /\ Evolves(linked, [m |-> m, rev |-> r])
  BY <1>3, <1>5, <1>10, <1>11, <1>12, TouchedEvolves DEF r
<1>14. Sound(RefreshTopology(own, current)) /\ Evolves(linked, RefreshTopology(own, current))
  BY <1>3, <1>4, <1>5, <1>13, StaysAsItIs
<1> QED
  BY <1>1, <1>3, <1>5, <1>14, EvolvesTwice DEF Sound

\* A finished collector's report, whole or in part, accepted or not, leaves a
\* valid inventory with every revision up to its own (reconcile_group,
\* refresh_topology), and no entry of the one before is changed or dropped
\* without a newer revision.
THEOREM EnumerationIsSound ==
  ASSUME NEW own, Sound(own), NEW g \in Groups,
         NEW D \in SUBSET Entities, NEW found \in [D -> Contents],
         NEW current \in Nat, NEW complete \in BOOLEAN
  PROVE  /\ Sound(Enumerate(own, g, found, current, complete))
         /\ Evolves(own, Enumerate(own, g, found, current, complete))
<1> DEFINE after == Reconcile(own, g, found, current, complete)
<1>1. Sound(after) /\ Evolves(own, after)
  BY Reconciled
<1> HIDE DEF after
<1>2. Sound(RefreshTopology(after, current)) /\ Evolves(after, RefreshTopology(after, current))
  BY <1>1, Refreshed
<1>3. Enumerate(own, g, found, current, complete) = RefreshTopology(after, current)
  BY DEF Enumerate, after
<1> QED
  BY <1>1, <1>2, <1>3, EvolvesTwice DEF Sound

\* The configured quota targets keep an inventory sound.
LEMMA QuotasConfigured ==
  ASSUME NEW own, Sound(own), NEW current \in Nat
  PROVE  Sound(ConfiguredQuotas(own, current))
<1>1. Configured \in SUBSET Entities /\ QuotaGroup \in Groups
      /\ [e \in Configured |-> Plain] \in [Configured -> Contents]
  BY InventoryAssumption DEF Entities
<1> QED
  BY <1>1, Reconciled DEF ConfiguredQuotas

\* The inventory of a first start, with the host alone, is sound.
LEMMA FirstIsSound == Sound(First)
<1>1. First.m \in Metadata
  <2>1. [rev |-> 1, val |-> Fresh(Plain, 0)] \in Record
    BY EntityTypes, InventoryAssumption DEF Record
  <2>2. [g \in {} |-> {}] \in [{} -> SUBSET Entities] /\ {} \in SUBSET Groups
    OBVIOUS
  <2> QED
    BY <2>1, <2>2, EntityTypes DEF First, Metadata
<1>2. \A e \in Entities : (Present(First.m, e) <=> e = Host) /\ ~Gone(First.m, e)
                         /\ First.m.rec[e].rev \in {0, 1} /\ First.m.tomb[e] = 0
  BY DEF First, Present, Gone, NoRecord
<1>3. DOMAIN First.m.groups = {}
  BY DEF First
<1>4. Valid(First.m)
  <2>1. Host \notin Links /\ Resources \subseteq Entities /\ Links \subseteq Entities
    BY InventoryAssumption DEF Entities
  <2>2. \A o, e : ~Owned(First.m, o, e)
    BY <1>3 DEF Owned
  <2>3. OwnershipAcyclic(First.m)
    <3>1. SUFFICES ASSUME NEW S \in (SUBSET {r \in Resources : Present(First.m, r)}) \ {{}}
                   PROVE  \E r \in S : \A o \in S : ~Owned(First.m, o, r)
      BY DEF OwnershipAcyclic
    <3>2. S # {}
      OBVIOUS
    <3>3. PICK r : r \in S
      BY <3>2
    <3> QED
      BY <2>2, <3>3
  <2> QED
    BY <1>2, <1>3, <2>1, <2>3 DEF Valid
<1>5. Bounded(First.m, 1)
  BY <1>2 DEF Bounded
<1> QED
  BY <1>1, <1>4, <1>5 DEF Sound, Inventories, First

\* The values of a function on a finite set.
LEMMA FiniteImage ==
  ASSUME NEW S, IsFiniteSet(S), NEW T, NEW f \in [S -> T]
  PROVE  IsFiniteSet({f[x] : x \in S})
<1>1. f \in Surjection(S, {f[x] : x \in S})
  BY DEF Surjection
<1> QED
  BY <1>1, FS_Surjection

\* A restored inventory has a revision above every saved one.
LEMMA RestoredIsSound ==
  ASSUME NEW saved \in Metadata, Valid(saved)
  PROVE  Sound(Restored(saved))
<1> DEFINE f == [e \in Entities |-> saved.rec[e].rev]
           revs == {saved.rec[e].rev : e \in Entities}
           tombs == {saved.tomb[e] : e \in Entities}
           all == {1} \cup revs \cup tombs
<1>1. /\ saved.rec \in [Entities -> Record] /\ saved.tomb \in [Entities -> Nat]
      /\ \A e \in Entities : saved.rec[e].rev \in Nat
  BY MetadataFields DEF Record
<1>2. IsFiniteSet(Entities)
  BY InventoryAssumption
<1>3. IsFiniteSet(revs)
  <2>1. f \in [Entities -> Nat] /\ revs = {f[e] : e \in Entities}
    BY <1>1
  <2> HIDE DEF f
  <2>2. \A g \in [Entities -> Nat] : IsFiniteSet({g[e] : e \in Entities})
    BY <1>2, FiniteImage
  <2> QED
    BY <2>1, <2>2
<1>4. IsFiniteSet(tombs)
  BY <1>1, <1>2, FiniteImage
<1>5. all \in SUBSET Nat /\ all # {}
  BY <1>1
<1>6. IsFiniteSet(all)
  <2> HIDE DEF revs, tombs
  <2> QED
    BY <1>3, <1>4, FS_Singleton, FS_Union
<1>7. \A e \in Entities : saved.rec[e].rev \in all /\ saved.tomb[e] \in all
  OBVIOUS
<1>8. Restored(saved) = [m |-> saved, rev |-> Max(all) + 1]
  BY DEF Restored
<1> HIDE DEF all
<1>9. Max(all) \in Nat /\ \A x \in all : x <= Max(all)
  BY <1>5, <1>6, MaxOfFinite
<1>10. Bounded(saved, Max(all) + 1)
  BY <1>1, <1>7, <1>9 DEF Bounded
<1> QED
  BY <1>8, <1>9, <1>10 DEF Sound, Inventories

\* Every start over a valid saved inventory makes a valid one, with a revision
\* above all that were saved (restore, Engine::start).
THEOREM RestartIsSound ==
  ASSUME NEW saved \in Metadata, Valid(saved), NEW current \in Nat
  PROVE  Sound(Restart(saved, current))
<1>1. {Host} \in SUBSET Entities /\ HostGroup \in Groups
      /\ [e \in {Host} |-> Plain] \in [{Host} -> Contents]
  BY InventoryAssumption DEF Entities
<1>2. Sound(Reconcile(Restored(saved), HostGroup, [e \in {Host} |-> Plain], 0, TRUE))
  BY <1>1, RestoredIsSound, Reconciled
<1> QED
  BY <1>2, QuotasConfigured DEF Restart

-----------------------------------------------------------------------------
(* The steps of heartbeats.                                                *)

HeartbeatRecords ==
  [gen : Nat, seq : Nat, rev : Nat, included : BOOLEAN,
   m : [rec : [Entities -> Record], tomb : [Entities -> Nat]], events : SUBSET Events]

Receivers ==
  [gen : Nat, seq : Nat, inv : Nat, ver : [Entities -> Version],
   receipts : SUBSET [gen : Nat, seq : Nat, ack : Ack],
   projected : [Events -> {0, 1}], alarm : [Removable -> Alarm]]

\* A heartbeat as the collector makes it.
Sane(hb) ==
  /\ hb \in HeartbeatRecords /\ hb.gen \in 1..MaxGen /\ hb.seq \in 1..MaxSeq
  /\ \A l \in Links : Present(hb.m, l) => Present(hb.m, From[l]) /\ Present(hb.m, To[l])
  /\ \A e \in Entities :
       /\ ~(Gone(hb.m, e) /\ Present(hb.m, e))
       /\ hb.m.rec[e].rev <= hb.rev /\ hb.m.tomb[e] <= hb.rev
       /\ ~hb.included => ~Gone(hb.m, e) /\ ~Present(hb.m, e)

\* A receiver as heartbeats leave it.
Consistent(s) ==
  /\ s \in Receivers
  /\ \A e \in Entities : /\ s.ver[e].gen <= s.gen
                         /\ s.ver[e].gen = s.gen => s.ver[e].rev <= s.inv
  /\ \A r \in s.receipts : r.gen < s.gen \/ (r.gen = s.gen /\ r.seq <= s.seq)

\* The entries of m, made later in the session, are those of h or newer.
Follows(h, m, rev) ==
  /\ h.rev <= rev
  /\ h.included => \A e \in Entities :
       /\ Present(m, e) => m.rec[e].rev > h.rev \/ m.rec[e] = h.m.rec[e]
       /\ Gone(m, e) => m.tomb[e] > h.rev \/ m.tomb[e] = h.m.tomb[e]

\* What h announces is still there, or has its tombstone.
Covered(h, m) ==
  h.included => \A e \in Entities : Present(h.m, e) => Present(m, e) \/ Gone(m, e)

\* The entries of m are those the receiver has of generation g, or newer, and
\* what is not in m has had its tombstone accepted.
Ahead(s, g, m, rev) ==
  /\ s.inv <= rev
  /\ \A e \in Entities :
       /\ Present(m, e) =>
            \/ m.rec[e].rev > s.inv
            \/ s.ver[e] = [gen |-> g, rev |-> m.rec[e].rev, val |-> m.rec[e].val]
       /\ Gone(m, e) =>
            \/ m.tomb[e] > s.inv
            \/ s.ver[e] = [gen |-> g, rev |-> m.tomb[e], val |-> Deleted]
       /\ ~Present(m, e) /\ ~Gone(m, e) => (s.ver[e].gen = g => s.ver[e].val = Deleted)

\* Two heartbeats, a heartbeat and a receiver.
Ordered(s, h, k) ==
  h.gen = k.gen /\ h.seq < k.seq =>
    /\ Follows(h, k.m, k.rev)
    /\ k.included /\ ~Stale(s, h) => Covered(h, k.m)

NotBehind(s, hb) ==
  s.gen = hb.gen /\ ~Stale(s, hb) =>
    s.inv <= hb.rev /\ (hb.included => Ahead(s, hb.gen, hb.m, hb.rev))

\* A heartbeat with events and without inventory is one whose inventory the
\* receiver has, until it is stale.
Grounded(s, hb) ==
  ~hb.included /\ hb.events # {} => Stale(s, hb) \/ (s.gen = hb.gen /\ s.inv = hb.rev)

\* What an answered heartbeat brought is there.
TakenIn(s, hb) ==
  /\ s.gen = hb.gen /\ hb.included => s.inv >= hb.rev
  /\ \A x \in hb.events : s.projected[x] = 1

-----------------------------------------------------------------------------
(* The inductive invariant.                                                *)

CollectorOK ==
  /\ gen \in 0..MaxGen /\ pc \in {"off", "opening", "on"} /\ inv \in Inventories
  /\ disk # None => disk \in Metadata /\ Valid(disk)
  /\ iack \in Nat /\ seq \in 0..MaxSeq /\ waiting \in {0, seq} /\ unsaved \in BOOLEAN
  /\ raised \subseteq Events /\ events \subseteq raised /\ lost \subseteq raised
  /\ pc # "off" => gen # 0
  /\ pc = "on" => Sound(inv)
  /\ pc # "on" => iack = 0 /\ events = {} /\ seq = 0 /\ waiting = 0 /\ mailbox = None

\* Where a session of generation g with its last sequence n may be from.
Past(g, n) == g <= gen /\ (g = gen => pc # "opening" /\ (pc = "on" => n <= seq))

NetworkOK ==
  /\ \A hb \in net : Sane(hb) /\ Past(hb.gen, hb.seq)
  /\ \A h, k \in net : /\ h.gen = k.gen /\ h.seq = k.seq => h = k
                       /\ Ordered(srv, h, k)

OwnInOrder ==
  pc = "on" => \A h \in net : h.gen = gen =>
    /\ Follows(h, inv.m, inv.rev)
    /\ ~Stale(srv, h) => Covered(h, inv.m)

ServerOK ==
  /\ Consistent(srv) /\ Past(srv.gen, srv.seq)
  /\ pc = "on" /\ srv.gen = gen => Ahead(srv, gen, inv.m, inv.rev)

DeliveryOK ==
  \A hb \in net : /\ NotBehind(srv, hb) /\ Grounded(srv, hb)
                  /\ Receipts(srv, hb) # {} => TakenIn(srv, hb)

AnswersOK ==
  /\ mailbox # None => /\ Sane(mailbox.sent) /\ mailbox.ack \in Ack
                       /\ mailbox.sent.gen = gen /\ srv.gen = gen
                       /\ TakenIn(srv, mailbox.sent)
  /\ iack # 0 => srv.gen = gen /\ srv.inv >= iack

IInv ==
  /\ CollectorOK /\ NetworkOK /\ OwnInOrder /\ ServerOK /\ DeliveryOK /\ AnswersOK
  /\ EventsAccountedFor

-----------------------------------------------------------------------------
(* Copies of an inventory.                                                 *)

\* Entries with dates, whichever copy they are of.
Dated(m) == \A e \in Entities : m.rec[e].rev \in Nat /\ m.tomb[e] \in Nat

\* What a well-formed heartbeat says of its fields.
LEMMA SaneIsDated ==
  ASSUME NEW hb, Sane(hb)
  PROVE  /\ Dated(hb.m) /\ hb.rev \in Nat /\ hb.gen \in Nat /\ hb.seq \in Nat
         /\ hb.included \in BOOLEAN /\ hb.events \subseteq Events
         /\ hb.m.rec \in [Entities -> Record] /\ hb.m.tomb \in [Entities -> Nat]
BY DEF Sane, HeartbeatRecords, Dated, Record

\* What a typed inventory says of its fields.
LEMMA SoundIsDated ==
  ASSUME NEW i \in Inventories
  PROVE  /\ Dated(i.m) /\ i.rev \in Nat /\ i.m \in Metadata
         /\ i.m.rec \in [Entities -> Record] /\ i.m.tomb \in [Entities -> Nat]
<1>1. i.m \in Metadata /\ i.rev \in Nat
  BY DEF Inventories
<1>2. i.m.rec \in [Entities -> Record] /\ i.m.tomb \in [Entities -> Nat]
  BY <1>1, MetadataFields
<1> QED
  BY <1>1, <1>2 DEF Dated, Record

\* The types of a consistent server.
LEMMA ConsistentTypes ==
  ASSUME NEW s, Consistent(s)
  PROVE  /\ s.gen \in Nat /\ s.seq \in Nat /\ s.inv \in Nat
         /\ s.ver \in [Entities -> Version]
         /\ \A e \in Entities : s.ver[e].gen \in Nat /\ s.ver[e].rev \in Nat
         /\ s.projected \in [Events -> {0, 1}] /\ s.alarm \in [Removable -> Alarm]
         /\ \A r \in s.receipts : r.gen \in Nat /\ r.seq \in Nat /\ r.ack \in Ack
BY DEF Consistent, Receivers, Version

\* An inventory that evolves stays a later copy.
LEMMA EvolvesFollows ==
  ASSUME NEW h, NEW old \in Inventories, NEW new \in Inventories, Evolves(old, new),
         h.rev \in Nat, Follows(h, old.m, old.rev)
  PROVE  /\ Follows(h, new.m, new.rev)
         /\ Covered(h, old.m) => Covered(h, new.m)
<1>1. /\ Dated(old.m) /\ old.rev \in Nat /\ Dated(new.m) /\ new.rev \in Nat
  BY SoundIsDated
<1>2. h.rev <= old.rev /\ old.rev <= new.rev
  BY DEF Follows, Evolves
<1>3. ASSUME NEW e \in Entities, h.included
      PROVE  /\ Present(new.m, e) => new.m.rec[e].rev > h.rev \/ new.m.rec[e] = h.m.rec[e]
             /\ Gone(new.m, e) => new.m.tomb[e] > h.rev \/ new.m.tomb[e] = h.m.tomb[e]
             /\ Present(old.m, e) \/ Gone(old.m, e) => Present(new.m, e) \/ Gone(new.m, e)
  <2>1. CASE SameEntry(old.m, new.m, e)
    BY <1>3, <2>1 DEF SameEntry, Follows, Present, Gone
  <2>2. CASE Present(new.m, e) /\ new.m.tomb[e] = 0 /\ new.m.rec[e].rev > old.rev
    BY <1>1, <1>2, <2>2 DEF Gone, Dated
  <2>3. CASE ~Present(new.m, e) /\ new.m.tomb[e] > old.rev
    BY <1>1, <1>2, <2>3 DEF Gone, Dated
  <2> QED
    BY <2>1, <2>2, <2>3 DEF Evolves
<1> QED
  BY <1>1, <1>2, <1>3 DEF Follows, Covered

\* An inventory that moves forward stays ahead of what the server has read of it.
LEMMA EvolvesAhead ==
  ASSUME NEW s, Consistent(s), NEW g \in Nat,
         NEW old \in Inventories, NEW new \in Inventories, Evolves(old, new),
         Ahead(s, g, old.m, old.rev)
  PROVE  Ahead(s, g, new.m, new.rev)
<1>1. /\ Dated(old.m) /\ old.rev \in Nat /\ Dated(new.m) /\ new.rev \in Nat
  BY SoundIsDated
<1>2. s.inv \in Nat /\ s.inv <= old.rev /\ old.rev <= new.rev
  BY ConsistentTypes DEF Ahead, Evolves
<1>3. ASSUME NEW e \in Entities
      PROVE  /\ Present(new.m, e) =>
                  \/ new.m.rec[e].rev > s.inv
                  \/ s.ver[e] = [gen |-> g, rev |-> new.m.rec[e].rev, val |-> new.m.rec[e].val]
             /\ Gone(new.m, e) =>
                  \/ new.m.tomb[e] > s.inv
                  \/ s.ver[e] = [gen |-> g, rev |-> new.m.tomb[e], val |-> Deleted]
             /\ ~Present(new.m, e) /\ ~Gone(new.m, e) =>
                  (s.ver[e].gen = g => s.ver[e].val = Deleted)
  <2>1. CASE SameEntry(old.m, new.m, e)
    BY <2>1 DEF SameEntry, Ahead, Present, Gone
  <2>2. CASE Present(new.m, e) /\ new.m.tomb[e] = 0 /\ new.m.rec[e].rev > old.rev
    BY <1>1, <1>2, <2>2 DEF Gone, Dated
  <2>3. CASE ~Present(new.m, e) /\ new.m.tomb[e] > old.rev
    BY <1>1, <1>2, <2>3 DEF Gone, Dated
  <2> QED
    BY <2>1, <2>2, <2>3 DEF Evolves
<1>4. s.inv <= new.rev
  BY <1>1, <1>2
<1> QED
  BY <1>3, <1>4 DEF Ahead

-----------------------------------------------------------------------------
(* What the server accepts.                                                *)

\* The versions of entities after an accepted heartbeat.
LEMMA SaidVersions ==
  ASSUME NEW hb, Sane(hb), NEW e \in Entities
  PROVE  /\ Present(hb.m, e) /\ hb.included =>
              /\ Says(hb, e)
              /\ SaidVersion(hb, e) =
                   [gen |-> hb.gen, rev |-> hb.m.rec[e].rev, val |-> hb.m.rec[e].val]
         /\ Gone(hb.m, e) /\ hb.included =>
              /\ Says(hb, e)
              /\ SaidVersion(hb, e) = [gen |-> hb.gen, rev |-> hb.m.tomb[e], val |-> Deleted]
         /\ Says(hb, e) => /\ hb.included /\ (Present(hb.m, e) \/ Gone(hb.m, e))
                           /\ SaidVersion(hb, e) \in Version
                           /\ SaidVersion(hb, e).gen = hb.gen
                           /\ SaidVersion(hb, e).rev <= hb.rev
<1>1. ~(Gone(hb.m, e) /\ Present(hb.m, e)) /\ hb.m.rec[e].rev <= hb.rev
      /\ hb.m.tomb[e] <= hb.rev
  BY DEF Sane
<1>2. hb.m.rec[e] \in Record /\ hb.m.tomb[e] \in Nat /\ hb.gen \in Nat
  BY SaneIsDated
<1>3. hb.m.rec[e].rev \in Nat /\ hb.m.rec[e].val \in Value
  BY <1>2 DEF Record
<1> QED
  BY <1>1, <1>2, <1>3 DEF Says, SaidVersion, Version

\* A receiver only moves forward: what was stale stays so.
LEMMA StaleForGood ==
  ASSUME NEW s, Consistent(s), NEW hb, Sane(hb), NEW h, Sane(h), NEW recent,
         ~Stale(s, hb), Stale(s, h)
  PROVE  Stale(Accepted(s, hb, recent), h)
<1>1. /\ Accepted(s, hb, recent).gen = hb.gen /\ Accepted(s, hb, recent).seq = hb.seq
  BY DEF Accepted
<1>2. hb.gen \in Nat /\ hb.seq \in Nat /\ h.gen \in Nat /\ h.seq \in Nat
  BY SaneIsDated
<1>3. s.gen \in Nat /\ s.seq \in Nat
  BY ConsistentTypes
<1> HIDE DEF Accepted
<1> QED
  BY <1>1, <1>2, <1>3 DEF Stale

\* The fields of a receiver n that has accepted hb.
Outcome(s, hb, n) ==
  /\ n.gen = hb.gen /\ n.seq = hb.seq /\ s.gen <= hb.gen
  /\ n.inv = (IF hb.included THEN hb.rev ELSE HeldRevision(s, hb))
  /\ n.inv \in Nat
  /\ n.ver \in [Entities -> Version]
  /\ \A e \in Entities : n.ver[e] = IF Says(hb, e) THEN SaidVersion(hb, e) ELSE s.ver[e]
  /\ [inv |-> n.inv, request |-> n.inv # hb.rev] \in Ack
  /\ n.receipts = s.receipts \cup
       {[gen |-> hb.gen, seq |-> hb.seq, ack |-> [inv |-> n.inv, request |-> n.inv # hb.rev]]}
  /\ n.projected = Projected(s, hb, n.inv = hb.rev)
  /\ n.alarm \in [Removable -> Alarm]

\* What the server holds after it accepts a heartbeat.
LEMMA AcceptedFields ==
  ASSUME NEW s, Consistent(s), NEW hb, Sane(hb), NEW recent, ~Stale(s, hb)
  PROVE  Outcome(s, hb, Accepted(s, hb, recent))
<1> DEFINE n == Accepted(s, hb, recent)
<1>1. /\ n.gen = hb.gen /\ n.seq = hb.seq
      /\ n.inv = (IF hb.included THEN hb.rev ELSE HeldRevision(s, hb))
      /\ n.ver = UpdateGraph(s, hb)
      /\ n.receipts = s.receipts \cup
              {[gen |-> hb.gen, seq |-> hb.seq,
                ack |-> [inv |-> n.inv, request |-> ~(n.inv = hb.rev)]]}
      /\ n.projected = Projected(s, hb, n.inv = hb.rev)
      /\ n.alarm \in {Alarms(s, hb, recent), s.alarm}
  BY DEF Accepted
<1> HIDE DEF n
<1>2. n.inv \in Nat
  BY <1>1, SaneIsDated, ConsistentTypes DEF HeldRevision
<1>3. /\ n.ver \in [Entities -> Version]
      /\ \A e \in Entities : n.ver[e] = IF Says(hb, e) THEN SaidVersion(hb, e) ELSE s.ver[e]
  <2>1. \A e \in Entities : Says(hb, e) => SaidVersion(hb, e) \in Version
    BY SaidVersions
  <2> QED
    BY <1>1, <2>1, ConsistentTypes DEF UpdateGraph
<1>4. Alarms(s, hb, recent) \in [Removable -> Alarm]
  <2>1. \A e \in Removable : s.ver[e].val # Never /\ s.ver[e].val # Deleted
                             => s.ver[e].val.session \in Nat
    BY ConsistentTypes, IngestionAssumption DEF Version, Value, Entities
  <2>2. \A e \in Removable : e \in Removed(s, hb) => s.ver[e].val.session \in Nat
    BY <2>1 DEF Removed, Holds
  <2>3. ASSUME NEW e \in Removable
        PROVE  /\ s.alarm[e] \in Alarm
               /\ e \in Removed(s, hb) =>
                    [state |-> "open", observed |-> s.ver[e].val.session, session |-> hb.gen]
                      \in Alarm
               /\ [s.alarm[e] EXCEPT !.state = "resolved"] \in Alarm
    BY <2>2, SaneIsDated, ConsistentTypes DEF Alarm
  <2> QED
    BY <2>3 DEF Alarms
<1>5. n.alarm \in [Removable -> Alarm]
  BY <1>1, <1>4, ConsistentTypes
<1>6. s.gen <= hb.gen
  BY SaneIsDated, ConsistentTypes DEF Stale
<1>7. [inv |-> n.inv, request |-> n.inv # hb.rev] \in Ack
  BY <1>2 DEF Ack
<1> QED
  BY <1>1, <1>2, <1>3, <1>5, <1>6, <1>7 DEF n, Outcome

\* The receiver stays consistent, and keeps what it counted.
LEMMA AcceptedIsConsistent ==
  ASSUME NEW s, Consistent(s), NEW hb, Sane(hb), NEW recent, ~Refused(s, hb)
  PROVE  /\ Consistent(Accepted(s, hb, recent))
         /\ \A x \in Events : s.projected[x] = 1 => Accepted(s, hb, recent).projected[x] = 1
<1> DEFINE n == Accepted(s, hb, recent)
<1>1. Outcome(s, hb, n)
  <2>1. ~Stale(s, hb)
    BY DEF Refused
  <2> QED
    BY <2>1, AcceptedFields
<1>2. n = [gen |-> n.gen, seq |-> n.seq, inv |-> n.inv, ver |-> n.ver,
           receipts |-> n.receipts, projected |-> n.projected, alarm |-> n.alarm]
  BY DEF Accepted
<1> HIDE DEF n
<1>3. hb.gen \in Nat /\ hb.seq \in Nat /\ hb.rev \in Nat /\ hb.included \in BOOLEAN
  BY SaneIsDated
<1>4. /\ s.gen \in Nat /\ s.seq \in Nat /\ s.inv \in Nat
      /\ s.projected \in [Events -> {0, 1}]
      /\ s.receipts \in SUBSET [gen : Nat, seq : Nat, ack : Ack]
      /\ \A r \in s.receipts : r.gen < s.gen \/ (r.gen = s.gen /\ r.seq <= s.seq)
      /\ ~Stale(s, hb) /\ ~(hb.rev < HeldRevision(s, hb))
  BY DEF Consistent, Receivers, Refused
<1>5. n.projected \in [Events -> {0, 1}]
      /\ \A x \in Events : s.projected[x] = 1 => n.projected[x] = 1
  BY <1>1, <1>4 DEF Projected, Outcome
<1>6. n.receipts \in SUBSET [gen : Nat, seq : Nat, ack : Ack]
  BY <1>1, <1>3, <1>4 DEF Outcome
<1>7. n \in Receivers
  BY <1>1, <1>2, <1>3, <1>5, <1>6 DEF Receivers, Outcome
<1>8. ASSUME NEW e \in Entities
      PROVE  n.ver[e].gen <= n.gen /\ (n.ver[e].gen = n.gen => n.ver[e].rev <= n.inv)
  <2>1. CASE Says(hb, e)
    <3>1. hb.included /\ SaidVersion(hb, e).gen = hb.gen /\ SaidVersion(hb, e).rev <= hb.rev
      BY <2>1, SaidVersions
    <3> QED
      BY <1>1, <1>3, <2>1, <3>1 DEF Outcome
  <2>2. CASE ~Says(hb, e)
    <3>1. /\ s.ver[e].gen <= s.gen /\ (s.ver[e].gen = s.gen => s.ver[e].rev <= s.inv)
          /\ s.ver[e].gen \in Nat /\ s.ver[e].rev \in Nat
      BY ConsistentTypes DEF Consistent
    <3> QED
      BY <1>1, <1>3, <1>4, <2>2, <3>1 DEF HeldRevision, Outcome
  <2> QED
    BY <2>1, <2>2
<1>9. ASSUME NEW r \in n.receipts
      PROVE  r.gen < n.gen \/ (r.gen = n.gen /\ r.seq <= n.seq)
  <2>1. CASE r \in s.receipts
    <3>1. r.gen \in Nat /\ r.seq \in Nat
          /\ (r.gen < s.gen \/ (r.gen = s.gen /\ r.seq <= s.seq))
      BY <1>4, <2>1
    <3> QED
      BY <1>1, <1>3, <1>4, <3>1 DEF Stale, Outcome
  <2>2. CASE r \notin s.receipts
    BY <1>1, <1>3, <2>2 DEF Outcome
  <2> QED
    BY <2>1, <2>2
<1>10. Consistent(n)
  BY <1>7, <1>8, <1>9 DEF Consistent
<1> QED
  BY <1>5, <1>10 DEF n

\* A later copy of what was accepted is ahead of the receiver: the one that
\* follows hb and covers it.
LEMMA AcceptedIsBehind ==
  ASSUME NEW s, Consistent(s), NEW hb, Sane(hb), NEW recent, ~Refused(s, hb),
         NEW m, Dated(m), NEW rev \in Nat, Follows(hb, m, rev), Covered(hb, m),
         s.gen = hb.gen => Ahead(s, hb.gen, m, rev)
  PROVE  Ahead(Accepted(s, hb, recent), hb.gen, m, rev)
<1> DEFINE n == Accepted(s, hb, recent)
<1>1. Outcome(s, hb, n)
  <2>1. ~Stale(s, hb)
    BY DEF Refused
  <2> QED
    BY <2>1, AcceptedFields
<1> HIDE DEF n
<1> DEFINE Good(e) == /\ Present(m, e) =>
                           \/ m.rec[e].rev > n.inv
                           \/ n.ver[e] = [gen |-> hb.gen, rev |-> m.rec[e].rev,
                                          val |-> m.rec[e].val]
                      /\ Gone(m, e) =>
                           \/ m.tomb[e] > n.inv
                           \/ n.ver[e] = [gen |-> hb.gen, rev |-> m.tomb[e], val |-> Deleted]
                      /\ ~Present(m, e) /\ ~Gone(m, e) =>
                           (n.ver[e].gen = hb.gen => n.ver[e].val = Deleted)
<1>2. /\ hb.gen \in Nat /\ hb.rev \in Nat /\ hb.included \in BOOLEAN
      /\ s.gen \in Nat /\ s.inv \in Nat
  BY SaneIsDated, ConsistentTypes
<1>3. ASSUME NEW e \in Entities
      PROVE  /\ m.rec[e].rev \in Nat /\ m.tomb[e] \in Nat
             /\ s.ver[e].gen \in Nat /\ s.ver[e].gen <= s.gen
  BY ConsistentTypes DEF Dated, Consistent
<1>4. CASE hb.included
  <2>1. n.inv = hb.rev /\ hb.rev <= rev
    BY <1>1, <1>4 DEF Follows, Outcome
  <2>2. ASSUME NEW e \in Entities PROVE Good(e)
    <3>1. ASSUME Present(m, e) PROVE m.rec[e].rev > hb.rev
             \/ n.ver[e] = [gen |-> hb.gen, rev |-> m.rec[e].rev, val |-> m.rec[e].val]
      <4>1. CASE m.rec[e] = hb.m.rec[e]
        <5>1. Present(hb.m, e)
          BY <3>1, <4>1 DEF Present
        <5> QED
          BY <1>1, <1>4, <4>1, <5>1, SaidVersions DEF Outcome
      <4> QED
        BY <1>4, <3>1, <4>1 DEF Follows
    <3>2. ASSUME Gone(m, e) PROVE m.tomb[e] > hb.rev
             \/ n.ver[e] = [gen |-> hb.gen, rev |-> m.tomb[e], val |-> Deleted]
      <4>1. CASE m.tomb[e] = hb.m.tomb[e]
        <5>1. Gone(hb.m, e)
          BY <3>2, <4>1 DEF Gone
        <5> QED
          BY <1>1, <1>4, <4>1, <5>1, SaidVersions DEF Outcome
      <4> QED
        BY <1>4, <3>2, <4>1 DEF Follows
    <3>3. ASSUME ~Present(m, e), ~Gone(m, e), n.ver[e].gen = hb.gen
          PROVE  n.ver[e].val = Deleted
      <4>1. ~Present(hb.m, e)
        BY <1>4, <3>3 DEF Covered
      <4>2. CASE Gone(hb.m, e)
        BY <1>1, <1>4, <4>2, SaidVersions DEF Outcome
      <4>3. CASE ~Gone(hb.m, e)
        <5>1. n.ver[e] = s.ver[e]
          BY <1>1, <4>1, <4>3 DEF Says, Outcome
        <5>2. s.gen = hb.gen
          BY <1>1, <1>2, <1>3, <3>3, <5>1 DEF Outcome
        <5> QED
          BY <3>3, <5>1, <5>2 DEF Ahead
      <4> QED
        BY <4>2, <4>3
    <3> QED
      BY <2>1, <3>1, <3>2, <3>3
  <2> QED
    BY <2>1, <2>2 DEF Ahead, n
<1>5. CASE ~hb.included
  <2>1. n.inv = HeldRevision(s, hb) /\ \A e \in Entities : n.ver[e] = s.ver[e]
    BY <1>1, <1>5 DEF Says, Outcome
  <2>2. CASE s.gen = hb.gen
    <3>1. n.inv = s.inv
      BY <1>2, <2>1, <2>2 DEF HeldRevision
    <3> QED
      BY <2>1, <2>2, <3>1 DEF Ahead, n
  <2>3. CASE s.gen # hb.gen
    <3>1. n.inv = 0
      BY <1>1, <1>2, <2>1, <2>3 DEF HeldRevision, Outcome
    <3>2. ASSUME NEW e \in Entities PROVE Good(e)
      BY <1>1, <1>2, <1>3, <2>1, <2>3, <3>1 DEF Present, Gone, Outcome
    <3> QED
      BY <3>1, <3>2 DEF Ahead, n
  <2> QED
    BY <2>2, <2>3
<1> QED
  BY <1>2, <1>4, <1>5

\* The other heartbeats after hb was accepted: those sent later are still not
\* behind, and one that relies on the receiver's inventory still may.
LEMMA AcceptedNotBehind ==
  ASSUME NEW s, Consistent(s), NEW hb, Sane(hb), NEW recent, ~Refused(s, hb),
         NEW k, Sane(k), Ordered(s, hb, k), NotBehind(s, k)
  PROVE  NotBehind(Accepted(s, hb, recent), k)
<1> DEFINE n == Accepted(s, hb, recent)
<1>1. Outcome(s, hb, n) /\ ~Stale(s, hb)
  <2>1. ~Stale(s, hb)
    BY DEF Refused
  <2> QED
    BY <2>1, AcceptedFields
<1>2. Stale(s, k) => Stale(n, k)
  BY <1>1, StaleForGood
<1>3. SUFFICES ASSUME n.gen = k.gen, ~Stale(n, k)
               PROVE  n.inv <= k.rev /\ (k.included => Ahead(n, k.gen, k.m, k.rev))
  BY DEF NotBehind
<1>4. /\ Dated(k.m) /\ k.rev \in Nat /\ k.gen \in Nat /\ k.seq \in Nat /\ hb.seq \in Nat
      /\ k.included \in BOOLEAN /\ hb.included \in BOOLEAN
  BY SaneIsDated
<1> HIDE DEF n
<1>5. k.gen = hb.gen /\ hb.seq < k.seq
  BY <1>1, <1>3, <1>4 DEF Outcome, Stale
<1>6. Follows(hb, k.m, k.rev) /\ (k.included => Covered(hb, k.m))
  BY <1>1, <1>5 DEF Ordered
<1>7. s.gen = hb.gen => s.inv <= k.rev /\ (k.included => Ahead(s, hb.gen, k.m, k.rev))
  BY <1>2, <1>3, <1>5 DEF NotBehind
<1>8. k.included => Ahead(n, k.gen, k.m, k.rev)
  BY <1>4, <1>5, <1>6, <1>7, AcceptedIsBehind DEF n
<1>9. n.inv <= k.rev
  <2>1. s.gen \in Nat /\ s.inv \in Nat /\ hb.gen \in Nat /\ hb.rev \in Nat
    BY ConsistentTypes, SaneIsDated
  <2>2. hb.rev <= k.rev
    BY <1>6 DEF Follows
  <2> QED
    BY <1>1, <1>4, <1>7, <2>1, <2>2 DEF Outcome, HeldRevision
<1> QED
  BY <1>8, <1>9

\* Accepting one heartbeat leaves every other one fit to arrive later.
LEMMA AcceptedGrounded ==
  ASSUME NEW s, Consistent(s), NEW hb, Sane(hb), NEW recent, ~Refused(s, hb),
         NEW k, Sane(k), Ordered(s, hb, k), Grounded(s, k)
  PROVE  Grounded(Accepted(s, hb, recent), k)
<1> DEFINE n == Accepted(s, hb, recent)
<1>1. Outcome(s, hb, n) /\ ~Stale(s, hb)
  <2>1. ~Stale(s, hb)
    BY DEF Refused
  <2> QED
    BY <2>1, AcceptedFields
<1>2. Stale(s, k) => Stale(n, k)
  BY <1>1, StaleForGood
<1>3. SUFFICES ASSUME ~k.included, k.events # {}, ~Stale(n, k)
               PROVE  n.gen = k.gen /\ n.inv = k.rev
  BY DEF Grounded
<1>4. /\ k.rev \in Nat /\ k.gen \in Nat /\ k.seq \in Nat
      /\ hb.seq \in Nat /\ hb.gen \in Nat /\ hb.rev \in Nat /\ hb.included \in BOOLEAN
  BY SaneIsDated
<1>5. s.gen \in Nat /\ s.inv \in Nat
  BY ConsistentTypes
<1> HIDE DEF n
<1>6. s.gen = k.gen /\ s.inv = k.rev
  BY <1>2, <1>3 DEF Grounded
<1>7. k.gen = hb.gen /\ hb.seq < k.seq
  BY <1>1, <1>3, <1>4, <1>5, <1>6 DEF Outcome, Stale
<1>8. hb.rev <= k.rev
  BY <1>7 DEF Ordered, Follows
<1>9. HeldRevision(s, hb) = s.inv /\ hb.rev >= s.inv
  BY <1>4, <1>5, <1>6, <1>7 DEF HeldRevision, Refused
<1> QED
  BY <1>1, <1>4, <1>5, <1>6, <1>7, <1>8, <1>9 DEF Outcome

\* What hb brings is taken in with it.
LEMMA AcceptedTakenIn ==
  ASSUME NEW s, Consistent(s), NEW hb, Sane(hb), NEW recent, ~Refused(s, hb),
         Grounded(s, hb)
  PROVE  TakenIn(Accepted(s, hb, recent), hb)
<1> DEFINE n == Accepted(s, hb, recent)
<1>1. Outcome(s, hb, n) /\ ~Stale(s, hb)
  <2>1. ~Stale(s, hb)
    BY DEF Refused
  <2> QED
    BY <2>1, AcceptedFields
<1> HIDE DEF n
<1>2. hb.rev \in Nat /\ hb.gen \in Nat /\ hb.included \in BOOLEAN /\ hb.events \subseteq Events
  BY SaneIsDated
<1>3. hb.events # {} => n.inv = hb.rev
  BY <1>1, <1>2, ConsistentTypes DEF Outcome, Grounded, HeldRevision
<1>4. \A x \in hb.events : n.projected[x] = 1
  BY <1>1, <1>2, <1>3, ConsistentTypes DEF Outcome, Projected
<1> QED
  BY <1>1, <1>2, <1>4 DEF Outcome, TakenIn, n

\* What was taken in before stays.
LEMMA StaysTakenIn ==
  ASSUME NEW s, Consistent(s), NEW hb, Sane(hb), NEW recent, ~Refused(s, hb),
         NEW k, Sane(k), k.gen <= s.gen, TakenIn(s, k)
  PROVE  TakenIn(Accepted(s, hb, recent), k)
<1> DEFINE n == Accepted(s, hb, recent)
<1>1. Outcome(s, hb, n) /\ ~Stale(s, hb)
  <2>1. ~Stale(s, hb)
    BY DEF Refused
  <2> QED
    BY <2>1, AcceptedFields
<1>2. \A x \in Events : s.projected[x] = 1 => n.projected[x] = 1
  BY AcceptedIsConsistent
<1> HIDE DEF n
<1>3. /\ k.gen \in Nat /\ k.rev \in Nat /\ k.events \subseteq Events
      /\ hb.gen \in Nat /\ hb.rev \in Nat /\ s.gen \in Nat /\ s.inv \in Nat
  BY SaneIsDated, ConsistentTypes
<1>4. ~(hb.rev < HeldRevision(s, hb))
  BY DEF Refused
<1>5. n.gen = k.gen /\ k.included => n.inv >= k.rev
  BY <1>1, <1>3, <1>4 DEF Outcome, HeldRevision, TakenIn
<1> QED
  BY <1>2, <1>3, <1>5 DEF TakenIn, n

\* A heartbeat that is not late and not behind is never refused.
LEMMA NeverRefused ==
  ASSUME NEW s, Consistent(s), NEW hb, Sane(hb), ~Stale(s, hb), NotBehind(s, hb)
  PROVE  ~Refused(s, hb)
<1>1. /\ hb.gen \in Nat /\ hb.rev \in Nat /\ Dated(hb.m)
      /\ s.gen \in Nat /\ s.inv \in Nat /\ s.gen <= hb.gen
  BY SaneIsDated, ConsistentTypes DEF Stale
<1>2. Resolved(s, hb)
  BY DEF Resolved, Sane
<1>3. ~(hb.rev < HeldRevision(s, hb))
  BY <1>1 DEF HeldRevision, NotBehind
<1>4. ASSUME NEW e \in Entities PROVE ~Conflicting(s, hb, e)
  <2>1. SUFFICES ASSUME Says(hb, e), s.ver[e].gen = SaidVersion(hb, e).gen
                 PROVE  LET old == s.ver[e] new == SaidVersion(hb, e) IN
                        new.rev > old.rev \/ (new.rev = old.rev /\ new.val = old.val)
    <3>1. s.ver[e].rev \in Nat /\ (Says(hb, e) => SaidVersion(hb, e).rev \in Nat)
      BY ConsistentTypes, SaidVersions DEF Version
    <3> QED
      BY <3>1 DEF Conflicting
  <2>2. hb.included /\ (Present(hb.m, e) \/ Gone(hb.m, e)) /\ SaidVersion(hb, e).gen = hb.gen
    BY <2>1, SaidVersions
  <2>3. s.ver[e].gen <= s.gen /\ s.ver[e].gen \in Nat /\ s.ver[e].rev \in Nat
    BY ConsistentTypes DEF Consistent
  <2>4. s.gen = hb.gen
    BY <1>1, <2>1, <2>2, <2>3
  <2>5. Ahead(s, hb.gen, hb.m, hb.rev) /\ s.ver[e].rev <= s.inv
    BY <2>1, <2>2, <2>4 DEF NotBehind, Consistent
  <2>6. CASE Present(hb.m, e)
    <3>1. SaidVersion(hb, e) = [gen |-> hb.gen, rev |-> hb.m.rec[e].rev, val |-> hb.m.rec[e].val]
      BY <2>2, <2>6, SaidVersions
    <3>2. \/ hb.m.rec[e].rev > s.inv
          \/ s.ver[e] = [gen |-> hb.gen, rev |-> hb.m.rec[e].rev, val |-> hb.m.rec[e].val]
      BY <2>5, <2>6 DEF Ahead
    <3> QED
      BY <1>1, <2>3, <2>5, <3>1, <3>2 DEF Dated
  <2>7. CASE Gone(hb.m, e)
    <3>1. SaidVersion(hb, e) = [gen |-> hb.gen, rev |-> hb.m.tomb[e], val |-> Deleted]
      BY <2>2, <2>7, SaidVersions
    <3>2. \/ hb.m.tomb[e] > s.inv
          \/ s.ver[e] = [gen |-> hb.gen, rev |-> hb.m.tomb[e], val |-> Deleted]
      BY <2>5, <2>7 DEF Ahead
    <3> QED
      BY <1>1, <2>3, <2>5, <3>1, <3>2 DEF Dated
  <2> QED
    BY <2>2, <2>6, <2>7
<1> QED
  BY <1>2, <1>3, <1>4 DEF Refused

-----------------------------------------------------------------------------
(* The steps of the collector.                                             *)

\* The invariant holds when the collector first starts.
LEMMA Initially == Init => IInv
<1> SUFFICES ASSUME Init PROVE IInv
  OBVIOUS
<1>1. gen = 0 /\ pc = "off" /\ net = {} /\ srv = NewReceiver
  BY DEF Init
<1>2. inv \in Inventories
  <2>1. NoInventory.m \in Metadata
    <3>1. [g \in {} |-> {}] \in [{} -> SUBSET Entities] /\ {} \in SUBSET Groups
      OBVIOUS
    <3> QED
      BY <3>1, EntityTypes DEF NoInventory, Metadata
  <2> QED
    BY <2>1 DEF Init, NoInventory, Inventories
<1>3. CollectorOK
  <2>1. /\ gen = 0 /\ pc = "off" /\ disk = None /\ iack = 0 /\ seq = 0 /\ waiting = 0
        /\ unsaved = FALSE /\ raised = {} /\ events = {} /\ lost = {} /\ mailbox = None
    BY DEF Init
  <2>2. gen \in 0..MaxGen /\ seq \in 0..MaxSeq
    BY <2>1, HeartbeatsAssumption
  <2>3. unsaved \in BOOLEAN
    BY <2>1
  <2> QED
    BY <1>2, <2>1, <2>2, <2>3 DEF CollectorOK
<1>4. Consistent(srv)
  BY <1>1 DEF NewReceiver, Consistent, Receivers, Version, Alarm
<1>5. NetworkOK /\ OwnInOrder /\ ServerOK /\ DeliveryOK
  BY <1>1, <1>4 DEF NetworkOK, OwnInOrder, ServerOK, DeliveryOK, Past, NewReceiver
<1>6. AnswersOK /\ EventsAccountedFor
  BY DEF Init, AnswersOK, EventsAccountedFor
<1> QED
  BY <1>3, <1>5, <1>6 DEF IInv

\* A step of the state owner, under which the inventory evolves.
LEMMA InventoryStep ==
  ASSUME IInv, pc = "on", pc' = "on", inv' \in Inventories, Evolves(inv, inv'),
         UNCHANGED <<gen, seq, net, srv>>
  PROVE  NetworkOK' /\ OwnInOrder' /\ ServerOK' /\ DeliveryOK'
<1>1. inv \in Inventories /\ gen \in Nat
  BY DEF IInv, CollectorOK
<1>2. Consistent(srv)
  BY DEF IInv, ServerOK
<1>3. NetworkOK' /\ DeliveryOK'
  BY DEF IInv, NetworkOK, DeliveryOK, Past
<1>4. ServerOK'
  <2>1. srv.gen = gen => Ahead(srv, gen, inv'.m, inv'.rev)
    BY <1>1, <1>2, EvolvesAhead DEF IInv, ServerOK
  <2> QED
    BY <2>1 DEF IInv, ServerOK, Past
<1>5. OwnInOrder'
  <2>1. ASSUME NEW h \in net, h.gen = gen
        PROVE  /\ Follows(h, inv'.m, inv'.rev)
               /\ ~Stale(srv, h) => Covered(h, inv'.m)
    <3>1. h.rev \in Nat
      BY SaneIsDated DEF IInv, NetworkOK
    <3> QED
      BY <1>1, <2>1, <3>1, EvolvesFollows DEF IInv, OwnInOrder
  <2> QED
    BY <2>1 DEF OwnInOrder
<1> QED
  BY <1>3, <1>4, <1>5

\* A step that touches neither the inventory nor the network nor the server.
LEMMA OwnStep ==
  ASSUME IInv, UNCHANGED <<gen, pc, inv, seq, net, srv>>
  PROVE  NetworkOK' /\ OwnInOrder' /\ ServerOK' /\ DeliveryOK'
BY DEF IInv, NetworkOK, OwnInOrder, ServerOK, DeliveryOK, Past

\* Room in the buffer or not, an event is accounted for.
LEMMA Buffered ==
  ASSUME IInv, NEW x \in Events, Buffer(x), UNCHANGED srv
  PROVE  /\ raised' \subseteq Events /\ events' \subseteq raised' /\ lost' \subseteq raised'
         /\ EventsAccountedFor'
BY DEF IInv, CollectorOK, Buffer, EventsAccountedFor

\* A new session has a new generation, so nothing the server holds bears it.
LEMMA OpenStep == ASSUME IInv, Open PROVE IInv'
<1>1. gen \in Nat /\ gen' = gen + 1 /\ gen' \in 0..MaxGen /\ gen' # 0 /\ pc = "off"
      /\ pc' = "opening"
  BY HeartbeatsAssumption DEF IInv, CollectorOK, Open
<1>2. CollectorOK'
  BY <1>1 DEF IInv, CollectorOK, Open, session, world
<1>3. \A g, n : g \in Nat /\ Past(g, n) => Past(g, n)'
  BY <1>1 DEF Past
<1>4. NetworkOK'
  <2>1. \A hb \in net : hb.gen \in Nat
    BY SaneIsDated DEF IInv, NetworkOK
  <2>2. net' = net /\ srv' = srv
    BY DEF Open
  <2> QED
    BY <1>3, <2>1, <2>2 DEF IInv, NetworkOK
<1>5. OwnInOrder' /\ DeliveryOK'
  BY <1>1 DEF IInv, Open, OwnInOrder, DeliveryOK
<1>6. ServerOK'
  <2>1. srv.gen \in Nat /\ srv' = srv
    BY ConsistentTypes DEF IInv, ServerOK, Open
  <2> QED
    BY <1>1, <1>3, <2>1 DEF IInv, ServerOK
<1>7. AnswersOK' /\ EventsAccountedFor'
  BY <1>1 DEF IInv, CollectorOK, Open, AnswersOK, EventsAccountedFor, session, world
<1> QED
  BY <1>2, <1>4, <1>5, <1>6, <1>7 DEF IInv

\* A session begins: nothing was sent in it yet.
LEMMA BeginStep ==
  ASSUME IInv, pc = "opening", pc' = "on", Sound(inv'),
         disk' # None => disk' \in Metadata /\ Valid(disk'),
         UNCHANGED <<gen, session, unsaved, net, srv, world>>
  PROVE  IInv'
<1>1. CollectorOK'
  BY DEF IInv, CollectorOK, session, world, Sound
<1>2. \A g, n : Past(g, n) => g <= gen /\ g # gen /\ Past(g, n)'
  BY DEF Past
<1>3. NetworkOK' /\ OwnInOrder' /\ ServerOK' /\ DeliveryOK'
  BY <1>2 DEF IInv, NetworkOK, OwnInOrder, ServerOK, DeliveryOK
<1>4. AnswersOK' /\ EventsAccountedFor'
  BY DEF IInv, CollectorOK, AnswersOK, EventsAccountedFor, session, world
<1> QED
  BY <1>1, <1>3, <1>4 DEF IInv

\* The start over a saved inventory.
LEMMA StartOverStep == ASSUME IInv, StartOver PROVE IInv'
<1>1. disk \in Metadata /\ Valid(disk) /\ gen \in Nat
  BY DEF IInv, CollectorOK, StartOver
<1>2. Sound(inv')
  BY <1>1, RestartIsSound DEF StartOver
<1> QED
  BY <1>1, <1>2, BeginStep DEF StartOver, durable

\* The start without a saved inventory.
LEMMA StartFirstStep == ASSUME IInv, StartFirst PROVE IInv'
<1>1. gen \in Nat
  BY DEF IInv, CollectorOK
<1>2. Sound(inv')
  BY <1>1, FirstIsSound, QuotasConfigured DEF StartFirst
<1>3. First.m \in Metadata /\ Valid(First.m)
  BY FirstIsSound DEF Sound, Inventories
<1> QED
  BY <1>2, <1>3, BeginStep DEF StartFirst

\* A refused start changes the program counter only.
LEMMA StartRefusedStep == ASSUME IInv, StartRefused PROVE IInv'
<1>1. pc = "opening" /\ pc' = "off"
  BY DEF StartRefused
<1>2. CollectorOK' /\ AnswersOK' /\ EventsAccountedFor'
  BY DEF IInv, CollectorOK, AnswersOK, EventsAccountedFor, StartRefused, durable, session, world
<1>3. UNCHANGED <<gen, net, srv>> /\ \A g, n : Past(g, n) => Past(g, n)'
  BY DEF StartRefused, Past, durable
<1>4. NetworkOK' /\ OwnInOrder' /\ ServerOK' /\ DeliveryOK'
  BY <1>1, <1>3 DEF IInv, NetworkOK, OwnInOrder, ServerOK, DeliveryOK
<1> QED
  BY <1>2, <1>4 DEF IInv

\* An enumeration moves the inventory forward.
LEMMA EnumeratedStep ==
  ASSUME IInv, NEW g \in Groups, NEW D \in SUBSET Entities, NEW found \in [D -> Contents],
         NEW complete \in BOOLEAN, Enumerated(g, found, complete)
  PROVE  IInv'
<1>1. pc = "on" /\ Sound(inv) /\ inv \in Inventories /\ gen \in Nat
  BY DEF IInv, CollectorOK, Enumerated
<1>2. inv' = Enumerate(inv, g, found, gen, complete)
  BY DEF Enumerated
<1>3. Sound(inv') /\ Evolves(inv, inv') /\ inv' \in Inventories
  <2>1. /\ Sound(Enumerate(inv, g, found, gen, complete))
        /\ Evolves(inv, Enumerate(inv, g, found, gen, complete))
    BY <1>1, EnumerationIsSound
  <2> QED
    BY <1>2, <2>1 DEF Sound
<1>4. /\ pc' = pc /\ UNCHANGED <<gen, disk, iack, seq, waiting, mailbox, net, srv>>
      /\ unsaved' = (unsaved \/ Changed(inv, inv'))
      /\ UNCHANGED <<events, world>> \/ \E x \in Events \ raised : Buffer(x)
  BY DEF Enumerated, durable
<1>5. NetworkOK' /\ OwnInOrder' /\ ServerOK' /\ DeliveryOK'
  BY <1>1, <1>3, <1>4, InventoryStep
<1>6. /\ raised' \subseteq Events /\ events' \subseteq raised' /\ lost' \subseteq raised'
      /\ EventsAccountedFor'
  <2>1. CASE UNCHANGED <<events, world>>
    BY <1>4, <2>1 DEF IInv, CollectorOK, EventsAccountedFor, world
  <2>2. ASSUME NEW x \in Events \ raised, Buffer(x) PROVE <1>6!1 /\ <1>6!2
    BY <1>4, <2>2, Buffered
  <2> QED
    BY <1>4, <2>1, <2>2
<1>7. unsaved' \in BOOLEAN
  BY <1>4 DEF Changed
<1>8. CollectorOK'
  BY <1>1, <1>3, <1>4, <1>6, <1>7 DEF IInv, CollectorOK
<1>9. AnswersOK'
  BY <1>4 DEF IInv, AnswersOK
<1> QED
  BY <1>5, <1>6, <1>8, <1>9 DEF IInv

\* A new event waits in the collector.
LEMMA RaiseStep == ASSUME IInv, NEW x \in Events, Raise(x) PROVE IInv'
<1>1. /\ pc = "on" /\ Buffer(x)
      /\ UNCHANGED <<gen, disk, pc, inv, iack, seq, waiting, mailbox, unsaved, net, srv>>
  BY DEF Raise, durable
<1>2. NetworkOK' /\ OwnInOrder' /\ ServerOK' /\ DeliveryOK'
  BY <1>1, OwnStep
<1>3. /\ raised' \subseteq Events /\ events' \subseteq raised' /\ lost' \subseteq raised'
      /\ EventsAccountedFor'
  BY <1>1, Buffered
<1>4. CollectorOK'
  BY <1>1, <1>3 DEF IInv, CollectorOK
<1>5. AnswersOK'
  BY <1>1 DEF IInv, AnswersOK
<1> QED
  BY <1>2, <1>3, <1>4, <1>5 DEF IInv

\* A request of the server for an inventory makes the next heartbeat announce it.
LEMMA RequestInventoryStep == ASSUME IInv, RequestInventory PROVE IInv'
<1>1. /\ pc = "on" /\ iack' = 0
      /\ UNCHANGED <<gen, disk, pc, inv, events, seq, waiting, mailbox, unsaved, net, srv,
                     raised, lost>>
  BY DEF RequestInventory, durable, world
<1>2. NetworkOK' /\ OwnInOrder' /\ ServerOK' /\ DeliveryOK'
  BY <1>1, OwnStep
<1>3. CollectorOK' /\ AnswersOK' /\ EventsAccountedFor'
  BY <1>1 DEF IInv, CollectorOK, AnswersOK, EventsAccountedFor
<1> QED
  BY <1>2, <1>3 DEF IInv

\* The inventory written to disk is the one in memory.
LEMMA PersistStep == ASSUME IInv, Persist PROVE IInv'
<1>1. /\ pc = "on" /\ disk' = inv.m /\ unsaved' = FALSE
      /\ UNCHANGED <<gen, pc, inv, iack, events, seq, waiting, mailbox, net, srv, raised, lost>>
  BY DEF Persist, session, world
<1>2. NetworkOK' /\ OwnInOrder' /\ ServerOK' /\ DeliveryOK'
  BY <1>1, OwnStep
<1>3. inv.m \in Metadata /\ Valid(inv.m)
  BY <1>1 DEF IInv, CollectorOK, Sound, Inventories
<1>4. CollectorOK' /\ AnswersOK' /\ EventsAccountedFor'
  BY <1>1, <1>3 DEF IInv, CollectorOK, AnswersOK, EventsAccountedFor
<1> QED
  BY <1>2, <1>4 DEF IInv

\* An acknowledgement lets go of a tombstone only when the server has it, so
\* no heartbeat that can still be accepted brings the entity back.
LEMMA HandleAckStep == ASSUME IInv, HandleAck PROVE IInv'
<1> DEFINE sent == mailbox.sent
           ack == mailbox.ack
<1>1. /\ pc = "on" /\ mailbox # None
      /\ iack' = AckedRevision(sent, ack)
      /\ inv' = [inv EXCEPT !.m.tomb = AckedTombstones(sent, ack)]
      /\ unsaved' = (unsaved \/ Changed(inv, inv'))
      /\ events' = events \ sent.events /\ mailbox' = None
      /\ UNCHANGED <<gen, disk, pc, seq, waiting, net, srv, raised, lost>>
  BY DEF HandleAck, durable, world
<1>2. /\ Sane(sent) /\ ack \in Ack /\ sent.gen = gen /\ srv.gen = gen /\ TakenIn(srv, sent)
  BY <1>1 DEF IInv, AnswersOK
<1> HIDE DEF sent, ack
<1>3. /\ Sound(inv) /\ inv \in Inventories /\ Dated(inv.m) /\ inv.rev \in Nat
      /\ inv.m \in Metadata /\ inv.m.tomb \in [Entities -> Nat]
  BY <1>1, SoundIsDated DEF IInv, CollectorOK
<1>4. /\ sent.m.tomb \in [Entities -> Nat] /\ sent.rev \in Nat
      /\ \A e \in Entities : sent.m.tomb[e] <= sent.rev
  BY <1>2, SaneIsDated DEF Sane
<1>5. Consistent(srv) /\ Ahead(srv, gen, inv.m, inv.rev) /\ srv.inv \in Nat
  BY <1>1, <1>2, ConsistentTypes DEF IInv, ServerOK
<1> DEFINE t == AckedTombstones(sent, ack)
<1>6. t \in [Entities -> Nat]
  BY <1>3 DEF AckedTombstones
<1>7. ASSUME NEW e \in Entities
      PROVE  \/ t[e] = inv.m.tomb[e]
             \/ t[e] = 0 /\ inv.m.tomb[e] <= srv.inv
  BY <1>2, <1>3, <1>4, <1>5 DEF AckedTombstones, TakenIn
<1> HIDE DEF t
<1>8. /\ inv' \in Inventories /\ inv'.rev = inv.rev /\ inv'.m \in Metadata
      /\ inv'.m.rec = inv.m.rec /\ inv'.m.tomb = t /\ inv'.m.groups = inv.m.groups
  BY <1>1, <1>3, <1>6 DEF Inventories, Metadata, t
<1>9. Sound(inv')
  <2>1. \A e \in Entities : /\ Present(inv'.m, e) <=> Present(inv.m, e)
                            /\ Gone(inv'.m, e) => Gone(inv.m, e)
    BY <1>7, <1>8 DEF Present, Gone
  <2>2. Valid(inv'.m)
    BY <1>3, <1>8, <2>1, SameValidity DEF Sound
  <2>3. Bounded(inv'.m, inv'.rev)
    BY <1>3, <1>7, <1>8 DEF Sound, Bounded
  <2> QED
    BY <1>3, <1>8, <2>2, <2>3 DEF Sound
<1>10. CollectorOK'
  <2>1. iack' \in Nat
    BY <1>1, <1>2 DEF AckedRevision, Ack, IInv, CollectorOK
  <2>2. unsaved' \in BOOLEAN
    BY <1>1 DEF Changed
  <2> QED
    BY <1>1, <1>8, <1>9, <2>1, <2>2 DEF IInv, CollectorOK
<1>11. NetworkOK' /\ DeliveryOK'
  BY <1>1 DEF IInv, NetworkOK, DeliveryOK, Past
<1>12. OwnInOrder'
  <2>1. SUFFICES ASSUME NEW h \in net, h.gen = gen
                 PROVE  /\ Follows(h, inv'.m, inv.rev)
                        /\ ~Stale(srv, h) => Covered(h, inv'.m)
    BY <1>1, <1>8 DEF OwnInOrder
  <2>2. /\ Follows(h, inv.m, inv.rev) /\ (~Stale(srv, h) => Covered(h, inv.m))
        /\ NotBehind(srv, h) /\ Sane(h) /\ h.rev \in Nat /\ Dated(h.m)
    BY <1>1, <2>1, SaneIsDated DEF IInv, OwnInOrder, NetworkOK, DeliveryOK
  <2>3. Follows(h, inv'.m, inv.rev)
    BY <1>7, <1>8, <2>2 DEF Follows, Present, Gone
  <2>4. ASSUME ~Stale(srv, h), h.included, NEW e \in Entities, Present(h.m, e)
        PROVE  Present(inv'.m, e) \/ Gone(inv'.m, e)
    <3>1. Present(inv.m, e) \/ Gone(inv.m, e)
      BY <2>2, <2>4 DEF Covered
    <3>2. CASE t[e] = inv.m.tomb[e]
      BY <1>8, <3>1, <3>2 DEF Present, Gone
    <3>3. CASE t[e] = 0 /\ inv.m.tomb[e] <= srv.inv
      <4>1. srv.inv <= h.rev
        BY <1>2, <2>1, <2>2, <2>4 DEF NotBehind
      <4>2. inv.m.tomb[e] \in Nat /\ h.m.tomb[e] \in Nat /\ ~Gone(h.m, e)
        BY <1>3, <2>2, <2>4 DEF Sane, Dated
      <4>3. ~Gone(inv.m, e)
        BY <1>5, <2>2, <2>4, <3>3, <4>1, <4>2 DEF Follows, Gone
      <4> QED
        BY <1>8, <3>1, <4>3 DEF Present
    <3> QED
      BY <1>7, <3>2, <3>3
  <2> QED
    BY <2>3, <2>4 DEF Covered
<1>13. ServerOK'
  <2>1. ASSUME NEW e \in Entities, ~Present(inv'.m, e), ~Gone(inv'.m, e), srv.ver[e].gen = gen
        PROVE  srv.ver[e].val = Deleted
    <3>1. ~Present(inv.m, e)
      BY <1>8, <2>1 DEF Present
    <3>2. CASE Gone(inv.m, e)
      <4>1. inv.m.tomb[e] <= srv.inv /\ inv.m.tomb[e] \in Nat
        BY <1>3, <1>7, <1>8, <2>1, <3>2 DEF Gone
      <4>2. srv.ver[e] = [gen |-> gen, rev |-> inv.m.tomb[e], val |-> Deleted]
        <5>1. ~(inv.m.tomb[e] > srv.inv)
          BY <1>5, <4>1
        <5> QED
          BY <1>5, <3>2, <5>1 DEF Ahead
      <4> QED
        BY <4>2
    <3> QED
      BY <1>5, <2>1, <3>1, <3>2 DEF Ahead
  <2>2. Ahead(srv, gen, inv'.m, inv.rev)
    <3>1. \A e \in Entities : Gone(inv'.m, e) => Gone(inv.m, e) /\ inv'.m.tomb[e] = inv.m.tomb[e]
      BY <1>7, <1>8 DEF Gone
    <3> QED
      BY <1>5, <1>8, <2>1, <3>1 DEF Ahead, Present
  <2> QED
    BY <1>1, <1>8, <2>2 DEF IInv, ServerOK, Past
<1>14. AnswersOK'
  BY <1>1, <1>2 DEF IInv, AnswersOK, AckedRevision, TakenIn
<1>15. EventsAccountedFor'
  BY <1>1, <1>2 DEF IInv, EventsAccountedFor, TakenIn
<1> QED
  BY <1>10, <1>11, <1>12, <1>13, <1>14, <1>15 DEF IInv

-----------------------------------------------------------------------------
(* The steps of the heartbeat loop and of the network.                     *)

\* What a snapshot is to the heartbeats before it and to the receiver.
Fit(hb) ==
  /\ Sane(hb) /\ hb.gen = gen /\ hb.seq = seq + 1
  /\ Follows(hb, inv.m, inv.rev) /\ Covered(hb, inv.m)
  /\ \A h \in net : /\ ~(h.gen = gen /\ h.seq = seq + 1)
                    /\ Ordered(srv, h, hb) /\ Ordered(srv, hb, h)
  /\ Ordered(srv, hb, hb)
  /\ NotBehind(srv, hb) /\ Grounded(srv, hb) /\ Receipts(srv, hb) = {}

\* What the next heartbeat carries.
LEMMA SnapshotFields ==
  ASSUME IInv, pc = "on", seq < MaxSeq, NEW limited \in BOOLEAN
  PROVE  LET hb == Snapshot(seq + 1, limited) IN
         /\ Sane(hb) /\ hb.gen = gen /\ hb.seq = seq + 1 /\ hb.rev = inv.rev
         /\ hb.included = (iack # inv.rev /\ ~limited)
         /\ hb.included => hb.m.rec = inv.m.rec /\ hb.m.tomb = inv.m.tomb
         /\ ~hb.included => \A e \in Entities : ~Present(hb.m, e) /\ ~Gone(hb.m, e)
         /\ hb.events # {} => ~limited
<1> DEFINE hb == Snapshot(seq + 1, limited)
           none == NoInventory.m
<1>1. /\ gen \in 1..MaxGen /\ seq + 1 \in 1..MaxSeq /\ Sound(inv) /\ inv \in Inventories
      /\ events \subseteq Events
  BY HeartbeatsAssumption DEF IInv, CollectorOK
<1>2. /\ inv.rev \in Nat /\ inv.m.rec \in [Entities -> Record] /\ Dated(inv.m)
      /\ inv.m.tomb \in [Entities -> Nat]
  BY <1>1, SoundIsDated
<1>3. /\ none.rec \in [Entities -> Record] /\ none.tomb \in [Entities -> Nat]
      /\ \A e \in Entities : none.rec[e].rev = 0 /\ none.tomb[e] = 0
  BY EntityTypes DEF NoInventory, NoRecord
<1>4. /\ hb = [gen |-> gen, seq |-> seq + 1, rev |-> inv.rev, included |-> hb.included,
               m |-> [rec |-> hb.m.rec, tomb |-> hb.m.tomb], events |-> hb.events]
      /\ hb.included = (iack # inv.rev /\ ~limited)
      /\ hb.included => hb.m.rec = inv.m.rec /\ hb.m.tomb = inv.m.tomb
      /\ ~hb.included => hb.m.rec = none.rec /\ hb.m.tomb = none.tomb
      /\ hb.events = (IF limited THEN {} ELSE events)
  BY DEF Snapshot
<1> HIDE DEF hb, none
<1>5. hb \in HeartbeatRecords
  <2>1. hb.m.rec \in [Entities -> Record] /\ hb.m.tomb \in [Entities -> Nat]
        /\ hb.included \in BOOLEAN /\ hb.events \subseteq Events
    BY <1>1, <1>2, <1>3, <1>4
  <2>2. gen \in Nat /\ seq + 1 \in Nat
    BY <1>1
  <2>3. \A g, n, v \in Nat, i \in BOOLEAN, x \in SUBSET Events,
           f \in [Entities -> Record], t \in [Entities -> Nat] :
          [gen |-> g, seq |-> n, rev |-> v, included |-> i,
           m |-> [rec |-> f, tomb |-> t], events |-> x] \in HeartbeatRecords
    BY DEF HeartbeatRecords
  <2>4. [gen |-> gen, seq |-> seq + 1, rev |-> inv.rev, included |-> hb.included,
         m |-> [rec |-> hb.m.rec, tomb |-> hb.m.tomb], events |-> hb.events]
          \in HeartbeatRecords
    BY <1>2, <2>1, <2>2, <2>3
  <2> QED
    BY <1>4, <2>4
<1>6. ~hb.included => \A e \in Entities : ~Present(hb.m, e) /\ ~Gone(hb.m, e)
  BY <1>3, <1>4 DEF Present, Gone
<1>7. ASSUME NEW e \in Entities
      PROVE  /\ ~(Gone(hb.m, e) /\ Present(hb.m, e))
             /\ hb.m.rec[e].rev <= inv.rev /\ hb.m.tomb[e] <= inv.rev
  <2>1. CASE hb.included
    BY <1>1, <1>4, <2>1 DEF Sound, Valid, Bounded, Present, Gone
  <2>2. CASE ~hb.included
    BY <1>2, <1>3, <1>4, <1>6, <2>2
  <2> QED
    BY <2>1, <2>2
<1>8. ASSUME NEW l \in Links, Present(hb.m, l)
      PROVE  Present(hb.m, From[l]) /\ Present(hb.m, To[l])
  <2>1. l \in Entities
    BY DEF Entities
  <2>2. hb.included
    BY <1>6, <1>8, <2>1
  <2> QED
    BY <1>1, <1>4, <1>8, <2>2 DEF Sound, Valid, Present
<1>9. hb.gen = gen /\ hb.seq = seq + 1 /\ hb.rev = inv.rev
  BY <1>4
<1>10. Sane(hb)
  BY <1>1, <1>5, <1>6, <1>7, <1>8, <1>9 DEF Sane
<1>11. hb.events # {} => ~limited
  BY <1>4
<1> QED
  BY <1>4, <1>6, <1>9, <1>10, <1>11 DEF hb

\* The next heartbeat is in order with all that the server has read or may still read.
LEMMA SnapshotIsFit ==
  ASSUME IInv, pc = "on", seq < MaxSeq, NEW limited \in BOOLEAN
  PROVE  Fit(Snapshot(seq + 1, limited))
<1> DEFINE hb == Snapshot(seq + 1, limited)
<1>1. /\ Sane(hb) /\ hb.gen = gen /\ hb.seq = seq + 1 /\ hb.rev = inv.rev
      /\ hb.included = (iack # inv.rev /\ ~limited)
      /\ hb.included => hb.m.rec = inv.m.rec /\ hb.m.tomb = inv.m.tomb
      /\ ~hb.included => \A e \in Entities : ~Present(hb.m, e) /\ ~Gone(hb.m, e)
      /\ hb.events # {} => ~limited
  BY SnapshotFields
<1> HIDE DEF hb
<1>2. /\ gen \in Nat /\ seq \in Nat /\ Sound(inv) /\ inv.rev \in Nat /\ iack \in Nat
      /\ inv.rev # 0
  BY SoundIsDated DEF IInv, CollectorOK, Sound
<1>3. Consistent(srv) /\ srv.gen \in Nat /\ srv.seq \in Nat /\ srv.inv \in Nat
  BY ConsistentTypes DEF IInv, ServerOK
<1>4. srv.gen <= gen /\ (srv.gen = gen => srv.seq <= seq /\ Ahead(srv, gen, inv.m, inv.rev))
  BY DEF IInv, ServerOK, Past
<1>5. Follows(hb, inv.m, inv.rev) /\ Covered(hb, inv.m)
  BY <1>1, <1>2 DEF Follows, Covered, Present
<1>6. ASSUME NEW h \in net
      PROVE  ~(h.gen = gen /\ h.seq = seq + 1) /\ Ordered(srv, h, hb) /\ Ordered(srv, hb, h)
  <2>1. Sane(h) /\ h.seq \in Nat /\ (h.gen = gen => h.seq <= seq)
    BY SaneIsDated DEF IInv, NetworkOK, Past
  <2>2. ~(h.gen = gen /\ h.seq = seq + 1) /\ Ordered(srv, hb, h)
    BY <1>1, <1>2, <2>1 DEF Ordered
  <2>3. ASSUME h.gen = gen
        PROVE  Follows(h, hb.m, hb.rev) /\ (hb.included /\ ~Stale(srv, h) => Covered(h, hb.m))
    <3>1. Follows(h, inv.m, inv.rev) /\ (~Stale(srv, h) => Covered(h, inv.m))
      BY <2>3 DEF IInv, OwnInOrder
    <3> QED
      BY <1>1, <3>1 DEF Follows, Covered, Present, Gone
  <2> QED
    BY <1>1, <2>2, <2>3 DEF Ordered
<1>7. Ordered(srv, hb, hb)
  BY <1>1, <1>2 DEF Ordered
<1>8. NotBehind(srv, hb)
  <2>1. srv.gen = gen => srv.inv <= inv.rev /\ Ahead(srv, gen, inv.m, inv.rev)
    BY <1>4 DEF Ahead
  <2> QED
    BY <1>1, <2>1 DEF NotBehind, Ahead, Present, Gone
<1>9. Grounded(srv, hb)
  <2>1. SUFFICES ASSUME ~hb.included, hb.events # {} PROVE srv.gen = gen /\ srv.inv = inv.rev
    BY <1>1 DEF Grounded
  <2>2. iack = inv.rev
    BY <1>1, <2>1
  <2>3. srv.gen = gen /\ srv.inv >= inv.rev
    BY <1>2, <2>2 DEF IInv, AnswersOK
  <2> QED
    BY <1>2, <1>3, <1>4, <2>3 DEF Ahead
<1>10. Receipts(srv, hb) = {}
  <2>1. SUFFICES ASSUME NEW r \in srv.receipts, r.gen = gen, r.seq = seq + 1 PROVE FALSE
    BY <1>1 DEF Receipts
  <2>2. r.gen < srv.gen \/ (r.gen = srv.gen /\ r.seq <= srv.seq)
    BY <1>3 DEF Consistent
  <2> QED
    BY <1>2, <1>3, <1>4, <2>1, <2>2
<1>11. Fit(hb)
  BY <1>1, <1>5, <1>6, <1>7, <1>8, <1>9, <1>10 DEF Fit
<1> QED
  BY <1>11 DEF hb

\* The network with one more heartbeat.
LEMMA SentStep ==
  ASSUME IInv, pc = "on", NEW hb, Fit(hb), net' = net \cup {hb}, UNCHANGED <<gen, srv>>,
         pc' = "off" \/ (pc' = "on" /\ seq' = seq + 1)
  PROVE  NetworkOK' /\ DeliveryOK'
<1>1. gen \in Nat /\ seq \in Nat
  BY DEF IInv, CollectorOK
<1>2. \A h \in net : h.seq \in Nat
  BY SaneIsDated DEF IInv, NetworkOK
<1>3. \A h \in net' : Sane(h) /\ Past(h.gen, h.seq)'
  BY <1>1, <1>2 DEF IInv, NetworkOK, Past, Fit
<1>4. ASSUME NEW h \in net', NEW k \in net'
      PROVE  (h.gen = k.gen /\ h.seq = k.seq => h = k) /\ Ordered(srv, h, k)
  BY DEF IInv, NetworkOK, Fit
<1>5. NetworkOK'
  BY <1>3, <1>4 DEF NetworkOK
<1>6. DeliveryOK'
  BY DEF IInv, DeliveryOK, Fit
<1> QED
  BY <1>5, <1>6

\* A heartbeat is handed to the network.
LEMMA SendStep == ASSUME IInv, NEW limited \in BOOLEAN, Send(limited) PROVE IInv'
<1> DEFINE hb == Snapshot(seq + 1, limited)
<1>1. /\ pc = "on" /\ seq < MaxSeq /\ seq' = seq + 1 /\ waiting' = seq'
      /\ net' = net \cup {hb}
      /\ UNCHANGED <<gen, disk, pc, inv, iack, events, mailbox, unsaved, srv, raised, lost>>
  BY DEF Send, MaySend, durable, world
<1>2. Fit(hb)
  BY <1>1, SnapshotIsFit
<1> HIDE DEF hb
<1>3. NetworkOK' /\ DeliveryOK'
  BY <1>1, <1>2, SentStep
<1>4. OwnInOrder'
  BY <1>1, <1>2 DEF IInv, OwnInOrder, Fit
<1>5. gen \in Nat /\ seq \in Nat /\ MaxSeq \in Nat
  BY HeartbeatsAssumption DEF IInv, CollectorOK
<1>6. ServerOK'
  BY <1>1, <1>5, ConsistentTypes DEF IInv, ServerOK, Past
<1>7. CollectorOK'
  BY <1>1, <1>5 DEF IInv, CollectorOK
<1>8. AnswersOK' /\ EventsAccountedFor'
  BY <1>1 DEF IInv, AnswersOK, EventsAccountedFor
<1> QED
  BY <1>3, <1>4, <1>6, <1>7, <1>8 DEF IInv

\* An attempt that timed out is left to the network.
LEMMA GiveUpStep == ASSUME IInv, GiveUp PROVE IInv'
<1>1. /\ waiting' = 0
      /\ UNCHANGED <<gen, disk, pc, inv, iack, events, seq, mailbox, unsaved, net, srv,
                     raised, lost>>
  BY DEF GiveUp, durable, world
<1>2. NetworkOK' /\ OwnInOrder' /\ ServerOK' /\ DeliveryOK'
  BY <1>1, OwnStep
<1>3. CollectorOK' /\ AnswersOK' /\ EventsAccountedFor'
  BY <1>1 DEF IInv, CollectorOK, AnswersOK, EventsAccountedFor
<1> QED
  BY <1>2, <1>3 DEF IInv

\* The network loses a heartbeat.
LEMMA LoseStep == ASSUME IInv, NEW hb \in net, Lose(hb) PROVE IInv'
<1>1. /\ net' = net \ {hb}
      /\ UNCHANGED <<gen, disk, pc, inv, iack, events, seq, waiting, mailbox, unsaved, srv,
                     raised, lost>>
  BY DEF Lose, durable, session, world
<1>2. NetworkOK' /\ OwnInOrder' /\ ServerOK' /\ DeliveryOK'
  BY <1>1 DEF IInv, NetworkOK, OwnInOrder, ServerOK, DeliveryOK, Past
<1>3. CollectorOK' /\ AnswersOK' /\ EventsAccountedFor'
  BY <1>1 DEF IInv, CollectorOK, AnswersOK, EventsAccountedFor
<1> QED
  BY <1>2, <1>3 DEF IInv

\* The process ends: what the session knew is gone, what it sent is not.
LEMMA ForgetStep ==
  ASSUME IInv, pc \in {"opening", "on"}, Forget
  PROVE  CollectorOK' /\ OwnInOrder' /\ ServerOK' /\ AnswersOK' /\ EventsAccountedFor'
<1>1. /\ pc' = "off" /\ inv' = NoInventory /\ iack' = 0 /\ events' = {} /\ seq' = 0
      /\ waiting' = 0 /\ mailbox' = None /\ unsaved' = FALSE /\ lost' = lost \cup events
      /\ UNCHANGED <<gen, disk, srv, raised>>
  BY DEF Forget, durable
<1>2. inv' \in Inventories
  <2>1. NoInventory.m \in Metadata
    <3>1. [g \in {} |-> {}] \in [{} -> SUBSET Entities] /\ {} \in SUBSET Groups
      OBVIOUS
    <3> QED
      BY <3>1, EntityTypes DEF NoInventory, Metadata
  <2> QED
    BY <1>1, <2>1 DEF NoInventory, Inventories
<1>3. CollectorOK'
  <2>1. 0 \in 0..MaxSeq
    BY HeartbeatsAssumption
  <2>2. unsaved' \in BOOLEAN
    BY <1>1
  <2> QED
    BY <1>1, <1>2, <2>1, <2>2 DEF IInv, CollectorOK
<1>4. OwnInOrder' /\ ServerOK'
  BY <1>1 DEF IInv, OwnInOrder, ServerOK, Past
<1>5. AnswersOK' /\ EventsAccountedFor'
  BY <1>1 DEF IInv, AnswersOK, EventsAccountedFor
<1> QED
  BY <1>3, <1>4, <1>5

\* A collector ends and leaves its last heartbeat to the network.
LEMMA StopStep == ASSUME IInv, Stop PROVE IInv'
<1>1. pc = "on" /\ seq < MaxSeq /\ net' = net \cup {Snapshot(seq + 1, FALSE)} /\ Forget
  BY DEF Stop
<1>2. Fit(Snapshot(seq + 1, FALSE))
  BY <1>1, SnapshotIsFit
<1>3. pc' = "off" /\ UNCHANGED <<gen, srv>>
  BY <1>1 DEF Forget, durable
<1>4. NetworkOK' /\ DeliveryOK'
  BY <1>1, <1>2, <1>3, SentStep
<1> QED
  BY <1>1, <1>4, ForgetStep DEF IInv

\* A crash keeps what is on disk and in the network.
LEMMA CrashStep == ASSUME IInv, Crash PROVE IInv'
<1>1. pc \in {"opening", "on"} /\ net' = net /\ Forget
  BY DEF Crash
<1>2. pc' = "off" /\ UNCHANGED <<gen, srv>>
  BY <1>1 DEF Forget, durable
<1>3. NetworkOK' /\ DeliveryOK'
  BY <1>1, <1>2 DEF IInv, NetworkOK, DeliveryOK, Past
<1> QED
  BY <1>1, <1>3, ForgetStep DEF IInv

\* What the handler makes of a heartbeat in the network: nothing new, or an
\* acceptance; an answer says that the heartbeat was taken in.
LEMMA Handled ==
  ASSUME IInv, NEW hb \in net, NEW recent
  PROVE  LET done == Receive(srv, hb, recent) IN
         /\ \/ done.srv = srv
            \/ /\ Receipts(srv, hb) = {} /\ ~Refused(srv, hb)
               /\ done.srv = Accepted(srv, hb, recent)
         /\ done.ack # None =>
              done.ack \in Ack /\ hb.gen <= done.srv.gen /\ TakenIn(done.srv, hb)
<1> DEFINE done == Receive(srv, hb, recent)
           n == Accepted(srv, hb, recent)
           answer == [inv |-> n.inv, request |-> n.inv # hb.rev]
<1>1. /\ Consistent(srv) /\ Sane(hb) /\ Grounded(srv, hb) /\ hb.gen \in Nat
      /\ Receipts(srv, hb) # {} => TakenIn(srv, hb)
  BY SaneIsDated DEF IInv, ServerOK, NetworkOK, DeliveryOK
<1>2. CASE Receipts(srv, hb) # {}
  <2> DEFINE r == CHOOSE r \in Receipts(srv, hb) : TRUE
  <2>1. done.srv = srv /\ done.ack = r.ack
    BY <1>2 DEF Receive
  <2>2. r \in Receipts(srv, hb)
    BY <1>2
  <2> HIDE DEF r, done
  <2>3. r \in srv.receipts /\ r.gen = hb.gen
    BY <2>2 DEF Receipts
  <2>4. r.ack \in Ack
    BY <1>1, <2>3, ConsistentTypes
  <2>5. hb.gen <= srv.gen
    BY <1>1, <2>3, ConsistentTypes DEF Consistent
  <2> QED
    BY <1>1, <1>2, <2>1, <2>4, <2>5 DEF done
<1>3. CASE Receipts(srv, hb) = {} /\ Refused(srv, hb)
  <2>1. done.srv = srv /\ done.ack = None
    BY <1>3 DEF Receive
  <2> QED
    BY <2>1
<1>4. CASE Receipts(srv, hb) = {} /\ ~Refused(srv, hb)
  <2>1. done.srv = n /\ done.ack = answer
    BY <1>4 DEF Receive
  <2>2. Outcome(srv, hb, n)
    <3>1. ~Stale(srv, hb)
      BY <1>4 DEF Refused
    <3> QED
      BY <1>1, <3>1, AcceptedFields
  <2>3. TakenIn(n, hb)
    BY <1>1, <1>4, AcceptedTakenIn
  <2> HIDE DEF n, done
  <2>4. answer \in Ack /\ hb.gen <= n.gen
    BY <1>1, <2>2 DEF Outcome
  <2> QED
    BY <1>4, <2>1, <2>3, <2>4 DEF n, done
<1> QED
  BY <1>2, <1>3, <1>4

\* An acceptance keeps what the invariant says of the server and the network.
LEMMA AcceptanceKeeps ==
  ASSUME IInv, NEW hb \in net, NEW recent, Receipts(srv, hb) = {}, ~Refused(srv, hb),
         srv' = Accepted(srv, hb, recent), net' \subseteq net,
         UNCHANGED <<gen, pc, inv, seq>>
  PROVE  /\ NetworkOK' /\ OwnInOrder' /\ ServerOK' /\ DeliveryOK'
         /\ hb.gen = srv'.gen /\ srv.gen <= srv'.gen
         /\ srv.gen = srv'.gen => srv.inv <= srv'.inv
         /\ \A x \in Events : srv.projected[x] = 1 => srv'.projected[x] = 1
         /\ \A k : Sane(k) /\ k.gen <= srv.gen /\ TakenIn(srv, k) => TakenIn(srv', k)
<1>1. /\ Consistent(srv) /\ Sane(hb) /\ Past(hb.gen, hb.seq) /\ NotBehind(srv, hb)
      /\ Grounded(srv, hb)
  BY DEF IInv, ServerOK, NetworkOK, DeliveryOK
<1>2. ~Stale(srv, hb) /\ Outcome(srv, hb, srv')
  <2>1. ~Stale(srv, hb)
    BY DEF Refused
  <2> QED
    BY <1>1, <2>1, AcceptedFields
<1>3. Consistent(srv') /\ \A x \in Events : srv.projected[x] = 1 => srv'.projected[x] = 1
  BY <1>1, AcceptedIsConsistent
<1>4. /\ hb.gen \in Nat /\ hb.seq \in Nat /\ hb.rev \in Nat /\ hb.included \in BOOLEAN
      /\ srv.gen \in Nat /\ srv.inv \in Nat /\ srv.seq \in Nat
      /\ srv'.gen = hb.gen /\ srv'.seq = hb.seq /\ srv.gen <= srv'.gen
  BY <1>1, <1>2, SaneIsDated, ConsistentTypes DEF Outcome
<1>5. \A h \in net : Sane(h) /\ (Stale(srv, h) => Stale(srv', h))
  BY <1>1, <1>2, StaleForGood DEF IInv, NetworkOK
<1>6. NetworkOK'
  <2>1. \A h, k : Ordered(srv, h, k) /\ (Stale(srv, h) => Stale(srv', h)) => Ordered(srv', h, k)
    BY DEF Ordered
  <2> QED
    BY <1>5, <2>1 DEF IInv, NetworkOK, Past
<1>7. OwnInOrder'
  BY <1>5 DEF IInv, OwnInOrder
<1>8. ServerOK'
  <2>1. Past(srv.gen, srv.seq)'
    BY <1>1, <1>4 DEF Past
  <2>2. ASSUME pc = "on", hb.gen = gen PROVE Ahead(srv', gen, inv.m, inv.rev)
    <3>1. Follows(hb, inv.m, inv.rev) /\ Covered(hb, inv.m)
      BY <1>2, <2>2 DEF IInv, OwnInOrder
    <3>2. srv.gen = hb.gen => Ahead(srv, hb.gen, inv.m, inv.rev)
      BY <2>2 DEF IInv, ServerOK
    <3>3. Dated(inv.m) /\ inv.rev \in Nat
      BY SoundIsDated DEF IInv, CollectorOK
    <3> QED
      BY <1>1, <2>2, <3>1, <3>2, <3>3, AcceptedIsBehind
  <2> QED
    BY <1>3, <1>4, <2>1, <2>2 DEF ServerOK
<1>9. \A k : Sane(k) /\ k.gen <= srv.gen /\ TakenIn(srv, k) => TakenIn(srv', k)
  BY <1>1, StaysTakenIn
<1>10. ASSUME NEW k \in net'
       PROVE  /\ NotBehind(srv', k) /\ Grounded(srv', k)
              /\ Receipts(srv', k) # {} => TakenIn(srv', k)
  <2>1. /\ Sane(k) /\ Ordered(srv, hb, k) /\ NotBehind(srv, k) /\ Grounded(srv, k)
        /\ Receipts(srv, k) # {} => TakenIn(srv, k)
        /\ k.gen = hb.gen /\ k.seq = hb.seq => k = hb
    BY DEF IInv, NetworkOK, DeliveryOK
  <2>2. NotBehind(srv', k) /\ Grounded(srv', k)
    BY <1>1, <2>1, AcceptedNotBehind, AcceptedGrounded
  <2>3. ASSUME NEW r \in Receipts(srv', k) PROVE TakenIn(srv', k)
    <3>1. CASE r \in srv.receipts
      <4>1. r \in Receipts(srv, k) /\ k.gen = r.gen
        BY <2>3, <3>1 DEF Receipts
      <4>2. k.gen <= srv.gen
        BY <1>1, <1>4, <2>1, <3>1, <4>1, SaneIsDated DEF Consistent
      <4> QED
        BY <1>9, <2>1, <4>1, <4>2
    <3>2. CASE r \notin srv.receipts
      <4>1. r.gen = hb.gen /\ r.seq = hb.seq /\ r.gen = k.gen /\ r.seq = k.seq
        BY <1>2, <2>3, <3>2 DEF Outcome, Receipts
      <4> QED
        BY <1>1, <2>1, <4>1, AcceptedTakenIn
    <3> QED
      BY <3>1, <3>2
  <2> QED
    BY <2>2, <2>3
<1>11. DeliveryOK'
  BY <1>10 DEF DeliveryOK
<1>12. srv.gen = srv'.gen => srv.inv <= srv'.inv
  BY <1>2, <1>4 DEF Outcome, HeldRevision, Refused
<1> QED
  BY <1>3, <1>4, <1>6, <1>7, <1>8, <1>9, <1>11, <1>12

\* A heartbeat reaches the server, and its answer the collector, or not.
LEMMA DeliverStep ==
  ASSUME IInv, NEW hb \in net, NEW again \in BOOLEAN, NEW arrives \in BOOLEAN, NEW recent,
         Deliver(hb, again, arrives, recent)
  PROVE  IInv'
<1> DEFINE done == Receive(srv, hb, recent)
<1>1. /\ srv' = done.srv /\ net' \subseteq net
      /\ \/ /\ pc = "on" /\ hb.gen = gen /\ done.ack # None
            /\ waiting' = 0
            /\ mailbox' = IF mailbox = None THEN [sent |-> hb, ack |-> done.ack] ELSE mailbox
         \/ UNCHANGED <<waiting, mailbox>>
      /\ UNCHANGED <<gen, disk, pc, inv, iack, events, seq, unsaved, raised, lost>>
  BY DEF Deliver, durable, world
<1>2. /\ \/ done.srv = srv
         \/ /\ Receipts(srv, hb) = {} /\ ~Refused(srv, hb)
            /\ done.srv = Accepted(srv, hb, recent)
      /\ done.ack # None =>
           done.ack \in Ack /\ hb.gen <= done.srv.gen /\ TakenIn(done.srv, hb)
  BY Handled
<1> HIDE DEF done
<1>3. Sane(hb) /\ hb.gen \in Nat /\ gen \in Nat /\ srv.gen \in Nat /\ srv.inv \in Nat
  BY SaneIsDated, ConsistentTypes DEF IInv, NetworkOK, CollectorOK, ServerOK
<1>4. /\ NetworkOK' /\ OwnInOrder' /\ ServerOK' /\ DeliveryOK'
      /\ srv.gen <= srv'.gen
      /\ srv.gen = srv'.gen => srv.inv <= srv'.inv
      /\ \A x \in Events : srv.projected[x] = 1 => srv'.projected[x] = 1
      /\ \A k : Sane(k) /\ k.gen <= srv.gen /\ TakenIn(srv, k) => TakenIn(srv', k)
  <2>1. CASE done.srv = srv
    BY <1>1, <1>3, <2>1
       DEF IInv, NetworkOK, OwnInOrder, ServerOK, DeliveryOK, Past
  <2>2. CASE Receipts(srv, hb) = {} /\ ~Refused(srv, hb) /\ done.srv = Accepted(srv, hb, recent)
    BY <1>1, <2>2, AcceptanceKeeps
  <2> QED
    BY <1>2, <2>1, <2>2
<1>5. CollectorOK'
  BY <1>1 DEF IInv, CollectorOK
<1>6. srv'.gen \in Nat /\ srv'.gen <= gen /\ srv'.inv \in Nat
  BY <1>1, <1>4, ConsistentTypes DEF ServerOK, Past
<1>7. AnswersOK'
  <2>1. iack' # 0 => srv'.gen = gen' /\ srv'.inv >= iack'
    BY <1>1, <1>3, <1>4, <1>6 DEF IInv, AnswersOK, CollectorOK
  <2>2. ASSUME mailbox # None, mailbox' = mailbox
        PROVE  /\ Sane(mailbox'.sent) /\ mailbox'.ack \in Ack /\ mailbox'.sent.gen = gen'
               /\ srv'.gen = gen' /\ TakenIn(srv', mailbox'.sent)
    <3>1. /\ Sane(mailbox.sent) /\ mailbox.ack \in Ack /\ mailbox.sent.gen = gen
          /\ srv.gen = gen /\ TakenIn(srv, mailbox.sent)
      BY <2>2 DEF IInv, AnswersOK
    <3>2. srv'.gen = gen
      BY <1>3, <1>4, <1>6, <3>1
    <3>3. TakenIn(srv', mailbox.sent)
      BY <1>3, <1>4, <3>1
    <3> QED
      BY <1>1, <2>2, <3>1, <3>2, <3>3
  <2>3. ASSUME hb.gen = gen, done.ack # None, mailbox' = [sent |-> hb, ack |-> done.ack]
        PROVE  /\ Sane(mailbox'.sent) /\ mailbox'.ack \in Ack /\ mailbox'.sent.gen = gen'
               /\ srv'.gen = gen' /\ TakenIn(srv', mailbox'.sent)
    <3>1. mailbox'.sent = hb /\ mailbox'.ack = done.ack
      BY <2>3
    <3>2. srv'.gen = gen
      BY <1>1, <1>2, <1>3, <1>6, <2>3
    <3> QED
      BY <1>1, <1>2, <1>3, <2>3, <3>1, <3>2
  <2> QED
    BY <1>1, <2>1, <2>2, <2>3 DEF AnswersOK
<1>8. EventsAccountedFor'
  BY <1>1, <1>4 DEF IInv, CollectorOK, EventsAccountedFor
<1> QED
  BY <1>4, <1>5, <1>7, <1>8 DEF IInv

-----------------------------------------------------------------------------
(* The theorems.                                                           *)

\* A step that changes nothing keeps the invariant.
LEMMA Stutter == ASSUME IInv, UNCHANGED vars PROVE IInv'
<1>1. UNCHANGED <<gen, disk, pc, inv, iack, events, seq, waiting, mailbox, unsaved, net, srv,
                  raised, lost>>
  BY DEF vars
<1> QED
  BY <1>1 DEF IInv, CollectorOK, NetworkOK, OwnInOrder, ServerOK, DeliveryOK, AnswersOK,
              EventsAccountedFor, Past

\* Every step keeps the invariant.
LEMMA Step == IInv /\ [Next]_vars => IInv'
<1> SUFFICES ASSUME IInv, [Next]_vars PROVE IInv'
  OBVIOUS
<1>1. CASE Open
  BY <1>1, OpenStep
<1>2. CASE StartOver
  BY <1>2, StartOverStep
<1>3. CASE StartFirst
  BY <1>3, StartFirstStep
<1>4. CASE StartRefused
  BY <1>4, StartRefusedStep
<1>5. ASSUME NEW g \in Groups \ {HostGroup, QuotaGroup, Derived}, NEW complete \in BOOLEAN,
             NEW ids \in SUBSET Reports[g], NEW found \in [ids -> Contents],
             Enumerated(g, found, complete)
      PROVE  IInv'
  <2>1. g \in Groups /\ ids \in SUBSET Entities
    BY InventoryAssumption
  <2> QED
    BY <1>5, <2>1, EnumeratedStep
<1>6. ASSUME NEW x \in Events, Raise(x) PROVE IInv'
  BY <1>6, RaiseStep
<1>7. CASE RequestInventory
  BY <1>7, RequestInventoryStep
<1>8. CASE HandleAck
  BY <1>8, HandleAckStep
<1>9. CASE Persist
  BY <1>9, PersistStep
<1>10. ASSUME NEW limited \in BOOLEAN, Send(limited) PROVE IInv'
  BY <1>10, SendStep
<1>11. CASE GiveUp
  BY <1>11, GiveUpStep
<1>12. ASSUME NEW hb \in net, Lose(hb) PROVE IInv'
  BY <1>12, LoseStep
<1>13. ASSUME NEW hb \in net, NEW again \in BOOLEAN, NEW arrives \in BOOLEAN,
              NEW recent \in BOOLEAN, Deliver(hb, again, arrives, recent)
       PROVE  IInv'
  BY <1>13, DeliverStep
<1>14. CASE Stop
  BY <1>14, StopStep
<1>15. CASE Crash
  BY <1>15, CrashStep
<1>16. CASE UNCHANGED vars
  BY <1>16, Stutter
<1> QED
  BY <1>1, <1>2, <1>3, <1>4, <1>5, <1>6, <1>7, <1>8, <1>9, <1>10, <1>11, <1>12, <1>13,
     <1>14, <1>15, <1>16 DEF Next

\* In every behaviour, whatever the network does and wherever the collector
\* stops, the copies of an inventory are in order: the collector's, those on
\* their way, and the server's.
THEOREM Invariance == Spec => []IInv
<1> QED
  BY Initially, Step, PTL DEF Spec

\* Type invariant of the collector, the network and the server.
THEOREM TypeCorrect == Spec => []TypeOK
<1>1. ASSUME IInv PROVE TypeOK
  <2>1. InventoryType(inv)
    <3>1. inv.m \in Metadata /\ inv.rev \in Nat
      BY <1>1 DEF IInv, CollectorOK, Inventories
    <3> QED
      BY <3>1, MetadataFields DEF InventoryType
  <2>2. disk # None => InventoryType([m |-> disk, rev |-> 0])
    <3>1. SUFFICES ASSUME disk # None PROVE InventoryType([m |-> disk, rev |-> 0])
      OBVIOUS
    <3>2. disk \in Metadata
      BY <1>1, <3>1 DEF IInv, CollectorOK
    <3> QED
      BY <3>2, MetadataFields DEF InventoryType
  <2>3. \A hb : Sane(hb) => Heartbeat(hb)
    <3>1. \A hb : Sane(hb) => hb.gen \in 1..MaxGen /\ hb.seq \in 1..MaxSeq
      BY DEF Sane
    <3> QED
      BY <3>1, SaneIsDated DEF Heartbeat
  <2>4. ReceiverType(srv)
    <3>1. Consistent(srv)
      BY <1>1 DEF IInv, ServerOK
    <3> QED
      BY <3>1, ConsistentTypes DEF ReceiverType
  <2>5. (mailbox # None => Heartbeat(mailbox.sent) /\ mailbox.ack \in Ack)
        /\ \A hb \in net : Heartbeat(hb)
    BY <1>1, <2>3 DEF IInv, AnswersOK, NetworkOK
  <2> QED
    BY <1>1, <2>1, <2>2, <2>4, <2>5 DEF IInv, CollectorOK, TypeOK
<1> QED
  BY <1>1, Invariance, PTL

\* A heartbeat that is not late is never refused: restarts, lost answers and
\* overlapping reports never make the collector send a revision the server
\* has seen with other content, or an older one.
THEOREM NothingConflicts == Spec => []NoConflict
<1>1. IInv => NoConflict
  BY NeverRefused DEF IInv, ServerOK, NetworkOK, DeliveryOK, NoConflict
<1> QED
  BY <1>1, Invariance, PTL

\* What the server learnt from this session is still in the collector's
\* inventory, or has a tombstone waiting until the server has let go of it.
THEOREM DeletionsAreKept == Spec => []DeletionIntentKept
<1>1. ASSUME IInv PROVE DeletionIntentKept
  <2>1. SUFFICES ASSUME pc = "on", NEW e \in Entities, Holds(srv, e), srv.ver[e].gen = gen
                 PROVE  Present(inv.m, e) \/ Gone(inv.m, e)
    BY DEF DeletionIntentKept
  <2>2. Consistent(srv) /\ srv.gen <= gen /\ gen \in Nat
    BY <1>1 DEF IInv, ServerOK, CollectorOK, Past
  <2>3. srv.gen = gen
    <3>1. srv.gen \in Nat /\ srv.ver[e].gen <= srv.gen
      BY <2>2, ConsistentTypes DEF Consistent
    <3> QED
      BY <2>1, <2>2, <3>1
  <2> QED
    BY <1>1, <2>1, <2>3 DEF IInv, ServerOK, Ahead, Holds
<1> QED
  BY <1>1, Invariance, PTL

\* The collector leaves its inventory out of heartbeats only while the server
\* holds exactly that inventory of this session.
THEOREM WhatIsAcknowledgedIsHeld == Spec => []AcknowledgedIsHeld
<1>1. ASSUME IInv PROVE AcknowledgedIsHeld
  <2>1. SUFFICES ASSUME pc = "on", iack = inv.rev
                 PROVE  /\ srv.gen = gen /\ srv.inv = inv.rev
                        /\ \A e \in Entities :
                             IF Present(inv.m, e)
                             THEN srv.ver[e] = [gen |-> gen, rev |-> inv.m.rec[e].rev,
                                                val |-> inv.m.rec[e].val]
                             ELSE Holds(srv, e) => srv.ver[e].gen < gen
    BY DEF AcknowledgedIsHeld
  <2>2. Sound(inv) /\ inv.rev # 0 /\ inv.rev \in Nat /\ Dated(inv.m) /\ gen \in Nat
    BY <1>1, <2>1, SoundIsDated DEF IInv, CollectorOK, Sound
  <2>3. Consistent(srv) /\ srv.inv \in Nat
    BY <1>1, ConsistentTypes DEF IInv, ServerOK
  <2>4. srv.gen = gen /\ srv.inv >= inv.rev
    BY <1>1, <2>1, <2>2 DEF IInv, AnswersOK
  <2>5. Ahead(srv, gen, inv.m, inv.rev)
    BY <1>1, <2>1, <2>4 DEF IInv, ServerOK
  <2>6. srv.inv = inv.rev
    BY <2>2, <2>3, <2>4, <2>5 DEF Ahead
  <2>7. ASSUME NEW e \in Entities
        PROVE  /\ ~(inv.m.rec[e].rev > srv.inv) /\ ~(inv.m.tomb[e] > srv.inv)
               /\ srv.ver[e].gen \in Nat /\ srv.ver[e].gen <= gen
    BY <2>2, <2>3, <2>4, <2>6, ConsistentTypes DEF Sound, Bounded, Dated, Consistent
  <2>8. ASSUME NEW e \in Entities, ~Present(inv.m, e), Holds(srv, e)
        PROVE  srv.ver[e].gen < gen
    <3>1. srv.ver[e].val # Deleted
      BY <2>8 DEF Holds
    <3>2. ~Gone(inv.m, e)
      <4>1. Gone(inv.m, e) =>
              srv.ver[e] = [gen |-> gen, rev |-> inv.m.tomb[e], val |-> Deleted]
        BY <2>5, <2>7 DEF Ahead
      <4> QED
        BY <3>1, <4>1
    <3>3. srv.ver[e].gen # gen
      BY <2>5, <2>8, <3>1, <3>2 DEF Ahead
    <3> QED
      BY <2>2, <2>7, <3>3
  <2> QED
    BY <2>4, <2>5, <2>6, <2>7, <2>8 DEF Ahead
<1> QED
  BY <1>1, Invariance, PTL

\* An event leaves the buffer only when the server has made a row of it:
\* otherwise the buffer was full or the session ended.
THEOREM EventsAreAccountedFor == Spec => []EventsAccountedFor
<1>1. IInv => EventsAccountedFor
  BY DEF IInv
<1> QED
  BY <1>1, Invariance, PTL

-----------------------------------------------------------------------------
(* The abstract specification.                                             *)

\* An accepted heartbeat takes effect in the sense of Telemetry.
LEMMA AcceptanceTakesEffect ==
  ASSUME Consistent(srv), NEW hb, Sane(hb), NEW recent, ~Refused(srv, hb),
         srv' = Accepted(srv, hb, recent)
  PROVE  Promise!TakeEffect
<1> DEFINE version == [e \in Entities |-> <<srv.ver[e].gen, srv.ver[e].rev>>]
<1>1. ~Stale(srv, hb) /\ Outcome(srv, hb, srv')
  <2>1. ~Stale(srv, hb)
    BY DEF Refused
  <2> QED
    BY <2>1, AcceptedFields
<1>2. /\ hb.gen \in Nat /\ hb.seq \in Nat /\ srv.gen \in Nat /\ srv.seq \in Nat
      /\ srv.projected \in [Events -> {0, 1}]
  BY SaneIsDated, ConsistentTypes
<1>3. /\ <<srv'.gen, srv'.seq>> \in Nat \X Nat
      /\ Promise!Newer(<<srv'.gen, srv'.seq>>, <<srv.gen, srv.seq>>)
  BY <1>1, <1>2 DEF Outcome, Stale, Promise!Newer
<1>4. ASSUME NEW e \in Entities
      PROVE  \/ version'[e] = version[e]
             \/ version'[e][1] = srv'.gen /\ Promise!Newer(version'[e], version[e])
  <2>1. /\ version[e] = <<srv.ver[e].gen, srv.ver[e].rev>>
        /\ version'[e] = <<srv'.ver[e].gen, srv'.ver[e].rev>>
    OBVIOUS
  <2> HIDE DEF version
  <2>2. CASE ~Says(hb, e)
    BY <1>1, <2>1, <2>2 DEF Outcome
  <2>3. CASE Says(hb, e)
    <3>1. /\ srv'.ver[e] = SaidVersion(hb, e) /\ SaidVersion(hb, e) \in Version
          /\ SaidVersion(hb, e).gen = hb.gen
      BY <1>1, <2>3, SaidVersions DEF Outcome
    <3>2. /\ srv.ver[e].gen \in Nat /\ srv.ver[e].rev \in Nat /\ srv.ver[e].gen <= srv.gen
          /\ srv'.ver[e].rev \in Nat /\ srv'.ver[e].gen = hb.gen /\ srv.gen <= hb.gen
          /\ srv'.gen = hb.gen
      BY <1>1, <3>1, ConsistentTypes DEF Consistent, Version, Outcome
    <3>3. srv.ver[e].gen = hb.gen => ~(srv'.ver[e].rev < srv.ver[e].rev)
      BY <2>3, <3>1 DEF Refused, Conflicting
    <3> QED
      BY <1>2, <2>1, <3>2, <3>3 DEF Promise!Newer
  <2> QED
    BY <2>2, <2>3
<1>5. DOMAIN version' = Entities
  OBVIOUS
<1>6. /\ DOMAIN srv'.projected = Events
      /\ \A x \in Events : \/ srv'.projected[x] = srv.projected[x]
                           \/ srv.projected[x] = 0 /\ srv'.projected[x] = 1
  BY <1>1 DEF Outcome, Projected
<1> QED
  BY <1>3, <1>4, <1>5, <1>6 DEF Promise!TakeEffect

\* Every step is one of Telemetry under the refinement, or a stutter.
LEMMA StepKeepsThePromise ==
  IInv /\ [Next]_vars =>
    [Promise!TakeEffect]_<<<<srv.gen, srv.seq>>,
                           [e \in Entities |-> <<srv.ver[e].gen, srv.ver[e].rev>>],
                           srv.projected>>
<1> SUFFICES ASSUME IInv, [Next]_vars
             PROVE  Promise!TakeEffect \/ srv' = srv
  OBVIOUS
<1>1. ASSUME NEW hb \in net, NEW again \in BOOLEAN, NEW arrives \in BOOLEAN,
             NEW recent \in BOOLEAN, Deliver(hb, again, arrives, recent)
      PROVE  Promise!TakeEffect \/ srv' = srv
  <2>1. srv' = Receive(srv, hb, recent).srv
    BY <1>1 DEF Deliver
  <2>2. srv' = srv \/ (~Refused(srv, hb) /\ srv' = Accepted(srv, hb, recent))
    BY <2>1, Handled
  <2> QED
    BY <2>2, AcceptanceTakesEffect DEF IInv, ServerOK, NetworkOK
<1>2. ASSUME NEW g, NEW found, NEW complete, Enumerated(g, found, complete) PROVE srv' = srv
  BY <1>2 DEF Enumerated
<1>3. ASSUME NEW x, Raise(x) PROVE srv' = srv
  BY <1>3 DEF Raise
<1>4. ASSUME NEW limited, Send(limited) PROVE srv' = srv
  BY <1>4 DEF Send
<1>5. ASSUME NEW hb, Lose(hb) PROVE srv' = srv
  BY <1>5 DEF Lose
<1>6. ASSUME \/ Open \/ StartOver \/ StartFirst \/ StartRefused
             \/ RequestInventory \/ HandleAck \/ Persist \/ GiveUp
      PROVE  srv' = srv
  BY <1>6 DEF Open, StartOver, StartFirst, StartRefused, RequestInventory, HandleAck, Persist,
              GiveUp
<1>7. ASSUME Stop \/ Crash PROVE srv' = srv
  BY <1>7 DEF Stop, Crash, Forget
<1>8. ASSUME UNCHANGED vars PROVE srv' = srv
  BY <1>8 DEF vars
<1> QED
  BY <1>1, <1>2, <1>3, <1>4, <1>5, <1>6, <1>7, <1>8 DEF Next

\* The handler keeps what Telemetry promises, however the network loses,
\* repeats, delays and reorders: every step of the system is a heartbeat
\* newer than any before it that takes effect, or changes nothing there.
THEOREM KeepsThePromise == Spec => TelemetryPromise
<1>1. Init => Promise!Init
  BY DEF Init, NewReceiver, Promise!Init
<1> QED
  BY <1>1, StepKeepsThePromise, Invariance, PTL
     DEF Spec, TelemetryPromise, Promise!Spec, Promise!vars
==============================================================================
