--------------------------- MODULE SchedulerProofs ---------------------------
(***************************************************************************)
(* Proofs about Scheduler for any resources, mounts, metrics, periods and  *)
(* limits, and any number of runs and enumerations.                        *)
(*                                                                         *)
(* A launch has one number, and the collection with it is in one place at  *)
(* a time: with its task, in the mail, or recorded.  What is recorded and  *)
(* referred to is carried, and every carried collection is referred to by  *)
(* its own scope; so what a cleared scope leaves behind goes with it.      *)
(***************************************************************************)
EXTENDS Scheduler, Induction, SequenceTheorems

SlotType == [last : 0..MaxRuns, fields : [Metrics -> 0..MaxRuns]]
ShownType == [phase : {"none", "Idle", "Running", "pending"}, last : 0..MaxRuns]
TaskType == [id : Ids, r : Resources, g : 1..MaxScans + 1,
             stage : {"command", "exiting", "done"}]
PhaseMessages ==
  [type : {"phase"}, r : Resources, g : 1..MaxScans + 1, phase : {"Idle", "Running"}]
ResultMessages == [type : {"result"}, c : Collections, pending : BOOLEAN]
Messages == PhaseMessages \cup ResultMessages

\* One collection of an identifier.
Distinct(cs) == \A c, d \in cs : c.id = d.id => c = d

\* Every reference of a scope is to a collection of its own in cs, and every
\* collection in cs is referred to by its scope.
Complete(slots, cs) ==
  \A r \in Resources : \A x \in Refers(slots[r]) : \E c \in cs : c.id = x /\ c.r = r
Owned(slots, cs) == \A c \in cs : c.id \in Refers(slots[c.r])

CacheOK ==
  /\ gen \in [Resources -> 0..MaxScans + 1] /\ scans \in 0..MaxScans
  /\ slot \in [Resources -> SlotType] /\ shown \in [Resources -> ShownType]
  /\ results \subseteq Collections /\ IdsOf(results) \subseteq stored
  /\ Distinct(results) /\ Complete(slot, results) /\ Owned(slot, results)
  /\ \A c \in results : c.g = gen[c.r]

\* What is shown of a scope is its last attempt, and it is there.
ShownOK ==
  \A r \in Resources :
    /\ shown[r].last = slot[r].last
    /\ shown[r].phase # "none" => gen[r] # 0
    /\ shown[r].phase = "pending" =>
         \E c \in results : c.id = shown[r].last /\ c.status = "timeout"

\* i is the latest of the history h in which metric m was available.
Latest(h, m, i) ==
  i \in DOMAIN h /\ m \in h[i].has /\ \A k \in DOMAIN h : m \in h[k].has => k <= i

HistoryOK ==
  /\ history \in [Resources -> Seq(Collections)]
  /\ \A r \in Resources :
       /\ gen[r] = 0 => history[r] = <<>>
       /\ \A m \in Metrics, i \in Nat : Latest(history[r], m, i) =>
            history[r][i] \in results /\ slot[r].fields[m] = history[r][i].id

CountsOK ==
  /\ stored \subseteq 1..runs /\ runs \in 0..MaxRuns
  /\ acked \subseteq stored /\ accepted = acked \cap IdsOf(results)
  /\ offered # None => offered \subseteq Ids

LoopOK ==
  /\ observed \subseteq Resources /\ queue \subseteq Jobs /\ inflight \subseteq Jobs
  /\ queue \cap inflight = {}
  /\ due \in [Resources -> NoDue..Period + Jitter]
  /\ tasks \subseteq TaskType
  /\ \A t \in tasks : t.id <= runs /\ [r |-> t.r, g |-> t.g] \in inflight
  /\ \A t, u \in tasks : t.id = u.id \/ (t.r = u.r /\ t.g = u.g) => t = u

\* A collection on its way is recorded nowhere, and no other has its number.
MailOK ==
  /\ mail \in Seq(Messages)
  /\ \A i \in DOMAIN mail : mail[i].type = "result" =>
       /\ mail[i].c.id <= runs /\ mail[i].c.id \notin stored
       /\ \A k \in DOMAIN mail :
            mail[k].type = "result" /\ mail[k].c.id = mail[i].c.id => k = i
  /\ \A t \in tasks : t.stage = "command" =>
       /\ t.id \notin stored
       /\ \A i \in DOMAIN mail : mail[i].type = "result" => mail[i].c.id # t.id

IInv ==
  /\ CacheOK /\ ShownOK /\ HistoryOK /\ CountsOK /\ LoopOK /\ MailOK /\ DiscardsCounted

-----------------------------------------------------------------------------
(* The cache.                                                              *)

\* What a slot of the cache refers to.
LEMMA References ==
  ASSUME NEW s \in SlotType
  PROVE  /\ \A x : x \in Refers(s) <=>
                x # 0 /\ (x = s.last \/ \E m \in Metrics : x = s.fields[m])
         /\ Refers(s) \subseteq Ids
         /\ Refers(NoSlot) = {}
         /\ NoSlot \in SlotType
<1>1. \A x : x \in Refers(s) <=> x # 0 /\ (x = s.last \/ \E m \in Metrics : x = s.fields[m])
  BY DEF Refers
<1>2. s.last \in 0..MaxRuns /\ \A m \in Metrics : s.fields[m] \in 0..MaxRuns
  BY DEF SlotType
<1>3. Refers(NoSlot) = {}
  BY DEF Refers, NoSlot
<1>4. NoSlot \in SlotType
  BY SchedulerAssumption DEF NoSlot, SlotType
<1> QED
  BY <1>1, <1>2, <1>3, <1>4, SchedulerAssumption DEF Ids

\* A scope after an attempt refers to it, and else to what it referred to.
LEMMA AttemptedSlot ==
  ASSUME NEW s \in SlotType, NEW c \in Collections
  PROVE  /\ Attempted(s, c) \in SlotType
         /\ Attempted(s, c).last = c.id
         /\ \A m \in Metrics :
              Attempted(s, c).fields[m] = IF m \in c.has THEN c.id ELSE s.fields[m]
         /\ c.id \in Refers(Attempted(s, c))
         /\ \A x \in Refers(Attempted(s, c)) : x = c.id \/ x \in Refers(s)
<1>1. c.id \in 1..MaxRuns /\ c.id # 0 /\ c.id \in 0..MaxRuns
  BY SchedulerAssumption DEF Collections, Ids
<1>2. /\ Attempted(s, c) \in SlotType
      /\ Attempted(s, c).last = c.id
      /\ \A m \in Metrics :
           Attempted(s, c).fields[m] = IF m \in c.has THEN c.id ELSE s.fields[m]
  BY <1>1 DEF Attempted, SlotType
<1> HIDE DEF Attempted
<1>3. c.id \in Refers(Attempted(s, c))
  BY <1>1, <1>2, References
<1>4. ASSUME NEW x \in Refers(Attempted(s, c)), x # c.id PROVE x \in Refers(s)
  BY <1>2, <1>4, References
<1> QED
  BY <1>2, <1>3, <1>4

\* What pruning leaves.
LEMMA PrunedCache ==
  ASSUME NEW slots \in [Resources -> SlotType], NEW cs \in SUBSET Collections,
         Distinct(cs), Complete(slots, cs)
  PROVE  LET P == Pruned(slots, cs) IN
         /\ P \subseteq cs /\ Distinct(P) /\ Complete(slots, P) /\ Owned(slots, P)
         /\ \A c \in cs : c.id \in Refers(slots[c.r]) => c \in P
<1> DEFINE P == Pruned(slots, cs)
<1>1. \A c : c \in P <=> c \in cs /\ \E r \in Resources : c.id \in Refers(slots[r])
  BY DEF Pruned, Referenced
<1> HIDE DEF P
<1>2. \A c \in cs : c.r \in Resources
  BY DEF Collections
<1>3. Distinct(P)
  BY <1>1 DEF Distinct
<1>4. Complete(slots, P)
  BY <1>1 DEF Complete
<1>5. ASSUME NEW c \in P PROVE c.id \in Refers(slots[c.r])
  <2>1. PICK r \in Resources : c.id \in Refers(slots[r])
    BY <1>1
  <2>2. PICK d \in cs : d.id = c.id /\ d.r = r
    BY <2>1 DEF Complete
  <2>3. d = c
    BY <1>1, <2>2 DEF Distinct
  <2> QED
    BY <2>1, <2>2, <2>3
<1>6. \A c \in cs : c.id \in Refers(slots[c.r]) => c \in P
  BY <1>1, <1>2
<1> QED
  BY <1>1, <1>3, <1>4, <1>5, <1>6 DEF P, Owned

\* The numbers known are those dropped before, those named, and those of cs, of
\* which only some are kept.
Tally(n, known, cs, kept, named, before) ==
  /\ n \in Nat /\ known \subseteq 1..n
  /\ cs \subseteq Collections /\ Distinct(cs) /\ kept \subseteq cs /\ IdsOf(cs) \subseteq known
  /\ named \subseteq known
  /\ before \subseteq known /\ before \cap IdsOf(cs) = {} /\ before \cap named = {}
  /\ \A x \in known : x \in before \/ x \in IdsOf(cs) \/ x \in named

\* What is dropped is counted once.
LEMMA CountedOnce ==
  ASSUME NEW n, NEW known, NEW cs, NEW kept, NEW named, NEW before,
         Tally(n, known, cs, kept, named, before)
  PROVE  Cardinality((known \ IdsOf(kept)) \ named) =
           Cardinality(before) + Cardinality({c \in cs \ kept : c.id \notin named})
<1> USE DEF Tally
<1> DEFINE gone == {c \in cs \ kept : c.id \notin named}
           ids == IdsOf(gone)
<1>1. IsFiniteSet(known)
  <2>1. IsFiniteSet(1..n)
    BY FS_Interval
  <2> QED
    BY <2>1, FS_Subset
<1>2. ids \subseteq known
  BY DEF IdsOf
<1>3. IsFiniteSet(before) /\ IsFiniteSet(ids)
  BY <1>1, <1>2, FS_Subset
<1>4. (known \ IdsOf(kept)) \ named = before \cup ids
  <2>1. ASSUME NEW x \in known, x \notin IdsOf(kept), x \notin named PROVE x \in before \cup ids
    <3>1. CASE x \in IdsOf(cs)
      <4>1. PICK c \in cs : c.id = x
        BY <3>1 DEF IdsOf
      <4>2. c \in gone
        BY <2>1, <4>1 DEF IdsOf
      <4> QED
        BY <4>1, <4>2 DEF IdsOf
    <3> QED
      BY <2>1, <3>1
  <2>2. ASSUME NEW x \in before PROVE x \in known /\ x \notin IdsOf(kept) /\ x \notin named
    <3>1. IdsOf(kept) \subseteq IdsOf(cs)
      BY DEF IdsOf
    <3> QED
      BY <3>1
  <2>3. ASSUME NEW x \in ids PROVE x \in known /\ x \notin IdsOf(kept) /\ x \notin named
    <3>1. PICK c \in gone : c.id = x
      BY DEF IdsOf
    <3>2. ASSUME NEW d \in kept, d.id = x PROVE FALSE
      BY <3>1, <3>2 DEF Distinct
    <3> QED
      BY <1>2, <3>1, <3>2 DEF IdsOf
  <2> QED
    BY <2>1, <2>2, <2>3
<1>5. before \cap ids = {}
  BY DEF IdsOf
<1>6. Cardinality(before \cup ids) = Cardinality(before) + Cardinality(ids)
  <2>1. Cardinality(before \cap ids) = 0
    BY <1>5, FS_EmptySet
  <2>2. Cardinality(before) \in Nat /\ Cardinality(ids) \in Nat
    BY <1>3, FS_CardinalityType
  <2>3. Cardinality(before \cup ids) =
          Cardinality(before) + Cardinality(ids) - Cardinality(before \cap ids)
    BY <1>3, FS_Union
  <2> QED
    BY <2>1, <2>2, <2>3
<1>7. Cardinality(ids) = Cardinality(gone)
  <2> DEFINE f == [c \in gone |-> c.id]
  <2>1. f \in Bijection(gone, ids)
    BY DEF Bijection, Injection, IsInjective, Surjection, IdsOf, Distinct
  <2>2. ExistsBijection(gone, ids)
    BY <2>1 DEF ExistsBijection
  <2>3. IsFiniteSet(gone)
    <3>1. f \in Injection(gone, ids)
      BY <2>1 DEF Bijection
    <3> HIDE DEF f, gone, ids
    <3> QED
      BY <1>3, <3>1, FS_Injection
  <2> HIDE DEF gone, ids
  <2> QED
    BY <2>2, <2>3, FS_Bijection
<1> QED
  BY <1>4, <1>6, <1>7

-----------------------------------------------------------------------------
(* The steps of the state owner.                                           *)

\* Keep leaves a complete cache and counts what it drops.
LEMMA KeepStep ==
  ASSUME IInv, NEW slots \in [Resources -> SlotType], NEW cs \in SUBSET Collections,
         Distinct(cs), Complete(slots, cs), results \subseteq cs,
         \A c \in cs \ results : c.id \in 1..runs /\ c.id \notin stored,
         stored' = stored \cup IdsOf(cs), acked' = acked, Keep(slots, cs)
  PROVE  /\ slot' = slots /\ results' = Pruned(slots, cs)
         /\ results' \subseteq cs /\ IdsOf(results') \subseteq stored'
         /\ Distinct(results') /\ Complete(slots, results') /\ Owned(slots, results')
         /\ \A c \in cs : c.id \in Refers(slots[c.r]) => c \in results'
         /\ accepted' = acked \cap IdsOf(results') /\ acked \subseteq stored'
         /\ stored' \subseteq 1..runs
         /\ DiscardsCounted'
<1>1. /\ slot' = slots /\ results' = Pruned(slots, cs)
      /\ discarded' = discarded + Cardinality({c \in cs \ results' : c.id \notin accepted})
      /\ accepted' = accepted \cap IdsOf(results')
  BY DEF Keep
<1>2. /\ results' \subseteq cs /\ Distinct(results') /\ Complete(slots, results')
      /\ Owned(slots, results')
      /\ \A c \in cs : c.id \in Refers(slots[c.r]) => c \in results'
  BY <1>1, PrunedCache
<1>3. /\ stored \subseteq 1..runs /\ acked \subseteq stored /\ runs \in Nat
      /\ accepted = acked \cap IdsOf(results) /\ IdsOf(results) \subseteq stored
      /\ discarded = Cardinality((stored \ IdsOf(results)) \ acked)
  BY SchedulerAssumption DEF IInv, CountsOK, CacheOK, DiscardsCounted
<1>4. ASSUME NEW c \in cs
      PROVE  /\ c.id \in stored'
             /\ c \in results => c.id \in IdsOf(results)
             /\ c.id \notin acked <=> c.id \notin accepted
  BY <1>3, <1>4 DEF IdsOf
<1>5. IdsOf(results') \subseteq IdsOf(cs) /\ IdsOf(results) \subseteq IdsOf(cs)
  BY <1>2 DEF IdsOf
<1>6. accepted' = acked \cap IdsOf(results')
  <2>1. \A c \in cs : c.id \in acked => c.id \in accepted
    BY <1>4
  <2>2. \A x \in IdsOf(results') : x \in acked => x \in accepted
    BY <1>2, <2>1 DEF IdsOf
  <2> QED
    BY <1>1, <1>3, <2>2
<1>7. stored' \subseteq 1..runs
  <2>1. ASSUME NEW x \in IdsOf(cs) PROVE x \in 1..runs
    <3>1. PICK c \in cs : c.id = x
      BY DEF IdsOf
    <3>2. CASE c \in results
      BY <1>3, <1>4, <3>1, <3>2
    <3> QED
      BY <3>1, <3>2
  <2> QED
    BY <1>3, <2>1
<1>8. DiscardsCounted'
  <2> DEFINE before == (stored \ IdsOf(results)) \ acked
             dropped == {c \in cs \ results' : c.id \notin acked}
  <2>1. before \cap IdsOf(cs) = {}
    <3>1. SUFFICES ASSUME NEW c \in cs, c.id \in before PROVE FALSE
      BY DEF IdsOf
    <3> QED
      BY <1>4, <3>1
  <2>2. \A x \in stored' : x \in before \/ x \in IdsOf(cs) \/ x \in acked
    BY <1>5
  <2>3. /\ acked \in SUBSET stored' /\ before \in SUBSET stored' /\ before \cap acked = {}
        /\ IdsOf(cs) \subseteq stored' /\ stored' \in SUBSET (1..runs)
        /\ results' \in SUBSET cs
    BY <1>2, <1>3, <1>7
  <2>4. Cardinality((stored' \ IdsOf(results')) \ acked) =
          Cardinality(before) + Cardinality(dropped)
    <3> HIDE DEF before
    <3>1. runs \in Nat /\ Distinct(cs) /\ cs \in SUBSET Collections
      BY <1>3
    <3>2. Tally(runs, stored', cs, results', acked, before)
      BY <2>1, <2>2, <2>3, <3>1 DEF Tally
    <3> QED
      BY <3>2, CountedOnce
  <2>5. dropped = {c \in cs \ results' : c.id \notin accepted}
    BY <1>4
  <2>6. discarded' = Cardinality(before) + Cardinality(dropped)
    BY <1>1, <1>3, <2>5
  <2> QED
    BY <2>4, <2>6 DEF DiscardsCounted
<1> QED
  BY <1>1, <1>2, <1>3, <1>5, <1>6, <1>7, <1>8

\* The invariant holds of an empty cache and an idle loop.
LEMMA Initially == Init => IInv
<1> SUFFICES ASSUME Init PROVE IInv
  OBVIOUS
<1>1. /\ gen \in [Resources -> {0, 1}] /\ observed \in SUBSET {r \in Resources : gen[r] = 1}
      /\ slot = [r \in Resources |-> NoSlot] /\ shown = [r \in Resources |-> NotShown]
      /\ results = {} /\ accepted = {} /\ discarded = 0
      /\ queue = {} /\ due = [r \in Resources |-> NoDue]
      /\ inflight = {} /\ tasks = {} /\ mail = <<>> /\ runs = 0 /\ scans = 0
      /\ offered = None
      /\ history = [r \in Resources |-> <<>>] /\ stored = {} /\ acked = {}
  BY DEF Init
<1>2. /\ NoSlot \in SlotType /\ Refers(NoSlot) = {} /\ NotShown \in ShownType
      /\ 0 \in 0..MaxScans /\ 0 \in 0..MaxRuns /\ 0 \in 0..MaxScans + 1 /\ 1 \in 0..MaxScans + 1
  <2>1. NoSlot \in SlotType /\ Refers(NoSlot) = {}
    BY SchedulerAssumption DEF NoSlot, SlotType, Refers
  <2>2. NotShown \in ShownType
    BY SchedulerAssumption DEF NotShown, ShownType
  <2> QED
    BY <2>1, <2>2, SchedulerAssumption
<1>3. CacheOK
  <2>1. gen \in [Resources -> 0..MaxScans + 1]
    BY <1>1, <1>2
  <2>2. slot \in [Resources -> SlotType] /\ shown \in [Resources -> ShownType]
    BY <1>1, <1>2
  <2> QED
    BY <1>1, <1>2, <2>1, <2>2 DEF CacheOK, Distinct, Complete, Owned, IdsOf
<1>4. ShownOK
  BY <1>1 DEF ShownOK, NotShown, NoSlot
<1>5. HistoryOK
  <2>1. /\ history \in [Resources -> Seq(Collections)]
        /\ \A r \in Resources : history[r] = <<>>
    BY <1>1
  <2>2. \A m, i : ~Latest(<<>>, m, i)
    BY DEF Latest
  <2> QED
    BY <2>1, <2>2 DEF HistoryOK
<1>6. CountsOK
  BY <1>1, <1>2 DEF CountsOK
<1>7. LoopOK
  BY <1>1, SchedulerAssumption DEF LoopOK, NoDue
<1>8. MailOK
  BY <1>1 DEF MailOK
<1>9. DiscardsCounted
  BY <1>1, FS_EmptySet DEF DiscardsCounted
<1> QED
  BY <1>3, <1>4, <1>5, <1>6, <1>7, <1>8, <1>9 DEF IInv

\* A message that is taken from the mail leaves the rest as it was.
LEMMA TakenFromMail ==
  ASSUME IInv, mail # <<>>, mail' = Tail(mail)
  PROVE  /\ Head(mail) \in Messages /\ Head(mail) = mail[1] /\ 1 \in DOMAIN mail
         /\ mail' \in Seq(Messages)
         /\ \A i \in DOMAIN mail' : i + 1 \in DOMAIN mail /\ mail'[i] = mail[i + 1] /\ i \in Nat
BY DEF IInv, MailOK

\* The mail after a message, when what is recorded is at most its collection.
LEMMA HandledMail ==
  ASSUME IInv, mail # <<>>, mail' = Tail(mail), tasks' = tasks, runs' = runs,
         \/ stored' = stored
         \/ mail[1].type = "result" /\ stored' = stored \cup {mail[1].c.id}
  PROVE  MailOK'
<1>1. /\ 1 \in DOMAIN mail /\ mail' \in Seq(Messages)
      /\ \A i \in DOMAIN mail' : i + 1 \in DOMAIN mail /\ mail'[i] = mail[i + 1] /\ i \in Nat
  BY TakenFromMail
<1>2. \A i \in DOMAIN mail' : i + 1 # 1 /\ i \in 1..Len(mail')
  BY <1>1
<1>3. ASSUME NEW i \in DOMAIN mail', mail'[i].type = "result"
      PROVE  /\ mail'[i].c.id <= runs /\ mail'[i].c.id \notin stored'
             /\ \A k \in DOMAIN mail' :
                  mail'[k].type = "result" /\ mail'[k].c.id = mail'[i].c.id => k = i
  <2>1. i + 1 \in DOMAIN mail /\ mail'[i] = mail[i + 1] /\ i + 1 # 1
    BY <1>1, <1>2
  <2>2. mail[i + 1].c.id <= runs /\ mail[i + 1].c.id \notin stored
    BY <1>3, <2>1 DEF IInv, MailOK
  <2>3. mail[1].type = "result" => mail[1].c.id # mail[i + 1].c.id
    BY <1>1, <1>3, <2>1 DEF IInv, MailOK
  <2>4. ASSUME NEW k \in DOMAIN mail', mail'[k].type = "result", mail'[k].c.id = mail'[i].c.id
        PROVE  k = i
    <3>1. k + 1 = i + 1
      BY <1>1, <1>3, <2>1, <2>4 DEF IInv, MailOK
    <3> QED
      BY <1>1, <3>1
  <2> QED
    BY <2>1, <2>2, <2>3, <2>4
<1>4. ASSUME NEW t \in tasks, t.stage = "command"
      PROVE  /\ t.id \notin stored'
             /\ \A i \in DOMAIN mail' : mail'[i].type = "result" => mail'[i].c.id # t.id
  BY <1>1, <1>4 DEF IInv, MailOK
<1> QED
  BY <1>1, <1>3, <1>4 DEF MailOK

\* A recorded collection is the latest of what it says, and of nothing else.
LEMMA LatestAppended ==
  ASSUME NEW h \in Seq(Collections), NEW c \in Collections, NEW m, NEW i \in Nat,
         Latest(Append(h, c), m, i)
  PROVE  \/ m \in c.has /\ Append(h, c)[i] = c
         \/ m \notin c.has /\ Latest(h, m, i) /\ Append(h, c)[i] = h[i]
<1>1. /\ DOMAIN Append(h, c) = 1..Len(h) + 1 /\ DOMAIN h = 1..Len(h) /\ Len(h) \in Nat
      /\ Append(h, c)[Len(h) + 1] = c
      /\ \A k \in 1..Len(h) : Append(h, c)[k] = h[k]
  OBVIOUS
<1> DEFINE a == Append(h, c)
<1> HIDE DEF a
<1>2. /\ i \in DOMAIN a /\ m \in a[i].has
      /\ \A k \in DOMAIN a : m \in a[k].has => k <= i
  BY DEF Latest, a
<1>3. CASE m \in c.has
  <2>1. Len(h) + 1 <= i
    BY <1>1, <1>2, <1>3 DEF a
  <2>2. i = Len(h) + 1
    BY <1>1, <1>2, <2>1 DEF a
  <2> QED
    BY <1>1, <1>3, <2>2
<1>4. CASE m \notin c.has
  <2>1. i # Len(h) + 1
    BY <1>1, <1>2, <1>4 DEF a
  <2>2. i \in 1..Len(h) /\ a[i] = h[i]
    BY <1>1, <1>2, <2>1 DEF a
  <2>3. Latest(h, m, i)
    BY <1>1, <1>2, <2>2 DEF a, Latest
  <2> QED
    BY <1>4, <2>2, <2>3 DEF a
<1> QED
  BY <1>3, <1>4

\* The state owner takes a message about the phase of an operation.
LEMMA PhaseStep ==
  ASSUME IInv, mail # <<>>, Head(mail).type = "phase", HandlePhase(Head(mail)),
         mail' = Tail(mail), UNCHANGED <<gen, observed, loop, offered, bounds, acked>>
  PROVE  IInv'
<1> DEFINE m == Head(mail)
<1>1. m \in PhaseMessages
  BY TakenFromMail DEF Messages, ResultMessages
<1> HIDE DEF m
<1>2. /\ shown' = [shown EXCEPT ![m.r].phase = IF gen[m.r] = m.g THEN m.phase ELSE @]
      /\ UNCHANGED <<slot, results, discarded, accepted, history, stored, gen, observed,
                     queue, due, inflight, tasks, runs, offered, scans, acked>>
  BY DEF HandlePhase, log, loop, bounds, m
<1>3. m.r \in Resources /\ m.g \in 1..MaxScans + 1 /\ m.phase \in {"Idle", "Running"}
  BY <1>1 DEF PhaseMessages
<1>4. shown \in [Resources -> ShownType]
  BY DEF IInv, CacheOK
<1>5. /\ shown' \in [Resources -> ShownType]
      /\ \A r \in Resources :
           /\ shown'[r].last = shown[r].last
           /\ \/ shown'[r].phase = shown[r].phase
              \/ r = m.r /\ gen[r] = m.g /\ shown'[r].phase \in {"Idle", "Running"}
  BY <1>2, <1>3, <1>4 DEF ShownType
<1>6. CacheOK'
  BY <1>2, <1>5 DEF IInv, CacheOK, Complete, Owned
<1>7. ShownOK'
  BY <1>2, <1>3, <1>5 DEF IInv, ShownOK
<1>8. HistoryOK' /\ CountsOK' /\ LoopOK' /\ DiscardsCounted'
  BY <1>2 DEF IInv, HistoryOK, CountsOK, LoopOK, DiscardsCounted
<1>9. MailOK'
  BY <1>2, HandledMail
<1> QED
  BY <1>6, <1>7, <1>8, <1>9 DEF IInv

\* A result that is recorded, one that is refused, and one that is too late.
LEMMA ResultStep ==
  ASSUME IInv, mail # <<>>, Head(mail).type = "result",
         HandleResult(Head(mail).c, Head(mail).pending),
         mail' = Tail(mail), UNCHANGED <<gen, observed, loop, offered, bounds, acked>>
  PROVE  IInv'
<1> DEFINE c == Head(mail).c
           pending == Head(mail).pending
<1>1. /\ c \in Collections /\ pending \in BOOLEAN
      /\ c.id \notin stored /\ c.id \in 1..runs /\ mail[1].type = "result" /\ mail[1].c = c
  <2>1. Head(mail) \in ResultMessages /\ Head(mail) = mail[1] /\ 1 \in DOMAIN mail
    BY TakenFromMail DEF Messages, PhaseMessages
  <2>2. c \in Collections /\ pending \in BOOLEAN
    BY <2>1 DEF ResultMessages
  <2>3. c.id <= runs /\ c.id \notin stored
    BY <2>1 DEF IInv, MailOK
  <2> QED
    BY <2>1, <2>2, <2>3 DEF Collections, Ids, IInv, CountsOK
<1>2. HandleResult(c, pending)
  OBVIOUS
<1> HIDE DEF c, pending
<1>3. UNCHANGED <<gen, observed, queue, due, inflight, tasks, runs, offered, scans, acked>>
  BY DEF loop, bounds
<1>4. c.r \in Resources /\ c.g \in 1..MaxScans + 1 /\ c.id # 0 /\ c.id \in 0..MaxRuns
  BY <1>1 DEF Collections, Ids
<1>5. /\ slot \in [Resources -> SlotType] /\ shown \in [Resources -> ShownType]
      /\ results \subseteq Collections /\ Distinct(results) /\ Complete(slot, results)
      /\ Owned(slot, results) /\ IdsOf(results) \subseteq stored
      /\ \A d \in results : d.g = gen[d.r]
  BY DEF IInv, CacheOK
<1>6. CASE ~Applies(c)
  <2>1. UNCHANGED <<slot, shown, results, discarded, accepted, history, stored>>
    BY <1>2, <1>6 DEF HandleResult, cache, log
  <2>2. MailOK'
    BY <1>3, <2>1, HandledMail
  <2> QED
    BY <1>3, <2>1, <2>2 DEF IInv, CacheOK, ShownOK, HistoryOK, CountsOK, LoopOK,
                            DiscardsCounted, Complete, Owned
<1>7. CASE Applies(c) /\ ~Records(c)
  <2>1. /\ UNCHANGED <<slot, results, discarded, accepted, history, stored>>
        /\ shown' = [shown EXCEPT ![c.r].phase = PhaseAfter(results, shown[c.r].last, pending)]
    BY <1>2, <1>7 DEF HandleResult, log
  <2> DEFINE p == PhaseAfter(results, shown[c.r].last, pending)
  <2>2. /\ p \in {"Idle", "Running", "pending"}
        /\ p = "pending" => \E d \in results : d.id = shown[c.r].last /\ d.status = "timeout"
    BY DEF PhaseAfter
  <2> HIDE DEF p
  <2>3. shown' = [shown EXCEPT ![c.r].phase = p]
    BY <2>1 DEF p
  <2>4. /\ shown' \in [Resources -> ShownType]
        /\ \A r \in Resources : /\ shown'[r].last = shown[r].last
                                /\ shown'[r].phase = IF r = c.r THEN p ELSE shown[r].phase
    BY <1>4, <1>5, <2>2, <2>3 DEF ShownType
  <2>5. CacheOK' /\ HistoryOK' /\ CountsOK' /\ LoopOK' /\ DiscardsCounted'
    BY <1>3, <2>1, <2>4 DEF IInv, CacheOK, HistoryOK, CountsOK, LoopOK, DiscardsCounted,
                            Complete, Owned
  <2>6. gen[c.r] # 0
    BY <1>4, <1>7 DEF Applies
  <2>7. ShownOK'
    BY <1>3, <2>1, <2>2, <2>4, <2>6 DEF IInv, ShownOK
  <2>8. MailOK'
    BY <1>3, <2>1, HandledMail
  <2> QED
    BY <2>5, <2>7, <2>8 DEF IInv
<1>8. CASE Applies(c) /\ Records(c)
  <2> DEFINE slots == [slot EXCEPT ![c.r] = Attempted(slot[c.r], c)]
             cs == results \cup {c}
             p == PhaseAfter(cs, c.id, pending)
  <2>1. /\ Keep(slots, cs) /\ shown' = [shown EXCEPT ![c.r] = [phase |-> p, last |-> c.id]]
        /\ history' = [history EXCEPT ![c.r] = Append(history[c.r], c)]
        /\ stored' = stored \cup {c.id}
    BY <1>2, <1>8 DEF HandleResult
  <2>2. slots \in [Resources -> SlotType] /\ slots[c.r] = Attempted(slot[c.r], c)
        /\ \A r \in Resources : r # c.r => slots[r] = slot[r]
    BY <1>1, <1>4, <1>5, AttemptedSlot
  <2>3. slot[c.r] \in SlotType
    BY <1>4, <1>5
  <2> HIDE DEF slots
  <2>4. \A d \in results : d.id # c.id
    BY <1>1, <1>5 DEF IdsOf
  <2>5. Distinct(cs) /\ cs \in SUBSET Collections /\ IdsOf(cs) \subseteq stored'
        /\ stored' = stored \cup IdsOf(cs)
    BY <1>1, <1>5, <2>1, <2>4 DEF Distinct, IdsOf
  <2>6. Complete(slots, cs)
    <3>1. ASSUME NEW r \in Resources, NEW x \in Refers(slots[r])
          PROVE  \E d \in cs : d.id = x /\ d.r = r
      <4>1. CASE r # c.r
        BY <1>5, <2>2, <3>1, <4>1 DEF Complete
      <4>2. CASE r = c.r
        <5>1. x = c.id \/ x \in Refers(slot[r])
          BY <1>1, <2>2, <2>3, <3>1, <4>2, AttemptedSlot
        <5> QED
          BY <1>5, <4>2, <5>1 DEF Complete
      <4> QED
        BY <4>1, <4>2
    <3> QED
      BY <3>1 DEF Complete
  <2>7. /\ slot' = slots /\ results' \subseteq cs /\ IdsOf(results') \subseteq stored'
        /\ Distinct(results') /\ Complete(slots, results') /\ Owned(slots, results')
        /\ \A d \in cs : d.id \in Refers(slots[d.r]) => d \in results'
        /\ accepted' = acked \cap IdsOf(results') /\ acked \subseteq stored'
        /\ stored' \subseteq 1..runs
        /\ DiscardsCounted'
    <3>1. results \subseteq cs /\ \A d \in cs \ results : d.id \in 1..runs /\ d.id \notin stored
      BY <1>1
    <3>2. acked' = acked
      BY <1>3
    <3> HIDE DEF cs
    <3> QED
      BY <2>1, <2>2, <2>5, <2>6, <3>1, <3>2, KeepStep
  <2>8. c \in results'
    BY <1>1, <2>2, <2>3, <2>7, AttemptedSlot
  <2>9. /\ p \in {"Idle", "Running", "pending"}
        /\ p = "pending" => c.status = "timeout"
    BY <2>4 DEF PhaseAfter
  <2> HIDE DEF p
  <2>10. shown' \in [Resources -> ShownType] /\ shown'[c.r] = [phase |-> p, last |-> c.id]
         /\ \A r \in Resources : r # c.r => shown'[r] = shown[r]
    BY <1>4, <1>5, <2>1, <2>9 DEF ShownType
  <2>11. \A r \in Resources : r # c.r =>
            \A d \in results : d.r = r => d \in results'
    BY <1>5, <2>2, <2>7 DEF Owned
  <2>12. \A d \in cs : d.g = gen[d.r]
    BY <1>5, <1>8 DEF Applies
  <2>13. CacheOK'
    BY <1>3, <1>5, <2>2, <2>5, <2>7, <2>10, <2>12 DEF IInv, CacheOK
  <2>14. ShownOK'
    <3>1. ASSUME NEW r \in Resources
          PROVE  /\ shown'[r].last = slot'[r].last
                 /\ shown'[r].phase # "none" => gen'[r] # 0
                 /\ shown'[r].phase = "pending" =>
                      \E d \in results' : d.id = shown'[r].last /\ d.status = "timeout"
      <4>1. CASE r = c.r
        <5>1. gen[r] # 0
          BY <1>4, <1>8, <4>1 DEF Applies
        <5>2. slots[r].last = c.id
          BY <1>1, <2>2, <2>3, <4>1, AttemptedSlot
        <5> QED
          BY <1>3, <2>7, <2>8, <2>9, <2>10, <4>1, <5>1, <5>2
      <4>2. CASE r # c.r
        <5>1. /\ shown[r].last = slot[r].last
              /\ shown[r].phase # "none" => gen[r] # 0
          BY DEF IInv, ShownOK
        <5>2. ASSUME shown[r].phase = "pending"
              PROVE  \E d \in results' : d.id = shown[r].last /\ d.status = "timeout"
          <6>1. PICK d \in results : d.id = shown[r].last /\ d.status = "timeout"
            BY <5>2 DEF IInv, ShownOK
          <6>2. d.id # 0 /\ slot[r] \in SlotType
            BY <1>5 DEF Collections, Ids
          <6>3. d.id \in Refers(slot[r])
            BY <5>1, <6>1, <6>2, References
          <6>4. PICK e \in results : e.id = d.id /\ e.r = r
            BY <1>5, <6>3 DEF Complete
          <6>5. d \in results'
            BY <1>5, <2>11, <4>2, <6>4 DEF Distinct
          <6> QED
            BY <6>1, <6>5
        <5> QED
          BY <1>3, <2>2, <2>7, <2>10, <4>2, <5>1, <5>2
      <4> QED
        BY <4>1, <4>2
    <3> QED
      BY <3>1 DEF ShownOK
  <2>15. HistoryOK'
    <3>1. ASSUME NEW r \in Resources
          PROVE  /\ history[r] \in Seq(Collections)
                 /\ gen[r] = 0 => history[r] = <<>>
                 /\ \A m \in Metrics, i \in Nat : Latest(history[r], m, i) =>
                      history[r][i] \in results /\ slot[r].fields[m] = history[r][i].id
      <4>1. history \in [Resources -> Seq(Collections)]
        BY DEF IInv, HistoryOK
      <4>2. history[r] \in Seq(Collections)
        BY <4>1
      <4> QED
        BY <4>2 DEF IInv, HistoryOK
    <3>2. /\ history'[c.r] = Append(history[c.r], c)
          /\ \A r \in Resources : r # c.r => history'[r] = history[r]
          /\ history' \in [Resources -> Seq(Collections)]
      <4>1. history \in [Resources -> Seq(Collections)]
        BY DEF IInv, HistoryOK
      <4>2. Append(history[c.r], c) \in Seq(Collections)
        BY <1>1, <1>4, <4>1
      <4> QED
        BY <1>4, <2>1, <4>1, <4>2
    <3>3. ASSUME NEW r \in Resources, NEW m \in Metrics, NEW i \in Nat, Latest(history'[r], m, i)
          PROVE  history'[r][i] \in results' /\ slot'[r].fields[m] = history'[r][i].id
      <4>1. CASE r # c.r
        <5>1. history[r][i] \in results /\ slot[r].fields[m] = history[r][i].id
          BY <3>1, <3>2, <3>3, <4>1
        <5>2. history[r][i] \in results'
          <6>1. slot[r] \in SlotType /\ history[r][i].id # 0
            BY <1>5, <5>1 DEF Collections, Ids
          <6>2. history[r][i].id \in Refers(slot[r])
            BY <5>1, <6>1, References
          <6>3. PICK e \in results : e.id = history[r][i].id /\ e.r = r
            BY <1>5, <6>2 DEF Complete
          <6> QED
            BY <1>5, <2>11, <4>1, <5>1, <6>3 DEF Distinct
        <5> QED
          BY <2>2, <2>7, <3>2, <4>1, <5>1, <5>2
      <4>2. CASE r = c.r
        <5>1. /\ slot'[r].fields[m] = IF m \in c.has THEN c.id ELSE slot[r].fields[m]
              /\ slots[r] \in SlotType
          BY <1>1, <2>2, <2>3, <2>7, <4>2, AttemptedSlot
        <5>2. \/ m \in c.has /\ history'[r][i] = c
              \/ m \notin c.has /\ Latest(history[r], m, i) /\ history'[r][i] = history[r][i]
          <6>1. PICK h \in Seq(Collections), d \in Collections : h = history[r] /\ d = c
            BY <1>1, <3>1
          <6>2. history'[r] = Append(h, d)
            BY <3>2, <4>2, <6>1
          <6>3. Latest(Append(h, d), m, i)
            BY <3>3, <6>2
          <6>4. \/ m \in d.has /\ Append(h, d)[i] = d
                \/ m \notin d.has /\ Latest(h, m, i) /\ Append(h, d)[i] = h[i]
            BY ZenonT(40), <6>3, LatestAppended
          <6> QED
            BY <6>1, <6>2, <6>4
        <5>3. CASE m \in c.has
          BY <2>8, <5>1, <5>2, <5>3
        <5>4. CASE m \notin c.has
          <6> DEFINE d == history[r][i]
          <6>1. d \in results /\ slots[r].fields[m] = d.id /\ history'[r][i] = d
            BY <2>7, <3>1, <5>1, <5>2, <5>4
          <6> HIDE DEF d
          <6>2. d.id # 0
            BY <1>5, <6>1 DEF Collections, Ids
          <6>3. d.id \in Refers(slots[r])
            BY <5>1, <6>1, <6>2, References
          <6>4. PICK e \in results' : e.id = d.id /\ e.r = r
            BY <2>7, <6>3 DEF Complete
          <6>5. e = d
            BY <2>5, <2>7, <6>1, <6>4 DEF Distinct
          <6> QED
            BY <2>7, <6>1, <6>4, <6>5
        <5> QED
          BY <5>3, <5>4
      <4> QED
        BY <4>1, <4>2
    <3>4. \A r \in Resources : gen'[r] = 0 => history'[r] = <<>>
      BY <1>3, <1>4, <1>8, <3>1, <3>2 DEF Applies
    <3> QED
      BY <3>2, <3>3, <3>4 DEF HistoryOK
  <2>16. CountsOK'
    BY <1>3, <2>7 DEF IInv, CountsOK
  <2>17. LoopOK'
    BY <1>3 DEF IInv, LoopOK
  <2>18. MailOK'
    BY <1>1, <1>3, <2>1, HandledMail
  <2> QED
    BY <2>7, <2>13, <2>14, <2>15, <2>16, <2>17, <2>18 DEF IInv
<1> QED
  BY <1>6, <1>7, <1>8

\* A carried collection that a scope refers to is one of its own.
LEMMA ReferredIsOwn ==
  ASSUME IInv, NEW r \in Resources, NEW d \in results, d.id \in Refers(slot[r])
  PROVE  d.r = r
<1>1. Complete(slot, results) /\ Distinct(results)
  BY DEF IInv, CacheOK
<1>2. PICK e \in results : e.id = d.id /\ e.r = r
  BY <1>1 DEF Complete
<1> QED
  BY <1>1, <1>2 DEF Distinct

\* What an enumeration clears refers to nothing, has no history and is not
\* shown; the rest of the scopes are as they were and keep what they refer to.
LEMMA RescanStep ==
  ASSUME IInv, NEW found \in SUBSET Resources, Rescan(found)
  PROVE  IInv'
<1> DEFINE cleared == Cleared(found)
           slots == [r \in Resources |-> IF r \in cleared THEN NoSlot ELSE slot[r]]
<1>1. /\ scans < MaxScans /\ scans' = scans + 1 /\ observed' = found
      /\ gen' = [r \in Resources |-> GenerationAfter(r, found)]
      /\ Keep(slots, results)
      /\ shown' = [r \in Resources |-> IF r \in cleared THEN NotShown ELSE shown[r]]
      /\ history' = [r \in Resources |-> IF gen'[r] # gen[r] THEN <<>> ELSE history[r]]
      /\ UNCHANGED <<queue, due, inflight, tasks, runs, mail, offered, stored, acked>>
  BY DEF Rescan, loop
<1>2. /\ gen \in [Resources -> 0..MaxScans + 1] /\ scans \in 0..MaxScans
      /\ slot \in [Resources -> SlotType] /\ shown \in [Resources -> ShownType]
      /\ results \in SUBSET Collections /\ Distinct(results) /\ Complete(slot, results)
      /\ Owned(slot, results) /\ IdsOf(results) \subseteq stored
      /\ \A d \in results : d.g = gen[d.r]
  BY DEF IInv, CacheOK
<1>3. gen' \in [Resources -> 0..MaxScans + 1] /\ scans' \in 0..MaxScans
  <2>1. MaxScans \in Nat /\ scans \in Nat /\ scans + 2 \in 0..MaxScans + 1 /\ 1 \in 0..MaxScans + 1
        /\ 0 \in 0..MaxScans + 1 /\ scans + 1 \in 0..MaxScans
    BY <1>1, <1>2, SchedulerAssumption
  <2>2. \A r \in Resources : GenerationAfter(r, found) \in 0..MaxScans + 1
    BY <1>2, <2>1 DEF GenerationAfter
  <2> QED
    BY <1>1, <2>1, <2>2
<1>4. \A r \in Resources : /\ r \notin cleared => gen'[r] = gen[r]
                           /\ r \in cleared => gen'[r] # gen[r] \/ gen'[r] = 0
  BY <1>1 DEF Cleared, GenerationAfter
<1>5. NoSlot \in SlotType /\ Refers(NoSlot) = {} /\ NoSlot.last = 0
      /\ NotShown \in ShownType /\ NotShown.last = 0 /\ NotShown.phase = "none"
  <2>1. NoSlot \in SlotType /\ NotShown \in ShownType
    BY SchedulerAssumption DEF NoSlot, SlotType, NotShown, ShownType
  <2> QED
    BY <2>1 DEF NoSlot, NotShown, Refers
<1>6. /\ slots \in [Resources -> SlotType]
      /\ \A r \in Resources : slots[r] = IF r \in cleared THEN NoSlot ELSE slot[r]
  BY <1>2, <1>5
<1>7. /\ shown' \in [Resources -> ShownType]
      /\ \A r \in Resources : shown'[r] = IF r \in cleared THEN NotShown ELSE shown[r]
  BY <1>1, <1>2, <1>5
<1> HIDE DEF cleared, slots
<1>8. Complete(slots, results)
  BY <1>2, <1>5, <1>6 DEF Complete
<1>9. /\ slot' = slots /\ results' \subseteq results /\ IdsOf(results') \subseteq stored'
      /\ Distinct(results') /\ Complete(slots, results') /\ Owned(slots, results')
      /\ \A d \in results : d.id \in Refers(slots[d.r]) => d \in results'
      /\ accepted' = acked \cap IdsOf(results') /\ acked \subseteq stored'
      /\ stored' \subseteq 1..runs
      /\ DiscardsCounted'
  <2>1. stored' = stored \cup IdsOf(results) /\ acked' = acked
    BY <1>1, <1>2
  <2> QED
    BY <1>1, <1>2, <1>6, <1>8, <2>1, KeepStep
<1>10. ASSUME NEW r \in Resources, r \notin cleared, NEW d \in results, d.id \in Refers(slot[r])
       PROVE  d \in results'
  <2>1. d.r = r
    BY <1>10, ReferredIsOwn
  <2> QED
    BY <1>6, <1>9, <1>10, <2>1
<1>11. ASSUME NEW d \in results' PROVE d.g = gen'[d.r]
  <2>1. d \in results /\ d.r \in Resources /\ d.id \in Refers(slots[d.r])
    BY <1>2, <1>9 DEF Owned, Collections
  <2>2. d.r \notin cleared
    BY <1>5, <1>6, <2>1
  <2> QED
    BY <1>2, <1>4, <2>1, <2>2
<1>12. CacheOK'
  BY <1>2, <1>3, <1>6, <1>7, <1>9, <1>11 DEF CacheOK
<1>13. ShownOK'
  <2>1. ASSUME NEW r \in Resources
        PROVE  /\ shown'[r].last = slot'[r].last
               /\ shown'[r].phase # "none" => gen'[r] # 0
               /\ shown'[r].phase = "pending" =>
                    \E d \in results' : d.id = shown'[r].last /\ d.status = "timeout"
    <3>1. CASE r \in cleared
      BY <1>5, <1>6, <1>7, <1>9, <3>1
    <3>2. CASE r \notin cleared
      <4>1. /\ shown[r].last = slot[r].last
            /\ shown[r].phase # "none" => gen[r] # 0
        BY DEF IInv, ShownOK
      <4>2. ASSUME shown[r].phase = "pending"
            PROVE  \E d \in results' : d.id = shown[r].last /\ d.status = "timeout"
        <5>1. PICK d \in results : d.id = shown[r].last /\ d.status = "timeout"
          BY <4>2 DEF IInv, ShownOK
        <5>2. d.id # 0 /\ slot[r] \in SlotType
          BY <1>2 DEF Collections, Ids
        <5>3. d.id \in Refers(slot[r])
          BY <4>1, <5>1, <5>2, References
        <5> QED
          BY <1>10, <3>2, <5>1, <5>3
      <4> QED
        BY <1>4, <1>6, <1>7, <1>9, <3>2, <4>1, <4>2
    <3> QED
      BY <3>1, <3>2
  <2> QED
    BY <2>1 DEF ShownOK
<1>14. HistoryOK'
  <2>1. /\ history \in [Resources -> Seq(Collections)]
        /\ \A r \in Resources : gen[r] = 0 => history[r] = <<>>
    BY DEF IInv, HistoryOK
  <2>2. \A r \in Resources : history'[r] = IF gen'[r] # gen[r] THEN <<>> ELSE history[r]
    BY <1>1
  <2>3. history' \in [Resources -> Seq(Collections)]
    BY <1>1, <2>1
  <2>4. \A r \in Resources : /\ gen'[r] = 0 => history'[r] = <<>>
                             /\ r \in cleared => history'[r] = <<>>
                             /\ r \notin cleared => history'[r] = history[r]
    BY <1>4, <2>1, <2>2
  <2>5. ASSUME NEW r \in Resources, NEW m \in Metrics, NEW i \in Nat, Latest(history'[r], m, i)
        PROVE  history'[r][i] \in results' /\ slot'[r].fields[m] = history'[r][i].id
    <3>1. r \notin cleared
      BY <2>4, <2>5 DEF Latest
    <3>2. history[r][i] \in results /\ slot[r].fields[m] = history[r][i].id
      BY <2>4, <2>5, <3>1 DEF IInv, HistoryOK
    <3>3. slot[r] \in SlotType /\ history[r][i].id # 0
      BY <1>2, <3>2 DEF Collections, Ids
    <3>4. history[r][i].id \in Refers(slot[r])
      BY <3>2, <3>3, References
    <3> QED
      BY <1>6, <1>9, <1>10, <2>4, <3>1, <3>2, <3>4
  <2> QED
    BY <2>3, <2>4, <2>5 DEF HistoryOK
<1>15. CountsOK'
  BY <1>1, <1>9 DEF IInv, CountsOK
<1>16. LoopOK'
  BY <1>1 DEF IInv, LoopOK
<1>17. MailOK'
  BY <1>1 DEF IInv, MailOK
<1> QED
  BY <1>9, <1>12, <1>13, <1>14, <1>15, <1>16, <1>17 DEF IInv

-----------------------------------------------------------------------------
(* Heartbeats, the loop and its tasks.                                     *)

\* A heartbeat offers what the cache holds.
LEMMA OfferStep == IInv /\ Offer => IInv'
<1> SUFFICES ASSUME IInv, Offer PROVE IInv'
  OBVIOUS
<1>1. /\ offered' = IdsOf(results)
      /\ UNCHANGED <<gen, observed, slot, shown, results, discarded, accepted, queue, due,
                     inflight, tasks, runs, mail, scans, history, stored, acked>>
  BY DEF Offer, cache, loop, log
<1>2. IdsOf(results) \subseteq Ids
  BY DEF IInv, CacheOK, IdsOf, Collections
<1> QED
  BY <1>1, <1>2 DEF IInv, CacheOK, Complete, Owned, ShownOK, HistoryOK, CountsOK, LoopOK,
                    MailOK, DiscardsCounted

\* The answer names collections, which the cache marks as acknowledged.
LEMMA AnswerStep ==
  ASSUME IInv, NEW arrives \in BOOLEAN, Answer(arrives)
  PROVE  IInv'
<1> DEFINE named == IF arrives THEN offered \cap IdsOf(results) ELSE {}
<1>1. /\ accepted' = accepted \cup named /\ acked' = acked \cup named /\ offered' = None
      /\ UNCHANGED <<gen, observed, slot, shown, results, discarded, queue, due, inflight,
                     tasks, runs, mail, scans, history, stored>>
  BY DEF Answer, cache, loop, log, bounds
<1>2. named \subseteq IdsOf(results) /\ IdsOf(results) \subseteq stored
  BY DEF IInv, CacheOK
<1> HIDE DEF named
<1>3. CountsOK'
  BY <1>1, <1>2 DEF IInv, CountsOK
<1>4. (stored' \ IdsOf(results')) \ acked' = (stored \ IdsOf(results)) \ acked
  BY <1>1, <1>2
<1>5. DiscardsCounted'
  BY <1>1, <1>4 DEF IInv, DiscardsCounted
<1> QED
  BY <1>1, <1>3, <1>5 DEF IInv, CacheOK, Complete, Owned, ShownOK, HistoryOK, LoopOK, MailOK

\* The counter of a scope stays within the period and its jitter; what has a
\* task is not queued.
LEMMA TickStep == IInv /\ Tick => IInv'
<1> SUFFICES ASSUME IInv, Tick PROVE IInv'
  OBVIOUS
<1>1. /\ due' = [r \in Resources |->
                   IF r \notin {j.r : j \in JobsOf} \/ due[r] = NoDue THEN NoDue
                   ELSE IF due[r] = 0 THEN 0 ELSE due[r] - 1]
      /\ queue' = {j \in JobsOf : Ready(j, due')}
      /\ UNCHANGED <<gen, observed, slot, shown, results, discarded, accepted, inflight, tasks,
                     runs, mail, offered, scans, history, stored, acked>>
  BY DEF Tick, cache, log, bounds
<1>2. JobsOf \subseteq Jobs
  <2>1. gen \in [Resources -> 0..MaxScans + 1] /\ MaxScans \in Nat /\ observed \subseteq Resources
    BY SchedulerAssumption DEF IInv, CacheOK, LoopOK
  <2>2. \A r \in observed : gen[r] # 0 => gen[r] \in 1..MaxScans + 1
    BY <2>1
  <2> QED
    BY <2>1, <2>2 DEF JobsOf, Jobs
<1>3. due' \in [Resources -> NoDue..Period + Jitter]
  <2>1. due \in [Resources -> NoDue..Period + Jitter] /\ Period \in Nat /\ Jitter \in Nat
    BY SchedulerAssumption DEF IInv, LoopOK
  <2>2. ASSUME NEW r \in Resources PROVE due'[r] \in NoDue..Period + Jitter
    <3>1. due[r] \in NoDue..Period + Jitter
      BY <2>1
    <3> QED
      BY <1>1, <2>1, <3>1 DEF NoDue
  <2> QED
    BY <1>1, <2>2
<1>4. queue' \subseteq Jobs /\ queue' \cap inflight = {}
  BY <1>1, <1>2 DEF Ready
<1>5. LoopOK'
  BY <1>1, <1>3, <1>4 DEF IInv, LoopOK
<1> QED
  BY <1>1, <1>5 DEF IInv, CacheOK, Complete, Owned, ShownOK, HistoryOK, CountsOK, MailOK,
                    DiscardsCounted

\* A phase at the end of the mail is no result.
LEMMA PhaseMailed ==
  ASSUME IInv, NEW m \in PhaseMessages, mail' = Append(mail, m)
  PROVE  /\ mail' \in Seq(Messages)
         /\ \A i \in DOMAIN mail' :
              mail'[i].type = "result" => i \in DOMAIN mail /\ mail'[i] = mail[i]
<1>1. mail \in Seq(Messages) /\ m \in Messages /\ m.type = "phase"
  BY DEF IInv, MailOK, Messages, PhaseMessages
<1> QED
  BY <1>1

\* A launch takes a number that nothing has yet, for a job without a task.
LEMMA AdmitStep ==
  ASSUME IInv, NEW j \in queue, NEW admitted \in BOOLEAN, NEW extra \in 0..Jitter,
         Admit(j, admitted, extra)
  PROVE  IInv'
<1>1. /\ queue' = queue \ {j}
      /\ UNCHANGED <<gen, observed, slot, shown, results, discarded, accepted, offered, scans,
                     history, stored, acked>>
  BY DEF Admit, cache, log, bounds
<1>2. /\ j \in Jobs /\ j \notin inflight /\ j.r \in Resources /\ j.g \in 1..MaxScans + 1
      /\ j = [r |-> j.r, g |-> j.g]
      /\ queue \subseteq Jobs /\ inflight \subseteq Jobs /\ queue \cap inflight = {}
  BY DEF IInv, LoopOK, Jobs
<1>3. /\ runs \in Nat /\ runs \in 0..MaxRuns /\ MaxRuns \in Nat /\ stored \subseteq 1..runs
      /\ tasks \subseteq TaskType /\ \A t \in tasks : t.id \in Nat /\ t.id <= runs
  <2>1. tasks \subseteq TaskType /\ \A t \in tasks : t.id <= runs
    BY DEF IInv, LoopOK
  <2>2. \A t \in tasks : t.id \in Nat
    BY <2>1 DEF TaskType, Ids
  <2> QED
    BY <2>1, <2>2, SchedulerAssumption DEF IInv, CountsOK
<1>4. CASE ~admitted
  <2>1. UNCHANGED <<runs, due, inflight, tasks, mail>>
    BY <1>4 DEF Admit
  <2>2. LoopOK'
    BY <1>1, <2>1 DEF IInv, LoopOK
  <2> QED
    BY <1>1, <2>1, <2>2 DEF IInv, CacheOK, Complete, Owned, ShownOK, HistoryOK, CountsOK,
                            MailOK, DiscardsCounted
<1>5. CASE admitted
  <2> DEFINE n == [id |-> runs + 1, r |-> j.r, g |-> j.g, stage |-> "command"]
             m == [type |-> "phase", r |-> j.r, g |-> j.g, phase |-> "Running"]
  <2>1. /\ runs < MaxRuns /\ runs' = runs + 1 /\ due' = [due EXCEPT ![j.r] = Period + extra]
        /\ inflight' = inflight \cup {j} /\ tasks' = tasks \cup {n} /\ mail' = Append(mail, m)
    BY <1>5 DEF Admit
  <2>2. /\ n \in TaskType /\ n.id = runs + 1 /\ n.r = j.r /\ n.g = j.g /\ n.stage = "command"
    <3>1. runs + 1 \in Ids
      BY <1>3, <2>1 DEF Ids
    <3> QED
      BY <1>2, <3>1 DEF TaskType
  <2>3. m \in PhaseMessages
    BY <1>2 DEF PhaseMessages
  <2> HIDE DEF n, m
  <2>4. /\ mail' \in Seq(Messages)
        /\ \A i \in DOMAIN mail' :
             mail'[i].type = "result" => i \in DOMAIN mail /\ mail'[i] = mail[i]
    BY <2>1, <2>3, PhaseMailed
  <2>5. LoopOK'
    <3>1. due' \in [Resources -> NoDue..Period + Jitter]
      <4>1. Period + extra \in NoDue..Period + Jitter
        BY SchedulerAssumption DEF NoDue
      <4> QED
        BY <1>2, <2>1, <4>1 DEF IInv, LoopOK
    <3>2. tasks' \subseteq TaskType
      BY <1>3, <2>1, <2>2
    <3>3. ASSUME NEW t \in tasks' PROVE t.id <= runs' /\ [r |-> t.r, g |-> t.g] \in inflight'
      <4>1. CASE t \in tasks
        BY <1>3, <2>1, <4>1 DEF IInv, LoopOK
      <4>2. CASE t = n
        BY <1>2, <1>3, <2>1, <2>2, <4>2
      <4> QED
        BY <2>1, <4>1, <4>2
    <3>4. \A t \in tasks : t.id # n.id /\ ~(t.r = n.r /\ t.g = n.g)
      <4>1. ASSUME NEW t \in tasks PROVE t.id # n.id
        BY <1>3, <2>2, <4>1
      <4>2. ASSUME NEW t \in tasks, t.r = n.r, t.g = n.g PROVE FALSE
        <5>1. [r |-> t.r, g |-> t.g] \in inflight
          BY DEF IInv, LoopOK
        <5> QED
          BY <1>2, <2>2, <4>2, <5>1
      <4> QED
        BY <4>1, <4>2
    <3>5. \A t, u \in tasks' : t.id = u.id \/ (t.r = u.r /\ t.g = u.g) => t = u
      <4>1. \A t, u \in tasks : t.id = u.id \/ (t.r = u.r /\ t.g = u.g) => t = u
        BY DEF IInv, LoopOK
      <4> QED
        BY <2>1, <3>4, <4>1
    <3>6. /\ observed' \subseteq Resources /\ queue' \subseteq Jobs /\ inflight' \subseteq Jobs
          /\ queue' \cap inflight' = {}
      BY <1>1, <1>2, <2>1 DEF IInv, LoopOK
    <3> QED
      BY <3>1, <3>2, <3>3, <3>5, <3>6 DEF LoopOK
  <2>6. ASSUME NEW i \in DOMAIN mail', mail'[i].type = "result"
        PROVE  /\ mail'[i] = mail[i] /\ i \in DOMAIN mail
               /\ mail[i].c.id \in Nat /\ mail[i].c.id <= runs /\ mail[i].c.id \notin stored
    <3>1. i \in DOMAIN mail /\ mail'[i] = mail[i]
      BY <2>4, <2>6
    <3>2. mail \in Seq(Messages) /\ mail[i].c.id <= runs /\ mail[i].c.id \notin stored
      BY <2>6, <3>1 DEF IInv, MailOK
    <3>3. mail[i] \in Messages
      BY <3>1, <3>2
    <3>4. mail[i] \in ResultMessages
      BY <2>6, <3>1, <3>3 DEF Messages, PhaseMessages
    <3>5. mail[i].c.id \in Nat
      BY <3>4 DEF ResultMessages, Collections, Ids
    <3> QED
      BY <3>1, <3>2, <3>5
  <2>7. MailOK'
    <3>1. ASSUME NEW i \in DOMAIN mail', mail'[i].type = "result"
          PROVE  /\ mail'[i].c.id <= runs' /\ mail'[i].c.id \notin stored'
                 /\ \A k \in DOMAIN mail' :
                      mail'[k].type = "result" /\ mail'[k].c.id = mail'[i].c.id => k = i
      <4>1. mail'[i].c.id <= runs'
        BY <1>3, <2>1, <2>6, <3>1
      <4>2. ASSUME NEW k \in DOMAIN mail', mail'[k].type = "result",
                   mail'[k].c.id = mail'[i].c.id
            PROVE  k = i
        BY <2>6, <3>1, <4>2 DEF IInv, MailOK
      <4> QED
        BY <1>1, <2>6, <3>1, <4>1, <4>2
    <3>2. ASSUME NEW t \in tasks', t.stage = "command"
          PROVE  /\ t.id \notin stored'
                 /\ \A i \in DOMAIN mail' : mail'[i].type = "result" => mail'[i].c.id # t.id
      <4>1. CASE t \in tasks
        BY <1>1, <2>6, <3>2, <4>1 DEF IInv, MailOK
      <4>2. CASE t = n
        <5>1. runs + 1 \notin stored
          BY <1>3
        <5>2. ASSUME NEW i \in DOMAIN mail', mail'[i].type = "result"
              PROVE  mail'[i].c.id # runs + 1
          BY <1>3, <2>6, <5>2
        <5> QED
          BY <1>1, <2>2, <4>2, <5>1, <5>2
      <4> QED
        BY <2>1, <4>1, <4>2
    <3> QED
      BY <2>4, <3>1, <3>2 DEF MailOK
  <2>8. CountsOK'
    <3>1. runs' \in 0..MaxRuns /\ stored' \subseteq 1..runs'
      BY <1>1, <1>3, <2>1
    <3> QED
      BY <1>1, <3>1 DEF IInv, CountsOK
  <2> QED
    BY <1>1, <2>5, <2>7, <2>8 DEF IInv, CacheOK, Complete, Owned, ShownOK, HistoryOK,
                                  DiscardsCounted
<1> QED
  BY <1>4, <1>5

\* A task that goes on keeps its number and its job.
LEMMA StageStep ==
  ASSUME IInv, NEW t \in tasks, NEW s \in {"exiting", "done"},
         tasks' = (tasks \ {t}) \cup {[t EXCEPT !.stage = s]},
         UNCHANGED <<observed, queue, due, inflight, runs>>
  PROVE  /\ LoopOK'
         /\ \A u \in tasks' : u.stage = "command" => u \in tasks /\ u # t
<1> DEFINE n == [t EXCEPT !.stage = s]
<1>1. /\ tasks \subseteq TaskType
      /\ \A u \in tasks : u.id <= runs /\ [r |-> u.r, g |-> u.g] \in inflight
      /\ \A u, v \in tasks : u.id = v.id \/ (u.r = v.r /\ u.g = v.g) => u = v
  BY DEF IInv, LoopOK
<1>2. n \in TaskType /\ n.id = t.id /\ n.r = t.r /\ n.g = t.g /\ n.stage = s
  BY <1>1 DEF TaskType
<1>3. tasks' = (tasks \ {t}) \cup {n}
  OBVIOUS
<1> HIDE DEF n
<1>4. \A u \in tasks' : u = n \/ (u \in tasks /\ u # t)
  BY <1>3
<1>5. tasks' \subseteq TaskType
  BY <1>1, <1>2, <1>4
<1>6. \A u \in tasks' : u.id <= runs' /\ [r |-> u.r, g |-> u.g] \in inflight'
  <2>1. [r |-> n.r, g |-> n.g] \in inflight /\ n.id <= runs
    BY <1>1, <1>2
  <2> QED
    BY <1>1, <1>4, <2>1
<1>7. \A u, v \in tasks' : u.id = v.id \/ (u.r = v.r /\ u.g = v.g) => u = v
  BY <1>1, <1>2, <1>4
<1>8. \A u \in tasks' : u.stage = "command" => u \in tasks /\ u # t
  BY <1>2, <1>4
<1> QED
  BY <1>5, <1>6, <1>7, <1>8 DEF IInv, LoopOK

\* The result of a command goes into the mail with the number of its task.
LEMMA FinishStep ==
  ASSUME IInv, NEW t \in tasks, NEW status \in {"done", "timeout"},
         NEW has \in SUBSET Metrics, NEW pending \in BOOLEAN,
         Finish(t, status, has, pending)
  PROVE  IInv'
<1> DEFINE c == [id |-> t.id, r |-> t.r, g |-> t.g, status |-> status, has |-> has]
           result == [type |-> "result", c |-> c, pending |-> pending]
           n == Len(mail) + 1
<1>1. /\ t.stage = "command"
      /\ mail' = mail \o (IF pending THEN <<result>> ELSE <<result, Idle(t)>>)
      /\ tasks' = (tasks \ {t}) \cup {[t EXCEPT !.stage = IF pending THEN "exiting" ELSE "done"]}
      /\ UNCHANGED <<gen, observed, slot, shown, results, discarded, accepted, queue, due,
                     inflight, runs, offered, scans, history, stored, acked>>
  BY DEF Finish, cache, log, bounds
<1>2. t.id \in Ids /\ t.r \in Resources /\ t.g \in 1..MaxScans + 1
  BY DEF IInv, LoopOK, TaskType
<1>3. result \in ResultMessages /\ Idle(t) \in PhaseMessages
  BY <1>2 DEF ResultMessages, Collections, PhaseMessages, Idle
<1>4. result.type = "result" /\ result.c.id = t.id /\ Idle(t).type = "phase"
  BY DEF Idle
<1>5. LoopOK' /\ \A u \in tasks' : u.stage = "command" => u \in tasks /\ u # t
  <2> DEFINE s == IF pending THEN "exiting" ELSE "done"
  <2>1. s \in {"exiting", "done"} /\ tasks' = (tasks \ {t}) \cup {[t EXCEPT !.stage = s]}
    BY <1>1
  <2> HIDE DEF s
  <2> QED
    BY <1>1, <2>1, StageStep
<1> HIDE DEF c, result
<1>6. /\ mail' \in Seq(Messages) /\ n \notin DOMAIN mail
      /\ \A i \in DOMAIN mail' : mail'[i].type = "result" =>
           (i \in DOMAIN mail /\ mail'[i] = mail[i]) \/ (i = n /\ mail'[i] = result)
  <2>1. mail \in Seq(Messages) /\ result \in Messages /\ Idle(t) \in Messages
    BY <1>3 DEF IInv, MailOK, Messages
  <2>2. CASE pending
    <3>1. mail' = mail \o <<result>>
      BY <1>1, <2>2
    <3> QED
      BY <2>1, <3>1
  <2>3. CASE ~pending
    <3> DEFINE end == <<result, Idle(t)>>
    <3>1. mail' = mail \o end
      BY <1>1, <2>3
    <3>2. end \in Seq(Messages) /\ Len(end) = 2 /\ end[1] = result /\ end[2].type = "phase"
      BY <1>4, <2>1
    <3> HIDE DEF end
    <3>3. /\ mail' \in Seq(Messages) /\ Len(mail') = Len(mail) + 2
          /\ \A i \in 1..Len(mail') :
               mail'[i] = IF i <= Len(mail) THEN mail[i] ELSE end[i - Len(mail)]
      <4>1. mail \in Seq(Messages) /\ end \in Seq(Messages) /\ Len(end) = 2
        BY <2>1, <3>2
      <4>2. /\ mail \o end \in Seq(Messages) /\ Len(mail \o end) = Len(mail) + Len(end)
            /\ \A i \in 1..Len(mail) + Len(end) :
                 (mail \o end)[i] = IF i <= Len(mail) THEN mail[i] ELSE end[i - Len(mail)]
        BY <4>1, ConcatProperties
      <4> QED
        BY <3>1, <4>1, <4>2
    <3>4. Len(mail) \in Nat /\ DOMAIN mail = 1..Len(mail) /\ DOMAIN mail' = 1..Len(mail')
      BY <2>1, <3>3
    <3>5. ASSUME NEW i \in DOMAIN mail', mail'[i].type = "result"
          PROVE  (i \in DOMAIN mail /\ mail'[i] = mail[i]) \/ (i = n /\ mail'[i] = result)
      <4>1. i \in Nat /\ 1 <= i /\ i <= Len(mail) + 2
        BY <3>3, <3>4
      <4>2. CASE i <= Len(mail)
        BY <3>3, <3>4, <4>1, <4>2
      <4>3. CASE i = Len(mail) + 1
        <5>1. i - Len(mail) = 1 /\ ~(i <= Len(mail))
          BY <3>4, <4>3
        <5> QED
          BY <3>2, <3>3, <3>4, <4>3, <5>1
      <4>4. CASE i = Len(mail) + 2
        <5>1. i - Len(mail) = 2 /\ ~(i <= Len(mail))
          BY <3>4, <4>4
        <5>2. mail'[i] = end[2]
          BY <3>3, <3>4, <5>1
        <5> QED
          BY <3>2, <3>5, <5>2
      <4> QED
        BY <3>4, <4>1, <4>2, <4>3, <4>4
    <3> QED
      BY <3>3, <3>4, <3>5
  <2> QED
    BY <2>2, <2>3
<1>7. t.id \notin stored /\ t.id <= runs
      /\ \A i \in DOMAIN mail : mail[i].type = "result" => mail[i].c.id # t.id
  BY <1>1 DEF IInv, MailOK, LoopOK
<1> HIDE DEF n
<1>8. MailOK'
  <2>1. ASSUME NEW i \in DOMAIN mail', mail'[i].type = "result"
        PROVE  /\ mail'[i].c.id <= runs' /\ mail'[i].c.id \notin stored'
               /\ \A k \in DOMAIN mail' :
                    mail'[k].type = "result" /\ mail'[k].c.id = mail'[i].c.id => k = i
    <3>1. CASE i \in DOMAIN mail /\ mail'[i] = mail[i]
      <4>1. mail[i].c.id <= runs /\ mail[i].c.id \notin stored /\ mail[i].c.id # t.id
        BY <1>7, <2>1, <3>1 DEF IInv, MailOK
      <4>2. ASSUME NEW k \in DOMAIN mail', mail'[k].type = "result",
                   mail'[k].c.id = mail'[i].c.id
            PROVE  k = i
        <5>1. k \in DOMAIN mail /\ mail'[k] = mail[k]
          BY <1>4, <1>6, <3>1, <4>1, <4>2
        <5> QED
          BY <2>1, <3>1, <4>2, <5>1 DEF IInv, MailOK
      <4> QED
        BY <1>1, <3>1, <4>1, <4>2
    <3>2. CASE i = n /\ mail'[i] = result
      <4>1. ASSUME NEW k \in DOMAIN mail', mail'[k].type = "result",
                   mail'[k].c.id = mail'[i].c.id
            PROVE  k = i
        BY <1>4, <1>6, <1>7, <3>2, <4>1
      <4> QED
        BY <1>1, <1>4, <1>7, <3>2, <4>1
    <3> QED
      BY <1>6, <2>1, <3>1, <3>2
  <2>2. ASSUME NEW u \in tasks', u.stage = "command"
        PROVE  /\ u.id \notin stored'
               /\ \A i \in DOMAIN mail' : mail'[i].type = "result" => mail'[i].c.id # u.id
    <3>1. u \in tasks /\ u # t
      BY <1>5, <2>2
    <3>2. u.id # t.id
      BY <3>1 DEF IInv, LoopOK
    <3>3. /\ u.id \notin stored
          /\ \A i \in DOMAIN mail : mail[i].type = "result" => mail[i].c.id # u.id
      BY <2>2, <3>1 DEF IInv, MailOK
    <3> QED
      BY <1>1, <1>4, <1>6, <3>2, <3>3
  <2> QED
    BY <1>6, <2>1, <2>2 DEF MailOK
<1> QED
  BY <1>1, <1>5, <1>8 DEF IInv, CacheOK, Complete, Owned, ShownOK, HistoryOK, CountsOK,
                          DiscardsCounted

\* A task ends and its last message joins the mailbox.
LEMMA ExitStep ==
  ASSUME IInv, NEW t \in tasks, Exit(t)
  PROVE  IInv'
<1>1. /\ mail' = Append(mail, Idle(t))
      /\ tasks' = (tasks \ {t}) \cup {[t EXCEPT !.stage = "done"]}
      /\ UNCHANGED <<gen, observed, slot, shown, results, discarded, accepted, queue, due,
                     inflight, runs, offered, scans, history, stored, acked>>
  BY DEF Exit, cache, log, bounds
<1>2. Idle(t) \in PhaseMessages
  BY DEF IInv, LoopOK, TaskType, Idle, PhaseMessages
<1>3. /\ mail' \in Seq(Messages)
      /\ \A i \in DOMAIN mail' :
           mail'[i].type = "result" => i \in DOMAIN mail /\ mail'[i] = mail[i]
  BY <1>1, <1>2, PhaseMailed
<1>4. LoopOK' /\ \A u \in tasks' : u.stage = "command" => u \in tasks
  BY <1>1, StageStep
<1>5. MailOK'
  <2>1. ASSUME NEW i \in DOMAIN mail', mail'[i].type = "result"
        PROVE  /\ mail'[i].c.id <= runs' /\ mail'[i].c.id \notin stored'
               /\ \A k \in DOMAIN mail' :
                    mail'[k].type = "result" /\ mail'[k].c.id = mail'[i].c.id => k = i
    BY <1>1, <1>3, <2>1 DEF IInv, MailOK
  <2>2. ASSUME NEW u \in tasks', u.stage = "command"
        PROVE  /\ u.id \notin stored'
               /\ \A i \in DOMAIN mail' : mail'[i].type = "result" => mail'[i].c.id # u.id
    BY <1>1, <1>3, <1>4, <2>2 DEF IInv, MailOK
  <2> QED
    BY <1>3, <2>1, <2>2 DEF MailOK
<1> QED
  BY <1>1, <1>4, <1>5 DEF IInv, CacheOK, Complete, Owned, ShownOK, HistoryOK, CountsOK,
                          DiscardsCounted

\* The job that is free again had no other task.
LEMMA JoinStep ==
  ASSUME IInv, NEW t \in tasks, Join(t)
  PROVE  IInv'
<1>1. /\ queue = {} /\ tasks' = tasks \ {t} /\ inflight' = inflight \ {[r |-> t.r, g |-> t.g]}
      /\ UNCHANGED <<gen, observed, slot, shown, results, discarded, accepted, queue, due,
                     runs, mail, offered, scans, history, stored, acked>>
  BY DEF Join, cache, log, bounds
<1>2. ASSUME NEW u \in tasks' PROVE u.id <= runs /\ [r |-> u.r, g |-> u.g] \in inflight'
  <2>1. u \in tasks /\ u # t
    BY <1>1
  <2>2. ~(u.r = t.r /\ u.g = t.g) /\ u.id <= runs /\ [r |-> u.r, g |-> u.g] \in inflight
    BY <2>1 DEF IInv, LoopOK
  <2>3. [r |-> u.r, g |-> u.g].r = u.r /\ [r |-> u.r, g |-> u.g].g = u.g
        /\ [r |-> t.r, g |-> t.g].r = t.r /\ [r |-> t.r, g |-> t.g].g = t.g
    OBVIOUS
  <2>4. [r |-> u.r, g |-> u.g] # [r |-> t.r, g |-> t.g]
    BY <2>2, <2>3
  <2> QED
    BY <1>1, <2>2, <2>4
<1>3. LoopOK'
  BY <1>1, <1>2 DEF IInv, LoopOK
<1>4. MailOK'
  BY <1>1 DEF IInv, MailOK
<1> QED
  BY <1>1, <1>3, <1>4 DEF IInv, CacheOK, Complete, Owned, ShownOK, HistoryOK, CountsOK,
                          DiscardsCounted

\* A step that changes nothing keeps the invariant.
LEMMA Stutter == IInv /\ UNCHANGED vars => IInv'
BY DEF vars, cache, loop, log, bounds, IInv, CacheOK, Complete, Owned, ShownOK, HistoryOK,
       CountsOK, LoopOK, MailOK, DiscardsCounted

\* Every step of the state owner, the loop, a task or a heartbeat preserves the
\* invariant.
LEMMA Step == IInv /\ [Next]_vars => IInv'
<1> SUFFICES ASSUME IInv, [Next]_vars PROVE IInv'
  OBVIOUS
<1>1. CASE Tick
  BY <1>1, TickStep
<1>2. CASE Handle
  <2>1. /\ mail # <<>> /\ mail' = Tail(mail)
        /\ UNCHANGED <<gen, observed, loop, offered, bounds, acked>>
        /\ IF Head(mail).type = "phase" THEN HandlePhase(Head(mail))
           ELSE HandleResult(Head(mail).c, Head(mail).pending)
    BY <1>2 DEF Handle
  <2>2. Head(mail).type \in {"phase", "result"}
    BY <2>1, TakenFromMail DEF Messages, PhaseMessages, ResultMessages
  <2>3. CASE Head(mail).type = "phase"
    BY <2>1, <2>3, PhaseStep
  <2>4. CASE Head(mail).type = "result"
    BY <2>1, <2>4, ResultStep
  <2> QED
    BY <2>2, <2>3, <2>4
<1>3. CASE Offer
  BY <1>3, OfferStep
<1>4. CASE \E found \in SUBSET Resources : Rescan(found)
  BY <1>4, RescanStep
<1>5. CASE \E arrives \in BOOLEAN : Answer(arrives)
  BY <1>5, AnswerStep
<1>6. CASE \E j \in queue, admitted \in BOOLEAN, extra \in 0..Jitter : Admit(j, admitted, extra)
  BY <1>6, AdmitStep
<1>7. CASE \E t \in tasks :
             \/ \E status \in {"done", "timeout"}, has \in SUBSET Metrics, pending \in BOOLEAN :
                  Finish(t, status, has, pending)
             \/ Exit(t) \/ Join(t)
  BY <1>7, FinishStep, ExitStep, JoinStep
<1>8. CASE UNCHANGED vars
  BY <1>8, Stutter
<1> QED
  BY <1>1, <1>2, <1>3, <1>4, <1>5, <1>6, <1>7, <1>8 DEF Next

-----------------------------------------------------------------------------
(* The theorems.                                                           *)

\* Whatever the order in which the loop, its tasks, the enumerations and the
\* heartbeats take their steps, the invariant holds.
THEOREM Invariance == Spec => []IInv
BY Initially, Step, PTL DEF Spec

\* A number of dropped collections is a number of launches.
LEMMA DiscardedBound == IInv => discarded \in 0..MaxRuns
<1> SUFFICES ASSUME IInv PROVE discarded \in 0..MaxRuns
  OBVIOUS
<1> DEFINE gone == (stored \ IdsOf(results)) \ acked
<1>1. /\ discarded = Cardinality(gone) /\ gone \subseteq 1..runs
      /\ runs \in Nat /\ MaxRuns \in Nat /\ runs <= MaxRuns
  <2>1. stored \subseteq 1..runs /\ runs \in 0..MaxRuns
    BY DEF IInv, CountsOK
  <2>2. MaxRuns \in Nat
    BY SchedulerAssumption
  <2>3. discarded = Cardinality(gone)
    BY DEF IInv, DiscardsCounted
  <2>4. gone \subseteq 1..runs
    BY <2>1
  <2>5. runs \in Nat /\ runs <= MaxRuns
    BY <2>1, <2>2
  <2> HIDE DEF gone
  <2> QED
    BY <2>2, <2>3, <2>4, <2>5
<1>2. IsFiniteSet(1..runs) /\ Cardinality(1..runs) = runs
  <2>1. IsFiniteSet(1..runs) /\ Cardinality(1..runs) = IF 1 > runs THEN 0 ELSE runs - 1 + 1
    BY <1>1, FS_Interval
  <2> QED
    BY <1>1, <2>1
<1> HIDE DEF gone
<1>3. IsFiniteSet(gone) /\ Cardinality(gone) <= Cardinality(1..runs)
  BY <1>1, <1>2, FS_Subset
<1>4. Cardinality(gone) \in Nat
  BY <1>3, FS_CardinalityType
<1> QED
  BY <1>1, <1>2, <1>3, <1>4

\* The cache, the loop and the messages keep their types, and a scope has one
\* task at most: a job is launched only when nothing of it is in flight.
THEOREM TypeCorrect == Spec => []TypeOK
<1>1. IInv => TypeOK
  <2> SUFFICES ASSUME IInv PROVE TypeOK
    OBVIOUS
  <2>1. accepted \subseteq IdsOf(results)
    BY DEF IInv, CountsOK
  <2>2. discarded \in 0..MaxRuns
    BY DiscardedBound
  <2> QED
    BY <2>1, <2>2 DEF IInv, CacheOK, CountsOK, LoopOK, TypeOK, SlotType, ShownType, TaskType
<1> QED
  BY <1>1, Invariance, PTL

\* Every snapshot that is published passes the contract of a heartbeat: the
\* state owner never leaves a scope shown without its resource or its last
\* attempt, whichever of a result and an enumeration it handles first.
THEOREM SnapshotsAreValid == Spec => []SnapshotIsValid
<1>1. IInv => SnapshotIsValid
  <2> SUFFICES ASSUME IInv, NEW r \in Resources, shown[r].phase # "none"
               PROVE  /\ gen[r] # 0
                      /\ shown[r].last # 0 =>
                           \E c \in results : c.id = shown[r].last /\ c.r = r
                      /\ shown[r].phase = "pending" =>
                           \E c \in results : c.id = shown[r].last /\ c.status = "timeout"
    BY DEF SnapshotIsValid
  <2>1. /\ shown[r].last = slot[r].last /\ gen[r] # 0
        /\ shown[r].phase = "pending" =>
             \E c \in results : c.id = shown[r].last /\ c.status = "timeout"
    BY DEF IInv, ShownOK
  <2>2. ASSUME shown[r].last # 0
        PROVE  \E c \in results : c.id = shown[r].last /\ c.r = r
    <3>1. slot[r] \in SlotType /\ Complete(slot, results)
      BY DEF IInv, CacheOK
    <3>2. shown[r].last \in Refers(slot[r])
      BY <2>1, <2>2, <3>1, References
    <3> QED
      BY <3>1, <3>2 DEF Complete
  <2> QED
    BY <2>1, <2>2
<1> QED
  BY <1>1, Invariance, PTL

\* A snapshot never carries a collection of a generation that is not mounted
\* now: apply refuses a result that comes too late, and an enumeration that
\* gives a mount another generation drops what the old one left.
THEOREM CarriedAreCurrent == Spec => []CarriedIsCurrent
<1>1. IInv => CarriedIsCurrent
  BY DEF IInv, CacheOK, CarriedIsCurrent
<1> QED
  BY <1>1, Invariance, PTL

\* The latest available reading of every metric stays in the snapshot until
\* another replaces it or its resource goes: no attempt without a reading, no
\* refused result and no pruning takes it away.
THEOREM LatestReadingsAreKept == Spec => []LatestReadingKept
<1>1. IInv => LatestReadingKept
  <2> SUFFICES ASSUME IInv, NEW r \in Resources, NEW m \in Metrics
               PROVE  LET with == {i \in DOMAIN history[r] : m \in history[r][i].has} IN
                      with # {} =>
                        LET latest == CHOOSE i \in with : \A k \in with : k <= i IN
                        /\ history[r][latest] \in results
                        /\ slot[r].fields[m] = history[r][latest].id
    BY DEF LatestReadingKept
  <2> DEFINE with == {i \in DOMAIN history[r] : m \in history[r][i].has}
             latest == CHOOSE i \in with : \A k \in with : k <= i
  <2> SUFFICES ASSUME with # {}
               PROVE  /\ history[r][latest] \in results
                      /\ slot[r].fields[m] = history[r][latest].id
    OBVIOUS
  <2>1. history[r] \in Seq(Collections)
    BY DEF IInv, HistoryOK
  <2>2. DOMAIN history[r] = 1..Len(history[r]) /\ Len(history[r]) \in Nat
    BY <2>1
  <2>3. with \in SUBSET Nat /\ IsFiniteSet(with)
    <3>1. IsFiniteSet(1..Len(history[r]))
      <4>1. PICK n \in Nat : n = Len(history[r])
        BY <2>2
      <4>2. IsFiniteSet(1..n)
        BY FS_Interval
      <4> QED
        BY <4>1, <4>2
    <3>2. with \subseteq 1..Len(history[r])
      BY <2>2
    <3> QED
      BY <2>2, <3>1, <3>2, FS_Subset
  <2>4. \A i : i \in with <=> i \in DOMAIN history[r] /\ m \in history[r][i].has
    OBVIOUS
  <2> HIDE DEF with
  <2>5. \E i \in with : \A k \in with : k <= i
    BY <2>3, MaxOfFinite
  <2>6. latest \in with /\ \A k \in with : k <= latest
    BY <2>5
  <2> HIDE DEF latest
  <2>7. latest \in Nat /\ Latest(history[r], m, latest)
    BY <2>3, <2>4, <2>6 DEF Latest
  <2> QED
    BY <2>7 DEF IInv, HistoryOK
<1> QED
  BY <1>1, Invariance, PTL

\* discarded_samples_total counts every collection that left the cache before
\* an acknowledgement named it, and none of them twice.
THEOREM DiscardsAreCounted == Spec => []DiscardsCounted
<1>1. IInv => DiscardsCounted
  BY DEF IInv
<1> QED
  BY <1>1, Invariance, PTL
==============================================================================
