---------------------------- MODULE DeviceWatch ----------------------------
(***************************************************************************)
(* The USB connection watches of one node (server/src/device_watch.rs).    *)
(*                                                                         *)
(* An accepted heartbeat may carry one new scan of the node's USB devices. *)
(* Each device that was ever scanned has a watch: two scans in a row       *)
(* decide whether its connection is there and whether its link is slower   *)
(* than the fastest speed two scans in a row ever agreed on.  A failed     *)
(* scan, a gap, another clock and another session of the collector break   *)
(* every row.  Each evaluation is reported to the attention episodes,      *)
(* which open, resolve or leave alone the concern of that key.             *)
(*                                                                         *)
(* A context is a session of the collector (boot, generation and session   *)
(* id) and a clock in it.  Times are left out: a scan says how far it is   *)
(* from the one before it.  Why a scan is unusable is text, and a          *)
(* connection epoch is made with each confirmation (Attention models its   *)
(* use), so neither is kept.                                               *)
(***************************************************************************)
EXTENDS Integers, FiniteSets, Sequences

CONSTANTS
  Serials,      \* devices that report a serial number
  Anonymous,    \* devices known by their registry entry only
  Drivers,      \* the driver resources a device is scanned on
  LinkRates,    \* negotiated speeds, numbers above 0
  MaxWatches,   \* MAX_NODE, and MAX_GLOBAL of a server of one node
  MaxWatchSessions,  \* bound: sessions of the collector
  MaxWatchClocks     \* bound: clocks in a session

ASSUME DeviceWatchAssumption ==
  /\ LinkRates \subseteq Nat \ {0} /\ Serials \cap Anonymous = {}
  /\ MaxWatches \in Nat /\ MaxWatchSessions \in Nat \ {0} /\ MaxWatchClocks \in Nat \ {0}

VARIABLES
  node,       \* device_watch_nodes: context, last acquisition, limit flag
  watch,      \* device_watch_devices: a watch per id, NoWatch without a row
  raised,     \* attention: the keys with an open episode
  omitted,    \* history: the keys last reported open that found no room for one
  recent,     \* history: the last two scans of the unbroken row of usable ones
  confirmed   \* history: watches seen in two scans in a row in this context

watchVars == <<node, watch, raised, omitted, recent, confirmed>>

Contexts == [session : 1..MaxWatchSessions, clock : 1..MaxWatchClocks]
Devices == Serials \cup Anonymous
UsbReadings == [driver : Drivers, speed : LinkRates \cup {0}]

\* A valid snapshot: no device and no driver appears twice.
Snapshots ==
  {s \in UNION {[ds -> UsbReadings] : ds \in SUBSET Devices} :
     /\ \A d, e \in DOMAIN s : d # e => s[d].driver # s[e].driver
     /\ \A d \in DOMAIN s \cap Anonymous : s[d].speed = 0}

\* watch_id: a serial number is the same device in every session.
WatchIds == (Serials \X {0}) \cup (Anonymous \X (1..MaxWatchSessions))
IdOf(d, c) == IF d \in Serials THEN <<d, 0>> ELSE <<d, c.session>>
Strong(k) == k[1] \in Serials

NoWatch == [ctx |-> 0]
Exists(w) == w # NoWatch
Watched == {k \in WatchIds : Exists(watch[k])}

NoContext == [session |-> 0, clock |-> 0]
NewNode == [ctx |-> NoContext, acq |-> NoContext, current |-> FALSE, limited |-> FALSE]

Fresh(c, driver) ==
  [ctx |-> c, driver |-> driver, current |-> FALSE, attributed |-> TRUE,
   presence |-> "unknown", armed |-> FALSE, absent |-> FALSE,
   link |-> "unknown", slow |-> FALSE, baseline |-> 0, candidate |-> 0,
   present_count |-> 0, absent_count |-> 0, candidate_count |-> 0,
   low_count |-> 0, recovery_count |-> 0]

-----------------------------------------------------------------------------
(* One evaluation of a watch                                               *)

Twice(n) == IF n < 2 THEN n + 1 ELSE 2

NoLinkRow(w) ==
  [w EXCEPT !.candidate = 0, !.candidate_count = 0, !.low_count = 0, !.recovery_count = 0]

\* Mutant of BreakStreaks: an unusable scan does not interrupt an absence.
BreakPresentStreaks(w) == [NoLinkRow(w) EXCEPT !.present_count = 0]

BreakStreaks(w) == [NoLinkRow(w) EXCEPT !.present_count = 0, !.absent_count = 0]

Unknown(w) ==
  [BreakStreaks(w) EXCEPT !.presence = "unknown", !.link = "unknown", !.current = FALSE]

Missing(w) ==
  LET n == Twice(w.absent_count)
  IN [NoLinkRow(w) EXCEPT
        !.presence = IF w.armed THEN "absent" ELSE "unknown",
        !.present_count = 0, !.absent_count = n, !.link = "unknown",
        !.absent = @ \/ (w.armed /\ n = 2)]

Found(w, driver) ==
  LET n == Twice(w.present_count)
  IN [w EXCEPT !.driver = driver, !.attributed = TRUE, !.presence = "present",
               !.absent_count = 0, !.present_count = n,
               !.armed = @ \/ n = 2, !.absent = @ /\ n < 2]

\* A speed is a candidate for the baseline until another speed is scanned.
Candidate(w, speed) ==
  LET n == IF w.candidate = speed THEN Twice(w.candidate_count) ELSE 1
  IN [w EXCEPT !.candidate = speed, !.candidate_count = n,
               !.baseline = IF n = 2 /\ speed > @ THEN speed ELSE @]

Compared(w, speed) ==
  LET n == IF speed < w.baseline THEN Twice(w.low_count) ELSE 0
      m == IF speed < w.baseline THEN 0 ELSE Twice(w.recovery_count)
      slow == n = 2 \/ (w.slow /\ m < 2)
  IN [w EXCEPT !.low_count = n, !.recovery_count = m, !.slow = slow,
               !.link = IF slow THEN "warning"
                        ELSE IF n > 0 THEN "warming_up" ELSE "no_current_warning"]

\* A reading without a speed says why in its text: unknown or unsupported.
Linked(w, speed) ==
  IF speed = 0 THEN [NoLinkRow(w) EXCEPT !.link = "unknown"]
  ELSE LET v == Candidate(w, speed)
       IN IF v.baseline = 0 THEN [v EXCEPT !.link = "warming_up"] ELSE Compared(v, speed)

Joined(w, c) ==
  IF w.ctx = c THEN w
  ELSE [BreakStreaks(w) EXCEPT !.armed = FALSE, !.attributed = FALSE, !.ctx = c]

Observe(k, w, c, scan, continuous) ==
  LET v == [(IF continuous THEN Joined(w, c) ELSE BreakStreaks(Joined(w, c)))
              EXCEPT !.current = TRUE]
  IN IF k[1] \notin DOMAIN scan THEN Missing(v)
     ELSE LET f == Found(v, scan[k[1]].driver)
          IN IF Strong(k) THEN Linked(f, scan[k[1]].speed) ELSE [f EXCEPT !.link = "unsupported"]

-----------------------------------------------------------------------------
(* What the attention episodes are told                                    *)

\* Mutant of Status: what cannot be judged counts as recovered.
StatusResolving(usable, open, clear) ==
  CASE usable /\ open -> "open" [] OTHER -> "resolved"

Status(usable, open, clear) ==
  CASE usable /\ open -> "open"
    [] usable /\ ~open /\ clear -> "resolved"
    [] OTHER -> "interrupted"

\* current: the acquisition is recent, and its owner online in its context.
Conditions(k, w, current) ==
  LET usable == current /\ w.current
  IN [presence |-> Status(usable /\ w.presence # "unknown", w.absent,
                          w.present_count = 2 /\ w.presence = "present"),
      link |-> Status(usable /\ w.presence = "present"
                        /\ w.link \in {"warning", "no_current_warning"},
                      w.slow, w.link = "no_current_warning")]

\* The keys that an evaluation of the watches reports as open, resolved or interrupted.
Reported(watches, current, status) ==
  {key \in WatchIds \X {"presence", "link"} :
     /\ Exists(watches[key[1]])
     /\ Conditions(key[1], watches[key[1]], current)[key[2]] = status}

\* observe_condition: an interrupted condition leaves its episode as it is, and
\* an open one without an episode gets one where MAX_EPISODES leaves room.  The
\* table is shared with every other source, so any of them may find it full.
RaisedAfter(keys, watches, current) ==
  {(keys \cup new) \ Reported(watches, current, "resolved") :
     new \in SUBSET (Reported(watches, current, "open") \ keys)}

\* What was last reported open and is not raised.
Omitting(shown, watches, current) ==
  (omitted \cup Reported(watches, current, "open"))
     \ (shown \cup Reported(watches, current, "resolved"))

-----------------------------------------------------------------------------
(* Heartbeats                                                              *)

InitWatch ==
  /\ node = NewNode
  /\ watch = [k \in WatchIds |-> NoWatch]
  /\ raised = {} /\ omitted = {} /\ recent = <<>> /\ confirmed = {}

Known == node.ctx # NoContext

\* The contexts of the next heartbeat: this one, a new clock, a new session.
NextContexts ==
  IF ~Known THEN {[session |-> 1, clock |-> 1]}
  ELSE {c \in Contexts : \/ c = node.ctx
                         \/ c = [node.ctx EXCEPT !.clock = @ + 1]
                         \/ c = [session |-> node.ctx.session + 1, clock |-> 1]}

\* A heartbeat of another context suspends every watch before anything else.
Suspended(c) ==
  IF ~Known \/ c = node.ctx THEN watch
  ELSE [k \in WatchIds |-> IF Exists(watch[k])
                           THEN [Unknown(watch[k]) EXCEPT !.armed = FALSE]
                           ELSE NoWatch]

\* An anonymous device of another context cannot be told apart, and a driver
\* that reports another device says nothing about the one it reported before.
Evaluated(k, w, c, scan, continuous) ==
  IF ~Strong(k) /\ w.ctx # c THEN Unknown(w)
  ELSE IF /\ k \notin {IdOf(d, c) : d \in DOMAIN scan}
          /\ \E d \in DOMAIN scan : scan[d].driver = w.driver
  THEN [Unknown(w) EXCEPT !.attributed = FALSE, !.armed = FALSE]
  ELSE Observe(k, w, c, scan, continuous)

\* The devices without a watch that still get one; the order is that of ids.
Admissions(ws, c, scan) ==
  LET held == {k \in WatchIds : Exists(ws[k])}
      new == {d \in DOMAIN scan : ~Exists(ws[IdOf(d, c)])}
      room == IF Cardinality(held) < MaxWatches THEN MaxWatches - Cardinality(held) ELSE 0
  IN {A \in SUBSET new : \/ Cardinality(A) = room /\ A # new
                         \/ A = new /\ Cardinality(new) <= room}

\* A heartbeat without a new scan, or before its inventory is known.
Bare(c) ==
  /\ watch' = Suspended(c)
  /\ raised' \in RaisedAfter(raised, watch', FALSE)
  /\ omitted' = Omitting(raised', watch', FALSE)
  /\ node' = IF Known THEN [node EXCEPT !.ctx = c] ELSE node
  /\ IF Known /\ c = node.ctx THEN UNCHANGED <<recent, confirmed>>
     ELSE recent' = <<>> /\ confirmed' = {}

\* A scan that cannot be used: failed, stale, partial, on another clock, or
\* less than a second after the one before.
Unusable(c, foreign) ==
  LET ws == Suspended(c)
  IN /\ watch' = [k \in WatchIds |-> IF Exists(ws[k]) THEN Unknown(ws[k]) ELSE NoWatch]
     /\ raised' \in RaisedAfter(raised, watch', TRUE)
     /\ omitted' = Omitting(raised', watch', TRUE)
     /\ node' = [ctx |-> c, acq |-> IF foreign THEN NoContext ELSE c,
                 current |-> FALSE, limited |-> node.limited]
     /\ recent' = <<>>
     /\ confirmed' = IF c = node.ctx THEN confirmed ELSE {}

WatchRow(rs, s) == IF Len(rs) = 2 THEN <<rs[2], s>> ELSE Append(rs, s)
SeenIn(s, k) == k[1] \in DOMAIN s

\* near: at most 15 seconds after the acquisition before it.
Usable(c, scan, near) ==
  LET ws == Suspended(c)
      continuous == node.acq = c /\ node.ctx = c /\ node.current /\ near
  IN \E A \in Admissions(ws, c, scan) :
       LET born == [k \in WatchIds |->
                      IF \E d \in A : k = IdOf(d, c) THEN Fresh(c, scan[k[1]].driver) ELSE ws[k]]
       IN /\ watch' = [k \in WatchIds |-> IF Exists(born[k])
                                          THEN Evaluated(k, born[k], c, scan, continuous)
                                          ELSE NoWatch]
          /\ \E keys \in RaisedAfter(raised, ws, FALSE) : raised' \in RaisedAfter(keys, watch', TRUE)
          /\ omitted' = Omitting(raised', watch', TRUE)
          /\ node' = [ctx |-> c, acq |-> c, current |-> TRUE,
                      limited |-> \E d \in DOMAIN scan : ~Exists(born[IdOf(d, c)])]
          /\ recent' = IF c = node.ctx /\ near THEN WatchRow(recent, scan) ELSE <<scan>>
          /\ confirmed' = (IF c = node.ctx THEN confirmed ELSE {})
               \cup {IdOf(d, c) : d \in {e \in DOMAIN scan :
                       Len(recent') = 2 /\ SeenIn(recent'[1], <<e, 0>>)}}

\* attention::reconcile reads the watches between two heartbeats: current is
\* whether the acquisition is recent and the node online in the same context.
RecheckWatches(current) ==
  /\ raised' \in RaisedAfter(raised, watch, current)
  /\ omitted' = Omitting(raised', watch, current)
  /\ UNCHANGED <<node, watch, recent, confirmed>>

NextWatch ==
  \/ \E c \in NextContexts : Bare(c)
  \/ \E c \in NextContexts, foreign \in BOOLEAN : Unusable(c, foreign)
  \/ \E c \in NextContexts, scan \in Snapshots, near \in BOOLEAN : Usable(c, scan, near)
  \/ \E current \in BOOLEAN : RecheckWatches(current)

-----------------------------------------------------------------------------
(* Properties                                                              *)

BothSaw(k, Says(_)) ==
  Len(recent') = 2 /\ \A i \in 1..2 : SeenIn(recent'[i], k) /\ Says(recent'[i][k[1]].speed)

\* A verdict of a watch needs two usable scans in a row that agree on it, in
\* one context: an absence after a confirmed presence, a presence, a speed
\* below or not below the baseline, and a baseline, which never falls.
VerdictEarned(k) ==
  LET w == watch[k]
      v == watch'[k]
  IN /\ v.absent /\ ~w.absent => /\ k \in confirmed
                                 /\ Len(recent') = 2
                                 /\ \A i \in 1..2 : ~SeenIn(recent'[i], k)
     /\ w.absent /\ ~v.absent => BothSaw(k, LAMBDA n : TRUE)
     /\ v.slow /\ ~w.slow => BothSaw(k, LAMBDA n : n > 0 /\ n < v.baseline)
     /\ w.slow /\ ~v.slow => BothSaw(k, LAMBDA n : n >= v.baseline)
     /\ v.baseline # w.baseline => /\ v.baseline > w.baseline
                                   /\ BothSaw(k, LAMBDA n : n = v.baseline)

VerdictsEarned == [][\A k \in Watched : VerdictEarned(k)]_watchVars

\* What the operator is shown is what the watches last concluded, but for the
\* conclusions that found the episodes full when they were last reported: no
\* silence, failure or change of session opens or closes an episode, and a
\* conclusion that was left out is neither forgotten nor shown twice.
EpisodesFollowWatches ==
  LET concluded == {<<k, "presence">> : k \in {j \in Watched : watch[j].absent}}
                     \cup {<<k, "link">> : k \in {j \in Watched : watch[j].slow}}
  IN raised = concluded \ omitted /\ omitted \subseteq concluded
=============================================================================
