----------------------------- MODULE Telemetry -----------------------------
(***************************************************************************)
(* What the server promises about the heartbeats of one collector, however *)
(* they are lost, repeated, delayed or reordered: it only moves forward,   *)
(* and it counts every event once.                                         *)
(***************************************************************************)
EXTENDS Integers

CONSTANTS Entities, Events

VARIABLES
  latest,    \* [gen, seq] of the last heartbeat that took effect
  version,   \* [gen, rev] of what is known of each entity
  rows       \* rows made of each event

vars == <<latest, version, rows>>

Newer(a, b) == a[1] > b[1] \/ (a[1] = b[1] /\ a[2] > b[2])

Init ==
  /\ latest = <<0, 0>>
  /\ version = [e \in Entities |-> <<0, 0>>]
  /\ rows = [x \in Events |-> 0]

\* A newer heartbeat takes effect: it says something newer of some entities,
\* all of it in its own generation, and brings events not counted yet.
TakeEffect ==
  /\ latest' \in Nat \X Nat /\ Newer(latest', latest)
  /\ DOMAIN version' = Entities
  /\ \A e \in Entities :
        \/ version'[e] = version[e]
        \/ version'[e][1] = latest'[1] /\ Newer(version'[e], version[e])
  /\ DOMAIN rows' = Events
  /\ \A x \in Events : rows'[x] = rows[x] \/ (rows[x] = 0 /\ rows'[x] = 1)

Spec == Init /\ [][TakeEffect]_vars
=============================================================================
