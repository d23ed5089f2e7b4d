------------------------------ MODULE Baseline ------------------------------
(***************************************************************************)
(* The baseline of an analyser: a ring of intervals, oldest first, of the  *)
(* last Horizon ticks, and the thresholds computed from it.                *)
(*                                                                         *)
(* server/src/detection.rs keeps one of byte rates and                     *)
(* server/src/reliability.rs one of service times per operation; the two   *)
(* are written separately and compute the same.  An entry holds how long   *)
(* ago its interval began (from) and ended (to), and its value.            *)
(***************************************************************************)
EXTENDS Integers, Sequences, SequencesExt, FiniteSetsExt

CONSTANTS
  Horizon,         \* baseline_horizon_seconds, in ticks
  ReadyTicks,      \* required_baseline_seconds
  ReadyIntervals,  \* required_baseline_intervals
  MaxIntervals,    \* maximum_baseline_intervals
  HighExcess,      \* what a high value exceeds the reference by, at least
  LowExcess,       \* what a recovered value may still exceed it by
  Opening,         \* opening_seconds
  Recovery,        \* recovery_seconds
  MaxInterval,     \* maximum_interval_seconds
  MaxSessions,     \* bound: sessions of the collector
  MaxEpochs        \* bound: counter epochs, clocks and generations of a source

ASSUME BaselineAssumption ==
  /\ {Horizon, ReadyTicks, ReadyIntervals, MaxIntervals, Opening, Recovery, MaxInterval,
      MaxSessions, MaxEpochs} \subseteq Nat \ {0}
  /\ {HighExcess, LowExcess} \subseteq Nat /\ LowExcess <= HighExcess /\ MaxInterval < Horizon

Upto(n, cap) == IF n > cap THEN cap ELSE n
Covered(ring) == MapThenSumSet(LAMBDA i : ring[i].from - ring[i].to, DOMAIN ring)

\* n ticks later: what is past the horizon goes, what is across it is clipped.  What is
\* past it is looked for as a prefix, since the intervals are in order.
Pruned(ring, n) ==
  LET older == [i \in DOMAIN ring |->
                  [ring[i] EXCEPT !.from = Upto(@ + n, Horizon), !.to = @ + n]]
      expired == Cardinality({i \in DOMAIN ring : older[i].to >= Horizon})
  IN SubSeq(older, expired + 1, Len(older))

\* An interval that ended just now is added, the oldest makes room.
Trained(ring, interval) ==
  LET longer == Append(ring, interval)
  IN IF Len(longer) > MaxIntervals THEN Tail(longer) ELSE longer

Ready(ring) == Covered(ring) >= ReadyTicks /\ Len(ring) >= ReadyIntervals

\* The 95th percentile by nearest rank, weighted by time.
Reference(ring) ==
  LET upto(v) == SelectSeq(ring, LAMBDA e : e.value <= v)
  IN Min({v \in {ring[i].value : i \in DOMAIN ring} :
            Covered(upto(v)) * 100 >= Covered(ring) * 95})

High(b) == Max({3 * b, b + HighExcess})
Low(b) == Max({2 * b, b + LowExcess})

\* The last n elements of a sequence, or as many as it has.
LastOf(s, n) == IF Len(s) <= n THEN s ELSE SubSeq(s, Len(s) - n + 1, Len(s))
=============================================================================
