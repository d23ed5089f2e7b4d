----------------------------- MODULE WorkBudget -----------------------------
(***************************************************************************)
(* What command admission promises to the host it observes, with the       *)
(* supervisors, the journal and the daemon's restarts left out: at most    *)
(* one process works on a scope, and none is started beyond the budget of  *)
(* its work class (crates/ciderd/contract/guide.org: "Keep the semaphore   *)
(* permit until confirmed exit").                                          *)
(***************************************************************************)
EXTENDS Naturals, FiniteSets

CONSTANTS
  Processes,    \* processes that may ever exist
  ScopeNames,   \* what they work on
  Nothing,      \* works on nothing: not a live process
  Budgets       \* limits a configuration may name

VARIABLES
  working,   \* the scope each process works on, for the live ones
  budget     \* processes the current configuration admits

Live == {p \in Processes : working[p] # Nothing}

Init == working = [p \in Processes |-> Nothing] /\ budget \in Budgets

\* One process starts, on a scope nobody works on, within the budget.
Begin(p, s) ==
  /\ working[p] = Nothing
  /\ \A q \in Live : working[q] # s
  /\ Cardinality(Live) < budget
  /\ working' = [working EXCEPT ![p] = s]
  /\ UNCHANGED budget

\* Processes end on their own: one, or all of them when the host restarts.
End(P) ==
  /\ working' = [p \in Processes |-> IF p \in P THEN Nothing ELSE working[p]]
  /\ UNCHANGED budget

\* A restart of the daemon may bring another configuration.
Reconfigure(n) == budget' = n /\ UNCHANGED working

Next == \/ \E p \in Processes, s \in ScopeNames : Begin(p, s)
        \/ \E P \in SUBSET Processes : End(P)
        \/ \E n \in Budgets : Reconfigure(n)

Spec == Init /\ [][Next]_<<working, budget>>
=============================================================================
