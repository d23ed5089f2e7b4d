------------------------------ MODULE Delivery ------------------------------
(***************************************************************************)
(* What the SMS outbox promises for each attention transition, with the    *)
(* outbox's bound, the episodes, the settings and the worker left out: a   *)
(* transition is announced by at most one message of the provider, and is  *)
(* settled once.  Only a send that the provider certainly refused returns  *)
(* to the queue (docs/operator-attention.md: "Never silently retries an    *)
(* uncertain send").                                                       *)
(***************************************************************************)
EXTENDS Naturals

CONSTANT Transitions

VARIABLES
  phase,   \* where the announcement of a transition is
  made     \* messages the provider created for it

Phases == {"new", "queued", "sending", "accepted", "settled"}

Init == /\ phase = [t \in Transitions |-> "new"]
        /\ made = [t \in Transitions |-> 0]

\* Transitions are admitted, withdrawn, expired and given up, any number at a time.
Moves == {<<"new", "queued">>, <<"new", "settled">>, <<"queued", "settled">>,
          <<"sending", "settled">>, <<"accepted", "settled">>}
Housekeep ==
  /\ phase' \in [Transitions -> Phases]
  /\ \A t \in Transitions : phase'[t] = phase[t] \/ <<phase[t], phase'[t]>> \in Moves
  /\ UNCHANGED made

\* A queued transition is claimed in a step that also housekeeps the others.
Send(t) ==
  /\ phase' \in [Transitions -> Phases]
  /\ phase'[t] = "sending" /\ (phase[t] = "queued" \/ phase[t] = "new")
  /\ \A u \in Transitions \ {t} :
       phase'[u] = phase[u] \/ <<phase[u], phase'[u]>> \in Moves
  /\ UNCHANGED made

\* The provider creates the one message.
Create(t) ==
  /\ phase[t] = "sending" /\ made[t] = 0
  /\ made' = [made EXCEPT ![t] = 1]
  /\ UNCHANGED phase

\* The provider refused: nothing was created, and the transition may be sent again.
Refuse(t) ==
  /\ phase[t] = "sending" /\ made[t] = 0
  /\ phase' = [phase EXCEPT ![t] = "queued"]
  /\ UNCHANGED made

Accept(t) ==
  /\ phase[t] = "sending" /\ made[t] = 1
  /\ phase' = [phase EXCEPT ![t] = "accepted"]
  /\ UNCHANGED made

Next == \/ Housekeep
        \/ \E t \in Transitions : Send(t) \/ Create(t) \/ Refuse(t) \/ Accept(t)

Spec == Init /\ [][Next]_<<phase, made>>
=============================================================================
