----------------------------- MODULE CaseStates -----------------------------
(***************************************************************************)
(* The states of a recovery case and the table every state change in the   *)
(* program goes through (app/agents/state_machine.py).  "ABSENT" stands    *)
(* for a failure event that has no case row yet.                           *)
(***************************************************************************)
EXTENDS Naturals

CaseState == {"NEW", "PROCESSING", "AWAITING_OUTCOME", "ESCALATED_TO_HUMAN",
              "RECOVERED", "LOST", "STOPPED_UNRECOVERABLE"}

AllowedTransitions ==
  [NEW                   |-> {"PROCESSING"},
   PROCESSING            |-> {"AWAITING_OUTCOME", "ESCALATED_TO_HUMAN",
                              "STOPPED_UNRECOVERABLE"},
   AWAITING_OUTCOME      |-> {"PROCESSING", "RECOVERED", "LOST"},
   ESCALATED_TO_HUMAN    |-> {"AWAITING_OUTCOME"},
   RECOVERED             |-> {},
   LOST                  |-> {},
   STOPPED_UNRECOVERABLE |-> {}]

\* assert_transition: anything else raises IllegalTransitionError.
CanMove(from, to) == to \in AllowedTransitions[from]
=============================================================================
