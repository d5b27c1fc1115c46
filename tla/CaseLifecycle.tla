--------------------------- MODULE CaseLifecycle ----------------------------
(***************************************************************************)
(* What the system promises about every case, whatever handler serves it:  *)
(* committed rows are never half processed, a case is worked, approved,    *)
(* recovered or lost along the transition table only, a recovered case     *)
(* credits exactly one payment, and no case stays open for ever.  One      *)
(* transaction may serve several cases, so a step moves each of them or    *)
(* leaves it alone.                                                        *)
(***************************************************************************)
EXTENDS CaseStates

CONSTANTS Cases, Payments

VARIABLES state,    \* the committed state of each case, "ABSENT" before its event
          credit,   \* payments counted towards each case's recovery
          late      \* payments recorded on a case after it was lost

vars == <<state, credit, late>>

CommittedState == (CaseState \ {"NEW", "PROCESSING"}) \cup {"ABSENT"}

TypeOK ==
  /\ state \in [Cases -> CommittedState]
  /\ credit \in [Cases -> SUBSET Payments]
  /\ late \in [Cases -> SUBSET Payments]

Init ==
  /\ state = [c \in Cases |-> "ABSENT"]
  /\ credit = [c \in Cases |-> {}]
  /\ late = [c \in Cases |-> {}]

Moves(c, from, to) == state[c] \in from /\ state'[c] \in to

\* One pass of the pipeline: picked up, and left where PROCESSING may lead.
Work(c) ==
  /\ Moves(c, {"ABSENT", "AWAITING_OUTCOME"}, AllowedTransitions["PROCESSING"])
  /\ credit'[c] = credit[c] /\ late'[c] = late[c]

Approve(c) ==
  /\ Moves(c, {"ESCALATED_TO_HUMAN"}, {"AWAITING_OUTCOME"})
  /\ credit'[c] = credit[c] /\ late'[c] = late[c]

Recover(c) ==
  /\ Moves(c, {"AWAITING_OUTCOME"}, {"RECOVERED"})
  /\ \E p \in Payments : credit'[c] = {p}
  /\ late'[c] = late[c]

Lose(c) ==
  /\ Moves(c, {"AWAITING_OUTCOME"}, {"LOST"})
  /\ credit'[c] = credit[c] /\ late'[c] = late[c]

CreditLate(c) ==
  /\ Moves(c, {"LOST"}, {"LOST"})
  /\ \E p \in Payments : late'[c] = late[c] \cup {p}
  /\ credit'[c] = credit[c]

Stay(c) == state'[c] = state[c] /\ credit'[c] = credit[c] /\ late'[c] = late[c]

Next ==
  /\ \A c \in Cases :
       Stay(c) \/ Work(c) \/ Approve(c) \/ Recover(c) \/ Lose(c) \/ CreditLate(c)
  /\ TypeOK'

\* An open case does not stay open for ever.
Fairness ==
  \A c \in Cases : []<>(state[c] # "AWAITING_OUTCOME")

Spec == Init /\ [][Next]_vars /\ Fairness
=============================================================================
