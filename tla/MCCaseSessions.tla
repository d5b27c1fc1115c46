--------------------------- MODULE MCCaseSessions ---------------------------
(* Model-checking instance of CaseSessions: quiet hours are off, so that a  *)
(* requeued case acts; the policy allows one message per case.              *)
EXTENDS CaseSessions

MCNew(born) ==
  NewCase([flow |-> "payment_failure", code |-> "known", optIn |-> {}, orderRef |-> TRUE,
           synthetic |-> FALSE], born)

MCInstant == 6

\* Deferred overnight and due; sent and waiting for the customer; sent and past
\* its deadline; waiting for a person; lost.
MCDue       == [MCNew(2) EXCEPT !.state = "AWAITING_OUTCOME", !.deferred = 5]
MCSent      == RecordAction(MCNew(3), "send_payment_link", 3, "agent")
MCOverdue   == RecordAction(MCNew(1), "send_payment_link", 1, "agent")
MCEscalated == EscalateCase(MCNew(4), "low_confidence")

MCInitialRows == {MCDue, MCSent, MCOverdue, MCEscalated, MarkLost(MCOverdue)}

MCPaymentOf == [s \in Successes |-> CHOOSE p \in Payments : TRUE]
=============================================================================
