--------------------------- MODULE SyntheticEvents ---------------------------
(***************************************************************************)
(* The failures app/simulation/generator.py can produce, as the profiles   *)
(* of the cases run_batch opens for them.  The generator draws at random;  *)
(* what it may draw is the set of its tables' entries.                     *)
(***************************************************************************)
EXTENDS CasePipeline

Recoverable == {"gateway_timeout", "transaction_processing_error",
                "authentication_failure", "upi_collect_expired"}
Unrecoverable == {"insufficient_funds", "card_expired", "customer_cancelled",
                  "mandate_revoked", "bank_declined"}
SubscriptionRecoverable   == {"gateway_timeout", "transaction_processing_error"}
SubscriptionUnrecoverable == {"insufficient_funds", "mandate_revoked"}

\* Replaces the drawn code of a few payment failures; None is an event without
\* a code.  The descriptions contain no keyword of the rules either.
Opaque == {"internal_error", None}

\* What the rule table makes of a code the generator draws.
CodeClass(code) ==
  CASE code = "customer_cancelled" -> "cancelled"
    [] code = "mandate_revoked"    -> "revoked"
    [] code \in (Recoverable \cup Unrecoverable) \ {"customer_cancelled", "mandate_revoked"} -> "known"
    [] OTHER -> "ambiguous"

\* The label every synthetic event carries makes its case synthetic; its
\* customer is created without consents; each event has an order id or, for a
\* subscription, the subscription's id to refer to.
SyntheticProfile(flow, code) ==
  [flow |-> flow, code |-> CodeClass(code), optIn |-> {}, orderRef |-> TRUE,
   synthetic |-> TRUE]

SyntheticProfiles ==
  {SyntheticProfile("payment_failure", code) : code \in Recoverable \cup Unrecoverable \cup Opaque}
    \cup {SyntheticProfile("checkout_abandonment", "checkout_abandoned")}
    \cup {SyntheticProfile("subscription_mandate", code) :
            code \in SubscriptionRecoverable \cup SubscriptionUnrecoverable}
=============================================================================
