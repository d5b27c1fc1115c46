--------------------------- MODULE MCCaseJourney ----------------------------
(* Model-checking instance of CaseJourney: a unit is three hours, a day has *)
(* eight; quiet hours 21:00-09:00 local, cooldown six hours.                *)
EXTENDS CaseJourney, SyntheticEvents

\* One live case per way the pipeline can go: reachable or not by message,
\* settled or ambiguous diagnosis, with and without an order.
MCLive(flow, code, orderRef) ==
  [flow |-> flow, code |-> code, optIn |-> {"whatsapp"}, orderRef |-> orderRef,
   synthetic |-> FALSE]

MCProfiles ==
  SyntheticProfiles
  \cup {MCLive("payment_failure", code, TRUE) : code \in {"known", "ambiguous", "cancelled"}}
  \cup {MCLive("subscription_mandate", code, TRUE) : code \in {"ambiguous", "revoked"}}
  \cup {MCLive("checkout_abandonment", "cancelled", FALSE)}

MCBirths == 1 .. 8
\* The minutes by which a failure may lie ahead are one unit here.
MCReplayAges == {-1, 0, 3, 6, 9, 14}
MCPayDelays == {1, 5}
=============================================================================
