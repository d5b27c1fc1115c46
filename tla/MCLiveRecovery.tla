--------------------------- MODULE MCLiveRecovery ---------------------------
(* Model-checking instance of LiveRecovery: two failures of one order, both *)
(* settled by their error codes (CaseJourney has the others); a day has     *)
(* four units, the last and the first of them quiet.                        *)
EXTENDS LiveRecovery, TLC

CONSTANTS c1, c2, o1

MCProfile(code) ==
  [flow |-> "payment_failure", code |-> code, optIn |-> {}, orderRef |-> TRUE,
   synthetic |-> FALSE]

MCProfileOf == (c1 :> MCProfile("known")) @@ (c2 :> MCProfile("known"))
MCOrderOf   == (c1 :> o1) @@ (c2 :> o1)
MCAmountOf  == (c1 :> 1) @@ (c2 :> 1)
=============================================================================
