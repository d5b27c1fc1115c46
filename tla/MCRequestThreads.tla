-------------------------- MODULE MCRequestThreads --------------------------
(* Model-checking instance of RequestThreads: two prompts, a diagnosis that  *)
(* both webhooks ask for and a decision; a row of an older schema, a usable  *)
(* one or none in the cache table.                                           *)
EXTENDS RequestThreads, TLC

CONSTANTS w1, w2, a1, s1, d1, k1

MCPromptsOf == [r \in Requests |->
  CASE r = w1 -> <<d1, k1>> [] r = w2 -> <<d1>> [] r = a1 -> <<>> [] OTHER -> <<k1>>]

MCScenarios == {{w1, w2}, {s1, a1}, {w2, a1}}

MCTables == {(d1 :> "stale") @@ (k1 :> "fits"), (d1 :> "none") @@ (k1 :> "none")}
=============================================================================
