------------------------------ MODULE Metrics -------------------------------
(***************************************************************************)
(* The money of app/services/metrics.py, summed over a table of case rows; *)
(* amount gives what each case is worth.                                   *)
(***************************************************************************)
EXTENDS CasePipeline

\* Slip: late payments count as recovered money.
TotalRecoveredWithLate(table, amount) ==
  MapThenSumSet(LAMBDA c : amount[c] * Cardinality(InTime(table[c]) \cup Late(table[c])),
                DOMAIN table)

\* amount_recovered of an in-time outcome is its case's amount, or
\* record_recovery had refused it; outcomes of other types carry none.
TotalRecovered(table, amount) ==
  MapThenSumSet(LAMBDA c : amount[c] * Cardinality(InTime(table[c])), DOMAIN table)

AtRisk(table, amount) ==
  MapThenSumSet(LAMBDA c : amount[c], {c \in DOMAIN table : table[c].state # "RECOVERED"})
=============================================================================
