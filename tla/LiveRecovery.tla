---------------------------- MODULE LiveRecovery ----------------------------
(***************************************************************************)
(* Live operation of all cases together: failure and success webhooks      *)
(* (app/api/webhooks.py), the maintenance pass over every case             *)
(* (app/services/maintenance.py), human approval (app/api/routes.py), the  *)
(* customers who pay, and the clock.  Each handler is one database         *)
(* transaction; an exception or the death of the process before its commit *)
(* rolls the rows back and keeps what the gateway has already done.        *)
(* Failure events are identified with their cases: source_event_id is      *)
(* unique, and a redelivery that finds its row changes nothing.            *)
(***************************************************************************)
EXTENDS Metrics

CONSTANTS
  Cases,
  ProfileOf, OrderOf, AmountOf,   \* of each case, fixed by its event
  Poisonings,                     \* which cases may raise in every pass that works them
  MaxDeliveries,                  \* bound on deliveries of one success event
  MaxAborts,                      \* bound on transactions that do not commit
  MaxApprovals,                   \* bound on calls of the approve endpoint
  LastBirth,                      \* bound on the instants failure events arrive
  Horizon                         \* bound on the clock

Orders == {OrderOf[c] : c \in Cases} \ {None}

ASSUME LiveAssumption ==
  /\ ProfileOf \in [Cases -> {p \in Profile : ~p.synthetic}]
  /\ None \notin Cases /\ None \notin CaseRow
  /\ \A c \in Cases : AmountOf[c] \in Nat
  /\ \A c \in Cases : OrderOf[c] # None => ProfileOf[c].orderRef
  /\ MaxDeliveries \in Nat /\ MaxAborts \in Nat /\ MaxApprovals \in Nat /\ Horizon \in Nat
  /\ LastBirth \in Nat
  /\ Poisonings \subseteq SUBSET Cases

VARIABLES
  rows,       \* the committed case rows; None before the failure event
  effects,    \* links and charges existing at the gateway for each case
  payments,   \* what customers have paid; None for a payment not made yet
  deliveries, \* success deliveries of each payment so far
  clock, aborts, approvals,
  poison      \* the cases that raise in every pass, a choice made once

vars == <<rows, effects, payments, deliveries, clock, aborts, approvals, poison>>

Payment == [reference : Cases \cup {None}, order : Orders \cup {None}, amount : Nat]

Init ==
  /\ rows = [c \in Cases |-> None]
  /\ effects = [c \in Cases |-> 0]
  /\ payments = [p \in Payments |-> None]
  /\ deliveries = [p \in Payments |-> 0]
  /\ poison \in Poisonings
  /\ clock = 0
  /\ aborts = 0
  /\ approvals = 0

Opened == {c \in Cases : rows[c] # None}
InState(states) == {c \in Opened : rows[c].state \in states}

-----------------------------------------------------------------------------
(* Handlers that act on one case.                                          *)

Commit(c, r) ==
  /\ rows' = [rows EXCEPT ![c] = r.row]
  /\ effects' = [effects EXCEPT ![c] = @ + r.made]

\* Rolled back after the gateway was reached.
Abort(made) ==
  /\ aborts < MaxAborts
  /\ aborts' = aborts + 1
  /\ effects' = [c \in Cases |-> effects[c] + made[c]]
  /\ UNCHANGED rows

MadeFor(c, r) == [d \in Cases |-> IF d = c THEN r.made ELSE 0]

FailureResults(c) == ProcessResults(NewCase(ProfileOf[c], clock), clock)

\* The webhook of the failure event: insert, create the case, process, commit.
FailureWebhook(c) ==
  /\ c \notin Opened
  /\ clock <= LastBirth
  /\ \E r \in FailureResults(c) :
       \/ Commit(c, r) /\ UNCHANGED aborts
       \/ Abort(MadeFor(c, r))
  /\ UNCHANGED <<payments, deliveries, clock, approvals, poison>>

ApproveCase(c) ==
  /\ approvals < MaxApprovals
  /\ approvals' = approvals + 1
  /\ c \in Opened
  /\ \E r \in ApproveResults(rows[c], clock) :
       \/ Commit(c, r) /\ UNCHANGED aborts
       \/ Abort(MadeFor(c, r))
  /\ UNCHANGED <<payments, deliveries, clock, poison>>

-----------------------------------------------------------------------------
(* The maintenance pass: one session, one commit for every case.           *)

\* Slip: the requeue looks at overdue cases too.
RequeuedPastDeadline(c) ==
  /\ c \in InState({"AWAITING_OUTCOME"})
  /\ rows[c].deferred # None /\ rows[c].deferred <= clock

Requeued(c) ==
  /\ c \in InState({"AWAITING_OUTCOME"})
  /\ rows[c].deadline > clock
  /\ rows[c].deferred # None /\ rows[c].deferred <= clock

\* What one pass may leave of each case: a choice of one result per case.
Passes ==
  LET results == [c \in Opened |-> MaintainResults(rows[c], clock)]
  IN  {f \in [Opened -> UNION {results[c] : c \in Opened}] :
         \A c \in Opened : f[c] \in results[c]}

\* A pass commits only if none of the cases it requeues raises.
Maintenance ==
  /\ UNCHANGED <<payments, deliveries, clock, aborts, approvals, poison>>
  /\ \A c \in poison : ~Requeued(c)
  /\ \E f \in Passes :
       /\ rows' = [c \in Cases |-> IF c \in Opened THEN f[c].row ELSE None]
       /\ effects' = [c \in Cases |-> effects[c] + (IF c \in Opened THEN f[c].made ELSE 0)]

\* An exception in one case ends the pass: the cases requeued before it have
\* acted, and every row, the swept ones included, goes back to what it was.
MaintenanceAborts ==
  /\ \E f \in Passes, done \in SUBSET {c \in Opened : Requeued(c)} :
       Abort([c \in Cases |-> IF c \in done THEN f[c].made ELSE 0])
  /\ UNCHANGED <<payments, deliveries, clock, approvals, poison>>

-----------------------------------------------------------------------------
(* Customers and success webhooks.                                         *)

Paid(c) == {p \in Payments : payments[p] # None /\ payments[p].reference = c}

Pay(p, payment) ==
  /\ payments[p] = None
  /\ payments' = [payments EXCEPT ![p] = payment]
  /\ UNCHANGED <<rows, effects, deliveries, clock, aborts, approvals, poison>>

\* Each link is single-use and carries the case reference; the payment's order
\* is the link's own or the case's.
PayLink(c, p) ==
  /\ Cardinality(Paid(c)) < effects[c]
  /\ \E order \in {None, OrderOf[c]} :
       Pay(p, [reference |-> c, order |-> order, amount |-> AmountOf[c]])

\* The customer comes back to the shop's own checkout, perhaps with another cart.
PayOrder(c, p) ==
  /\ c \in Opened /\ OrderOf[c] # None
  /\ \E amount \in {AmountOf[c], AmountOf[c] + 1} :
       Pay(p, [reference |-> None, order |-> OrderOf[c], amount |-> amount])

Matchable == InState({"AWAITING_OUTCOME", "LOST"})

\* Slip: any open or lost case of the amount will do.
MatchOpenCaseByAmount(payment) ==
  IF payment.reference \in Matchable THEN {payment.reference}
  ELSE {c \in Matchable : AmountOf[c] = payment.amount}

\* Slip: the order decides before the reference.
MatchOpenCaseByOrder(payment) ==
  {c \in Matchable : payment.order # None /\ OrderOf[c] = payment.order}

\* By reference; failing that, any such case of the order, in no stated order.
MatchOpenCase(payment) ==
  IF payment.reference \in Matchable THEN {payment.reference}
  ELSE {c \in Matchable : payment.order # None /\ OrderOf[c] = payment.order}

\* A mismatched amount is answered 409 and rolled back, an unmatched payment is
\* ignored; no event row remembers the delivery either way.
SuccessWebhook(p) ==
  /\ payments[p] # None
  /\ deliveries[p] < MaxDeliveries
  /\ deliveries' = [deliveries EXCEPT ![p] = @ + 1]
  /\ LET matches == MatchOpenCase(payments[p]) IN
       \/ /\ matches = {}
          /\ UNCHANGED rows
       \/ \E c \in matches :
            rows' = IF payments[p].amount = AmountOf[c]
                    THEN [rows EXCEPT ![c] = RecordRecovery(@, p)] ELSE rows
  /\ UNCHANGED <<effects, payments, clock, aborts, approvals, poison>>

Tick ==
  /\ clock < Horizon
  /\ clock' = clock + 1
  /\ UNCHANGED <<rows, effects, payments, deliveries, aborts, approvals, poison>>

Next ==
  \/ \E c \in Cases : FailureWebhook(c) \/ ApproveCase(c)
  \/ Maintenance \/ MaintenanceAborts \/ Tick
  \/ \E p \in Payments : \/ SuccessWebhook(p)
                         \/ \E c \in Cases : PayLink(c, p) \/ PayOrder(c, p)

\* The scheduler runs its job for ever and time passes.
Fairness == WF_vars(Maintenance) /\ WF_vars(Tick)

Spec == Init /\ [][Next]_vars /\ Fairness
-----------------------------------------------------------------------------
(* Properties.                                                             *)

TypeOK ==
  /\ rows \in [Cases -> CaseRow \cup {None}]
  /\ effects \in [Cases -> Nat]
  /\ payments \in [Payments -> Payment \cup {None}]
  /\ deliveries \in [Payments -> Nat]
  /\ clock \in Nat /\ aborts \in Nat /\ approvals \in Nat
  /\ poison \in SUBSET Cases

\* The ledger never claims an action that did not happen: each executed action
\* of a case is a link or charge that exists, whatever was rolled back.
LedgerIsReal == \A c \in Opened : Len(rows[c].actions) <= effects[c]

CreditedTo(c, table) ==
  {table[c].outcomes[i].payment : i \in {j \in DOMAIN table[c].outcomes :
                                           table[c].outcomes[j].type = "RECOVERED"}}

\* Recovery is only ever real money: what is credited to a case, in time or
\* late, is a payment a customer made, of exactly the case's amount, through
\* the case's own link or on the case's order.  The second of these is the
\* handler's fallback; CreditNamesCase is the documented promise without it.
CreditIsRealMoney ==
  \A c \in Opened : \A p \in CreditedTo(c, rows) :
    /\ p \in Payments /\ payments[p] # None
    /\ payments[p].amount = AmountOf[c]
    /\ \/ payments[p].reference = c
       \/ payments[p].order # None /\ payments[p].order = OrderOf[c]

\* The books balance: the money reported as recovered and the money reported as
\* at risk add up to what the opened cases are worth, so that a late or repeated
\* payment never counts a case's money twice (compute_summary).
MoneyReconciles ==
  LET table == [c \in Opened |-> rows[c]]
  IN  TotalRecovered(table, AmountOf) + AtRisk(table, AmountOf)
        = MapThenSumSet(LAMBDA c : AmountOf[c], Opened)

\* A committed pass leaves nothing overdue, whichever cases it swept, requeued
\* or passed over: a step after which an open case is past its deadline, or a
\* deferral is due, was no committed pass.
LeftOverdue(c) ==
  /\ rows[c] # None
  /\ rows'[c].state = "AWAITING_OUTCOME"
  /\ \/ rows'[c].deadline <= clock
     \/ rows'[c].deferred # None /\ rows'[c].deferred <= clock

PassLeavesNothingOverdue == [][(\E c \in Cases : LeftOverdue(c)) => ~Maintenance]_vars

\* A payment that names a case is credited to another case of the order only
\* when the named one cannot take it.
ReferenceWins ==
  [][\A p \in Payments, c \in Opened :
       (/\ Len(rows'[c].outcomes) > Len(rows[c].outcomes)
        /\ rows'[c].outcomes[Len(rows'[c].outcomes)].payment = p)
       => payments[p].reference \in {c, None} \cup (Cases \ Matchable)]_vars

\* Nothing a rolled-back transaction or a late delivery does is visible in the
\* committed rows: the cases still live the abstract life cycle.
Recorded(c, Which(_)) ==
  IF rows[c] = None THEN {} ELSE {rows[c].outcomes[i].payment : i \in Which(rows[c])}

Lifecycle == INSTANCE CaseLifecycle WITH
  state  <- [c \in Cases |-> IF rows[c] = None THEN "ABSENT" ELSE rows[c].state],
  credit <- [c \in Cases |-> Recorded(c, InTime)],
  late   <- [c \in Cases |-> Recorded(c, Late)]

LifecycleSpec == Lifecycle!Spec

\* A payment is credited once, however often it is delivered.
PaymentCreditedOnce ==
  \A p \in Payments :
    Cardinality(UNION {{<<c, i>> : i \in {j \in DOMAIN rows[c].outcomes :
                                            rows[c].outcomes[j].payment = p}} : c \in Opened}) <= 1

\* The agent never sends a customer more links for a case than the message cap.
LinksWithinMessageCap ==
  approvals = 0 => \A c \in Cases : effects[c] <= MessageCap

\* Recovery is only counted when a matching payment arrives with the case
\* reference and the exact case amount (README.md:26).
CreditNamesCase ==
  \A c \in Opened : \A p \in CreditedTo(c, rows) :
    payments[p].reference = c /\ payments[p].amount = AmountOf[c]

\* A delivered payment that names an existing case is credited to some case: a
\* request to the gateway that errored left no link a customer could pay
\* (RAZORPAY_TRANSIENT_ERRORS), so every link belongs to a case that observes it.
ReferencedPaymentCredited ==
  \A p \in Payments :
    deliveries[p] > 0 /\ payments[p].reference \in Opened =>
      \E c \in Opened : p \in CreditedTo(c, rows)
=============================================================================
