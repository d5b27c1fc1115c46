------------------------ MODULE LiveRecovery_proofs -------------------------
(***************************************************************************)
(* Theorems about LiveRecovery, for any number of cases, payments,         *)
(* deliveries, rollbacks and approvals and for every policy.  A handler    *)
(* keeps a case's row good (CasePipeline_proofs), records no action the    *)
(* gateway has not done and no recovery at all: only a success webhook     *)
(* credits, and only a payment that was made.                              *)
(***************************************************************************)
EXTENDS LiveRecovery, CasePipeline_proofs, Metrics_proofs

\* What a handler may add to a row: actions there are objects for, an outcome
\* that credits nobody.
Added(b, r) ==
  /\ r.made \in Nat
  /\ r.row.synthetic = b.synthetic /\ r.row.deadline = b.deadline
  /\ Len(r.row.actions) <= Len(b.actions) + r.made
  /\ \/ r.row.outcomes = b.outcomes
     \/ \E o \in OutcomeRow : /\ o.type # "RECOVERED" /\ ~o.late /\ o.payment = None
                              /\ r.row.outcomes = Append(b.outcomes, o)

\* How a handler may move a case.
Moved(b, row) ==
  \/ row = b /\ b.state # "NEW"
  \/ b.state \in {"NEW", "AWAITING_OUTCOME"} /\ row.state \in AllowedTransitions["PROCESSING"]
  \/ b.state = "AWAITING_OUTCOME" /\ row.state = "LOST"
  \/ b.state = "ESCALATED_TO_HUMAN" /\ row.state = "AWAITING_OUTCOME"

\* Neither overdue nor due.
Ahead(b, now) == b.deferred # None => b.deferred > now

-----------------------------------------------------------------------------
(* What the handlers add.                                                  *)

LEMMA SettleAdds ==
  ASSUME NEW b \in CaseRow, NEW reason, NEW made \in Nat
  PROVE  /\ Added(b, Result(EscalateCase(b, reason), made))
         /\ Added(b, Result(StopCase(b, reason), made))
         /\ Added(b, Result(MarkLost(b), made))
         /\ EscalateCase(b, reason).deferred = b.deferred
         /\ StopCase(b, reason).deferred = b.deferred
<1>1. \A type \in {"ESCALATED", "STOPPED", "LOST"} :
        \E o \in OutcomeRow : /\ o.type # "RECOVERED" /\ ~o.late /\ o.payment = None
                               /\ Outcome(type, None, FALSE) = o
  BY DEF Outcome, OutcomeRow
<1>2. Len(b.actions) \in Nat BY DEF CaseRow
<1> DEFINE e == EscalateCase(b, reason)
           s == StopCase(b, reason)
           l == MarkLost(b)
<1>3. /\ e.outcomes = Append(b.outcomes, Outcome("ESCALATED", None, FALSE))
      /\ e.actions = b.actions /\ e.synthetic = b.synthetic
      /\ e.deadline = b.deadline /\ e.deferred = b.deferred
  BY DEF EscalateCase, CaseRow
<1>4. /\ s.outcomes = Append(b.outcomes, Outcome("STOPPED", None, FALSE))
      /\ s.actions = b.actions /\ s.synthetic = b.synthetic
      /\ s.deadline = b.deadline /\ s.deferred = b.deferred
  BY DEF StopCase, CaseRow
<1>5. /\ l.outcomes = Append(b.outcomes, Outcome("LOST", None, FALSE))
      /\ l.actions = b.actions /\ l.synthetic = b.synthetic /\ l.deadline = b.deadline
  BY DEF MarkLost, CaseRow
<1> HIDE DEF e, s, l
<1>6. Added(b, Result(e, made))
  <2>1. PICK o \in OutcomeRow : /\ o.type # "RECOVERED" /\ ~o.late /\ o.payment = None
                                /\ e.outcomes = Append(b.outcomes, o)
    BY <1>1, <1>3
  <2> QED BY <1>2, <1>3, <2>1 DEF Added, Result
<1>7. Added(b, Result(s, made))
  <2>1. PICK o \in OutcomeRow : /\ o.type # "RECOVERED" /\ ~o.late /\ o.payment = None
                                /\ s.outcomes = Append(b.outcomes, o)
    BY <1>1, <1>4
  <2> QED BY <1>2, <1>4, <2>1 DEF Added, Result
<1>8. Added(b, Result(l, made))
  <2>1. PICK o \in OutcomeRow : /\ o.type # "RECOVERED" /\ ~o.late /\ o.payment = None
                                /\ l.outcomes = Append(b.outcomes, o)
    BY <1>1, <1>5
  <2> QED BY <1>2, <1>5, <2>1 DEF Added, Result
<1> QED BY <1>3, <1>4, <1>6, <1>7, <1>8 DEF e, s, l

LEMMA DeferAdds ==
  ASSUME NEW b \in CaseRow, NEW now \in Nat, ResumeCandidates(b, now) # {}
  PROVE  Added(b, Result(DeferCase(b, now), 0)) /\ Ahead(DeferCase(b, now), now)
<1> DEFINE d == DeferCase(b, now)
<1>1. Len(b.actions) \in Nat BY DEF CaseRow
<1>2. /\ d.outcomes = b.outcomes /\ d.actions = b.actions /\ d.synthetic = b.synthetic
      /\ d.deadline = b.deadline /\ d.deferred = Max(ResumeCandidates(b, now))
  BY DEF DeferCase, CaseRow
<1>3. Max(ResumeCandidates(b, now)) > now BY ResumeCandidatesMax
<1> HIDE DEF d
<1>4. Added(b, Result(d, 0)) BY <1>1, <1>2 DEF Added, Result
<1> QED BY <1>2, <1>3, <1>4 DEF Ahead, d

LEMMA RecordAdds ==
  ASSUME NEW b \in CaseRow, NEW type \in ExecutingActions, NEW now \in Nat,
         NEW by \in {"agent", "human"}, NEW made \in Nat, made >= 1
  PROVE  /\ Added(b, Result(RecordAction(b, type, now, by), made))
         /\ RecordAction(b, type, now, by).deferred = b.deferred
<1> DEFINE d == RecordAction(b, type, now, by)
           a == Action(type, now, by)
<1>1. a \in ExecutedAction BY DEF Action, ExecutedAction
<1>2. /\ d.outcomes = b.outcomes /\ d.actions = Append(b.actions, a)
      /\ d.synthetic = b.synthetic /\ d.deadline = b.deadline /\ d.deferred = b.deferred
  BY DEF RecordAction, CaseRow
<1>3. Len(d.actions) = Len(b.actions) + 1 /\ Len(b.actions) \in Nat
  <2>1. b.actions \in Seq(ExecutedAction) BY DEF CaseRow
  <2> HIDE DEF a
  <2> QED BY <1>1, <1>2, <2>1
<1> HIDE DEF d
<1>4. Added(b, Result(d, made)) BY <1>2, <1>3 DEF Added, Result
<1> QED BY <1>2, <1>4 DEF d

\* process_case, on a case that is not simulated.
LEMMA ProcessAdds ==
  ASSUME NEW b \in CaseRow, ~b.synthetic, NEW now \in Nat, NEW r \in ProcessResults(b, now)
  PROVE  Added(b, r) /\ Ahead(r.row, now)
<1> DEFINE q == [b EXCEPT !.deferred = None, !.state = "PROCESSING"]
<1>1. q \in CaseRow BY DEF CaseRow, CaseState
<1>2. /\ q.deferred = None /\ q.synthetic = b.synthetic /\ q.deadline = b.deadline
      /\ q.actions = b.actions /\ q.outcomes = b.outcomes
  BY DEF CaseRow
<1>3. PICK d \in Diagnoses(b) : r \in DecideResults(q, d, now)
  BY DEF ProcessResults
<1> HIDE DEF q
<1>4. Added(q, r) => Added(b, r) BY <1>2 DEF Added
<1>5. ASSUME NEW reason, r = Result(EscalateCase(q, reason), 0) \/ r = Result(StopCase(q, reason), 0)
      PROVE  Added(q, r) /\ Ahead(r.row, now)
  <2>1. r.row \in {EscalateCase(q, reason), StopCase(q, reason)} BY <1>5 DEF Result
  <2> QED BY <1>1, <1>2, <1>5, <2>1, SettleAdds DEF Ahead
<1>6. CASE d = "unavailable"
  BY <1>3, <1>4, <1>5, <1>6 DEF DecideResults
<1>7. CASE d # "unavailable"
  <2>1. PICK p \in Decide(q, now, d) : r \in GateResults(q, p, now)
    BY <1>3, <1>7 DEF DecideResults
  <2>2. CASE r \in ExecuteResults(q, p, now)
    <3>1. CASE p.action \in {"stop", "escalate_human"}
      BY <1>4, <1>5, <2>2, <3>1 DEF ExecuteResults, ExecutingActions
    <3>2. CASE p.action \in ExecutingActions
      <4>1. PICK call \in ClientCalls(FALSE) :
              r = Result(IF call.ok THEN RecordAction(q, p.action, now, "agent")
                                    ELSE EscalateCase(q, "execution_failed"), call.made)
        <5>1. q.synthetic = FALSE BY <1>1, <1>2 DEF CaseRow
        <5> QED BY <2>2, <3>2, <5>1 DEF ExecuteResults, ExecutingActions
      <4>2. call.made \in Nat /\ (call.ok => call.made >= 1) BY CallShape
      <4>3. CASE call.ok
        <5>1. r = Result(RecordAction(q, p.action, now, "agent"), call.made) BY <4>1, <4>3
        <5>2. r.row = RecordAction(q, p.action, now, "agent") BY <5>1 DEF Result
        <5> QED BY <1>1, <1>2, <1>4, <3>2, <4>2, <4>3, <5>1, <5>2, RecordAdds DEF Ahead
      <4>4. CASE ~call.ok
        <5>1. r = Result(EscalateCase(q, "execution_failed"), call.made) BY <4>1, <4>4
        <5>2. r.row = EscalateCase(q, "execution_failed") BY <5>1 DEF Result
        <5> QED BY <1>1, <1>2, <1>4, <4>2, <5>1, <5>2, SettleAdds DEF Ahead
      <4> QED BY <4>3, <4>4
    <3> QED BY <3>1, <3>2, CandidateShape
  <2>3. CASE r = Result(BlockedCase(q, CheckGuardrails(q, p, now), now), 0)
    <3>1. CASE ResumeCandidates(q, now) # {} /\ r = Result(DeferCase(q, now), 0)
      <4>1. r.row = DeferCase(q, now) BY <3>1 DEF Result
      <4> QED BY <1>1, <1>4, <3>1, <4>1, DeferAdds
    <3>2. CASE \E reason : r = Result(EscalateCase(q, reason), 0)
      BY <1>4, <1>5, <3>2
    <3> QED BY <2>3, <3>1, <3>2 DEF BlockedCase
  <2> QED BY <2>1, <2>2, <2>3 DEF GateResults
<1> QED BY <1>6, <1>7

\* approve_and_send.
LEMMA ApproveAdds ==
  ASSUME NEW b \in CaseRow, NEW now \in Nat, NEW r \in ApproveResults(b, now)
  PROVE  Added(b, r)
<1> DEFINE q == [b EXCEPT !.pending = @ - 1]
<1>1. b.pending > 0 /\ b.state = "ESCALATED_TO_HUMAN" BY DEF ApproveResults
<1>2. q \in CaseRow
  <2>1. b.pending - 1 \in Nat BY <1>1 DEF CaseRow
  <2> QED BY <2>1 DEF CaseRow
<1>3. /\ q.synthetic = b.synthetic /\ q.deadline = b.deadline
      /\ q.actions = b.actions /\ q.outcomes = b.outcomes
  BY DEF CaseRow
<1>4. PICK call \in ClientCalls(FALSE) :
        r = Result(IF call.ok THEN RecordAction(q, ApprovedAction(b), now, "human")
                              ELSE b, call.made)
  BY <1>1 DEF ApproveResults
<1> HIDE DEF q
<1>5. Added(q, r) => Added(b, r) BY <1>3 DEF Added
<1>6. call.made \in Nat /\ (call.ok => call.made >= 1) BY CallShape
<1>7. CASE call.ok
  <2>1. ApprovedAction(b) \in ExecutingActions BY DEF ApprovedAction, ExecutingActions
  <2> QED BY <1>2, <1>4, <1>5, <1>6, <1>7, <2>1, RecordAdds
<1>8. CASE ~call.ok
  <2>1. r = Result(b, call.made) /\ Len(b.actions) \in Nat BY <1>4, <1>8 DEF CaseRow
  <2> QED BY <1>6, <2>1 DEF Added, Result
<1> QED BY <1>7, <1>8

\* A maintenance pass, which leaves nothing overdue.
LEMMA MaintainAdds ==
  ASSUME NEW b \in CaseRow, ~b.synthetic, NEW now \in Nat, NEW r \in MaintainResults(b, now)
  PROVE  /\ Added(b, r)
         /\ r.row.state = "AWAITING_OUTCOME" => r.row.deadline > now /\ Ahead(r.row, now)
<1>1. CASE b.state # "AWAITING_OUTCOME" /\ r = Result(b, 0)
  BY <1>1 DEF Added, Result, CaseRow
<1>2. CASE r = Result(MarkLost(b), 0)
  <2>1. r.row.state = "LOST" BY <1>2 DEF Result, MarkLost, CaseRow
  <2> QED BY <1>2, <2>1, SettleAdds
<1>3. CASE ~(b.deadline <= now) /\ r \in ProcessResults(b, now)
  <2>1. Added(b, r) /\ Ahead(r.row, now) BY <1>3, ProcessAdds
  <2>2. r.row.deadline > now BY <1>3, <2>1 DEF Added, CaseRow
  <2> QED BY <2>1, <2>2
<1>4. CASE ~(b.deadline <= now) /\ ~(b.deferred # None /\ b.deferred <= now) /\ r = Result(b, 0)
  BY <1>4 DEF Added, Ahead, Result, CaseRow
<1> QED BY <1>1, <1>2, <1>3, <1>4 DEF MaintainResults

-----------------------------------------------------------------------------
(* The inductive invariant.                                                *)

\* Payment p of those paid is money for case c.
RealMoney(c, p, paid) ==
  /\ p \in Payments /\ paid[p] # None
  /\ paid[p].amount = AmountOf[c]
  /\ \/ paid[p].reference = c
     \/ paid[p].order # None /\ paid[p].order = OrderOf[c]

\* A committed row of case c, with so many objects at the gateway.
Good(c, b, made, paid) ==
  /\ RowOK(b) /\ ~b.synthetic
  /\ Len(b.actions) <= made
  /\ \A i \in DOMAIN b.outcomes :
       b.outcomes[i].type = "RECOVERED" \/ b.outcomes[i].late =>
         RealMoney(c, b.outcomes[i].payment, paid)

CaseOK(c) ==
  rows[c] # None => /\ Good(c, rows[c], effects[c], payments)
                    /\ rows[c].state \notin {"NEW", "PROCESSING"}

IInv == TypeOK /\ \A c \in Cases : CaseOK(c)

\* What a handler adds to a good row leaves it good.
LEMMA AddedGood ==
  ASSUME NEW c \in Cases, NEW paid, NEW b, NEW made \in Nat, Good(c, b, made, paid),
         NEW r, Added(b, r), RowOK(r.row), NEW total \in Nat, total >= made + r.made
  PROVE  Good(c, r.row, total, paid)
<1>1. b \in CaseRow /\ r.row \in CaseRow BY DEF Good, RowOK
<1>2. \A row \in CaseRow : Len(row.actions) \in Nat BY DEF CaseRow
<1>3. Len(r.row.actions) <= total /\ ~r.row.synthetic
  BY <1>1, <1>2 DEF Good, Added
<1>4. ASSUME NEW i \in DOMAIN r.row.outcomes,
             r.row.outcomes[i].type = "RECOVERED" \/ r.row.outcomes[i].late
      PROVE  RealMoney(c, r.row.outcomes[i].payment, paid)
  <2>1. CASE r.row.outcomes = b.outcomes BY <1>4, <2>1 DEF Good
  <2>2. CASE r.row.outcomes # b.outcomes
    <3>1. PICK o \in OutcomeRow : /\ o.type # "RECOVERED" /\ ~o.late
                                  /\ r.row.outcomes = Append(b.outcomes, o)
      BY <2>2 DEF Added
    <3>2. b.outcomes \in Seq(OutcomeRow) BY <1>1 DEF CaseRow
    <3>3. i \in DOMAIN b.outcomes /\ r.row.outcomes[i] = b.outcomes[i]
      BY <1>4, <3>1, <3>2
    <3> QED BY <1>4, <3>3 DEF Good
  <2> QED BY <2>1, <2>2
<1> QED BY <1>3, <1>4 DEF Good

\* The row of a failure event that is just being received.
LEMMA NewCaseGood ==
  ASSUME NEW c \in Cases, NEW now \in Nat, NEW made \in Nat, NEW paid
  PROVE  Good(c, NewCase(ProfileOf[c], now), made, paid)
<1>1. ProfileOf[c] \in Profile /\ ~ProfileOf[c].synthetic BY LiveAssumption
<1>2. RowOK(NewCase(ProfileOf[c], now)) BY <1>1, NewCaseOK
<1> QED BY <1>1, <1>2 DEF Good, NewCase

\* A payment that was made stays as it was made.
LEMMA RealMoneyStays ==
  ASSUME TypeOK, [Next]_vars, NEW c \in Cases, NEW p, RealMoney(c, p, payments)
  PROVE  RealMoney(c, p, payments')
<1>1. p \in Payments /\ payments[p] # None BY DEF RealMoney
<1>2. payments'[p] = payments[p]
  <2>1. CASE UNCHANGED payments BY <2>1
  <2>2. ASSUME NEW q \in Payments, NEW payment, Pay(q, payment) PROVE payments'[p] = payments[p]
    BY <1>1, <2>2 DEF Pay, TypeOK
  <2> QED
    BY <2>1, <2>2
    DEF Next, vars, FailureWebhook, ApproveCase, Maintenance, MaintenanceAborts, Tick,
        SuccessWebhook, PayLink, PayOrder
<1> QED BY <1>2 DEF RealMoney

LEMMA GoodStays ==
  ASSUME TypeOK, [Next]_vars, NEW c \in Cases, NEW b, NEW made, Good(c, b, made, payments)
  PROVE  Good(c, b, made, payments')
BY RealMoneyStays DEF Good

LEMMA InitInvariant == Init => IInv
<1> SUFFICES ASSUME Init PROVE IInv
  OBVIOUS
<1>1. TypeOK
  BY LiveAssumption DEF Init, TypeOK
<1>2. \A c \in Cases : CaseOK(c) BY DEF Init, CaseOK
<1> QED BY <1>1, <1>2 DEF IInv

-----------------------------------------------------------------------------
(* What a step does to one case.                                           *)

Base(c) == IF rows[c] = None THEN NewCase(ProfileOf[c], clock) ELSE rows[c]

Untouched(c) == rows'[c] = rows[c] /\ effects'[c] >= effects[c]

Serves(c, r) ==
  /\ Added(Base(c), r) /\ RowOK(r.row) /\ Moved(Base(c), r.row)
  /\ rows'[c] = r.row /\ effects'[c] >= effects[c] + r.made

Credits(c, p) ==
  /\ p \in Payments /\ payments[p] # None
  /\ c \in MatchOpenCase(payments[p]) /\ payments[p].amount = AmountOf[c]
  /\ rows'[c] = RecordRecovery(rows[c], p) /\ effects'[c] = effects[c]

\* The handlers' theorems, together.
LEMMA ResultOK ==
  ASSUME NEW b, RowOK(b), ~b.synthetic, NEW now \in Nat,
         NEW r, \/ r \in ProcessResults(b, now)
                \/ r \in ApproveResults(b, now)
                \/ r \in MaintainResults(b, now) /\ b.state # "NEW"
  PROVE  Added(b, r) /\ RowOK(r.row) /\ Moved(b, r.row)
<1>1. b \in CaseRow BY DEF RowOK
<1>2. CASE r \in ProcessResults(b, now)
  BY <1>1, <1>2, ProcessAdds, ProcessOK DEF Handled, Moved
<1>3. CASE r \in ApproveResults(b, now)
  BY <1>1, <1>3, ApproveAdds, ApproveOK DEF Moved
<1>4. CASE r \in MaintainResults(b, now) /\ b.state # "NEW"
  BY <1>1, <1>4, MaintainAdds, MaintainOK DEF Moved
<1> QED BY <1>2, <1>3, <1>4

\* A case's row, or the one its failure event is about to get.
LEMMA BaseOK ==
  ASSUME IInv, NEW c \in Cases
  PROVE  /\ Good(c, Base(c), effects[c], payments) /\ effects[c] \in Nat /\ clock \in Nat
         /\ rows[c] # None => Base(c) = rows[c] /\ rows[c].state \notin {"NEW", "PROCESSING"}
BY NewCaseGood DEF IInv, TypeOK, CaseOK, Base

\* A transaction of one case: committed or rolled back.
LEMMA TransactionStep ==
  ASSUME IInv, NEW c \in Cases, NEW r, Added(Base(c), r), RowOK(r.row), Moved(Base(c), r.row),
         \/ Commit(c, r)
         \/ Abort(MadeFor(c, r)),
         NEW d \in Cases
  PROVE  effects'[d] \in Nat /\ (Untouched(d) \/ Serves(d, r))
<1>1. effects \in [Cases -> Nat] /\ r.made \in Nat BY DEF IInv, TypeOK, Added
<1>2. CASE Commit(c, r)
  <2>1. CASE c = d
    BY <1>1, <1>2, <2>1 DEF Commit, Serves, IInv, TypeOK
  <2>2. CASE c # d
    BY <1>1, <1>2, <2>2 DEF Commit, Untouched, IInv, TypeOK
  <2> QED BY <2>1, <2>2
<1>3. CASE Abort(MadeFor(c, r))
  BY <1>1, <1>3 DEF Abort, MadeFor, Untouched
<1> QED BY <1>2, <1>3

LEMMA CaseStep ==
  ASSUME IInv, [Next]_vars, NEW c \in Cases
  PROVE  /\ effects'[c] \in Nat
         /\ \/ Untouched(c)
            \/ \E r : Serves(c, r)
            \/ \E p : Credits(c, p)
<1>1. TypeOK /\ clock \in Nat BY DEF IInv, TypeOK
<1>2. ASSUME NEW d \in Cases, FailureWebhook(d)
      PROVE  effects'[c] \in Nat /\ (Untouched(c) \/ \E r : Serves(c, r))
  <2>1. PICK r \in FailureResults(d) : Commit(d, r) \/ Abort(MadeFor(d, r))
    BY <1>2 DEF FailureWebhook
  <2>2. rows[d] = None BY <1>2 DEF FailureWebhook, Opened
  <2>3. r \in ProcessResults(Base(d), clock) BY <2>1, <2>2 DEF FailureResults, Base
  <2>4. RowOK(Base(d)) /\ ~Base(d).synthetic BY BaseOK DEF Good
  <2> QED BY <1>1, <2>1, <2>3, <2>4, ResultOK, TransactionStep
<1>3. ASSUME NEW d \in Cases, ApproveCase(d)
      PROVE  effects'[c] \in Nat /\ (Untouched(c) \/ \E r : Serves(c, r))
  <2>1. PICK r \in ApproveResults(rows[d], clock) : Commit(d, r) \/ Abort(MadeFor(d, r))
    BY <1>3 DEF ApproveCase
  <2>2. r \in ApproveResults(Base(d), clock) BY <1>3, <2>1 DEF ApproveCase, Opened, Base
  <2>3. RowOK(Base(d)) /\ ~Base(d).synthetic BY BaseOK DEF Good
  <2> QED BY <1>1, <2>1, <2>2, <2>3, ResultOK, TransactionStep
<1>4. ASSUME NEW f \in Passes, c \in Opened
      PROVE  Added(Base(c), f[c]) /\ RowOK(f[c].row) /\ Moved(Base(c), f[c].row)
  <2>1. f[c] \in MaintainResults(rows[c], clock) BY <1>4 DEF Passes
  <2>2. rows[c] # None BY <1>4 DEF Opened
  <2> QED BY <1>1, <2>1, <2>2, BaseOK, ResultOK DEF Good
<1>5. CASE Maintenance
  <2>1. PICK f \in Passes :
          /\ rows' = [d \in Cases |-> IF d \in Opened THEN f[d].row ELSE None]
          /\ effects' = [d \in Cases |-> effects[d] + (IF d \in Opened THEN f[d].made ELSE 0)]
    BY <1>5 DEF Maintenance
  <2>2. CASE c \in Opened
    <3>1. Serves(c, f[c]) BY <1>1, <1>4, <2>1, <2>2 DEF Serves, Added, TypeOK
    <3>2. effects'[c] \in Nat BY <1>1, <1>4, <2>1, <2>2 DEF Added, TypeOK
    <3> QED BY <3>1, <3>2
  <2>3. CASE c \notin Opened
    BY <1>1, <2>1, <2>3 DEF Untouched, Opened, TypeOK
  <2> QED BY <2>2, <2>3
<1>6. CASE MaintenanceAborts
  <2>1. PICK f \in Passes, done \in SUBSET {d \in Opened : Requeued(d)} :
          Abort([d \in Cases |-> IF d \in done THEN f[d].made ELSE 0])
    BY <1>6 DEF MaintenanceAborts
  <2>2. c \in done => f[c].made \in Nat BY <1>4, <2>1 DEF Added
  <2> QED BY <1>1, <2>1, <2>2 DEF Abort, Untouched, TypeOK
<1>7. ASSUME NEW p \in Payments, SuccessWebhook(p)
      PROVE  effects'[c] \in Nat /\ (Untouched(c) \/ Credits(c, p))
  <2>1. effects' = effects /\ payments[p] # None BY <1>7 DEF SuccessWebhook
  <2>2. CASE UNCHANGED rows BY <1>1, <2>1, <2>2 DEF Untouched, TypeOK
  <2>3. CASE \E d \in MatchOpenCase(payments[p]) :
               /\ payments[p].amount = AmountOf[d]
               /\ rows' = [rows EXCEPT ![d] = RecordRecovery(@, p)]
    <3>1. PICK d \in MatchOpenCase(payments[p]) :
            /\ payments[p].amount = AmountOf[d]
            /\ rows' = [rows EXCEPT ![d] = RecordRecovery(@, p)]
      BY <2>3
    <3>2. CASE c = d BY <1>1, <2>1, <3>1, <3>2 DEF Credits, TypeOK
    <3>3. CASE c # d BY <1>1, <2>1, <3>1, <3>3 DEF Untouched, TypeOK
    <3> QED BY <3>2, <3>3
  <2> QED BY <1>7, <2>2, <2>3 DEF SuccessWebhook
<1>8. CASE UNCHANGED <<rows, effects>>
  BY <1>1, <1>8 DEF Untouched, TypeOK
<1> QED
  BY <1>2, <1>3, <1>5, <1>6, <1>7, <1>8 DEF Next, vars, Tick, PayLink, PayOrder, Pay

\* A success webhook credits an open or a lost case, with money that is its own.
LEMMA CreditsGood ==
  ASSUME IInv, NEW c \in Cases, NEW p, Credits(c, p)
  PROVE  /\ rows[c] # None /\ rows[c].state \in {"AWAITING_OUTCOME", "LOST"}
         /\ rows'[c].state = IF rows[c].state = "LOST" THEN "LOST" ELSE "RECOVERED"
         /\ rows'[c].outcomes
              = Append(rows[c].outcomes, Outcome("RECOVERED", p, rows[c].state = "LOST"))
         /\ Good(c, rows'[c], effects'[c], payments)
<1>1. c \in Matchable
  BY DEF Credits, MatchOpenCase
<1>2. rows[c] # None /\ rows[c].state \in {"AWAITING_OUTCOME", "LOST"}
  BY <1>1 DEF Matchable, InState, Opened
<1>3. Good(c, rows[c], effects[c], payments) BY <1>2 DEF IInv, CaseOK
<1>4. RealMoney(c, p, payments)
  BY <1>1 DEF Credits, MatchOpenCase, RealMoney
<1> DEFINE b == rows[c]
           o == Outcome("RECOVERED", p, b.state = "LOST")
           d == RecordRecovery(b, p)
<1>5. b \in CaseRow /\ RowOK(b) BY <1>3 DEF Good, RowOK
<1>6. /\ RowOK(d) /\ p \in Payments
      /\ d.state = IF b.state = "LOST" THEN "LOST" ELSE "RECOVERED"
  BY <1>2, <1>5, RecordRecoveryOK DEF Credits
<1>7. /\ d.outcomes = Append(b.outcomes, o) /\ d.actions = b.actions
      /\ d.synthetic = b.synthetic
  <2>1. CASE b.state = "LOST"
    <3>1. o = Outcome("RECOVERED", p, TRUE) BY <2>1
    <3> QED BY <1>5, <2>1, <3>1 DEF RecordRecovery, CaseRow
  <2>2. CASE b.state # "LOST"
    <3>1. o = Outcome("RECOVERED", p, FALSE) BY <2>2
    <3> QED BY <1>5, <2>2, <3>1 DEF RecordRecovery, CaseRow
  <2> QED BY <2>1, <2>2
<1>8. o.payment = p /\ o \in OutcomeRow
  BY <1>6 DEF Outcome, OutcomeRow
<1> HIDE DEF b, o, d
<1>9. ASSUME NEW i \in DOMAIN d.outcomes, d.outcomes[i].type = "RECOVERED" \/ d.outcomes[i].late
      PROVE  RealMoney(c, d.outcomes[i].payment, payments)
  <2>1. b.outcomes \in Seq(OutcomeRow) BY <1>5 DEF CaseRow
  <2>2. \/ d.outcomes[i] = o
        \/ i \in DOMAIN b.outcomes /\ d.outcomes[i] = b.outcomes[i]
    BY <1>7, <1>8, <1>9, <2>1
  <2> QED BY <1>3, <1>4, <1>8, <1>9, <2>2 DEF Good, b
<1>10. Good(c, d, effects[c], payments)
  BY <1>3, <1>6, <1>7, <1>9 DEF Good, b
<1> QED BY <1>2, <1>6, <1>7, <1>10 DEF Credits, b, o, d

\* The payments customers make are payments.
LEMMA PaymentsType ==
  ASSUME TypeOK, [Next]_vars
  PROVE  payments' \in [Payments -> Payment \cup {None}]
<1>1. ASSUME NEW p \in Payments, NEW c \in Cases, PayLink(c, p)
      PROVE  payments' \in [Payments -> Payment \cup {None}]
  <2>1. PICK order \in {None, OrderOf[c]} :
          Pay(p, [reference |-> c, order |-> order, amount |-> AmountOf[c]])
    BY <1>1 DEF PayLink
  <2>2. [reference |-> c, order |-> order, amount |-> AmountOf[c]] \in Payment
    BY LiveAssumption DEF Payment, Orders
  <2> QED BY <2>1, <2>2 DEF Pay, TypeOK
<1>2. ASSUME NEW p \in Payments, NEW c \in Cases, PayOrder(c, p)
      PROVE  payments' \in [Payments -> Payment \cup {None}]
  <2>1. PICK amount \in {AmountOf[c], AmountOf[c] + 1} :
          Pay(p, [reference |-> None, order |-> OrderOf[c], amount |-> amount])
    BY <1>2 DEF PayOrder
  <2>2. amount \in Nat BY <2>1, LiveAssumption
  <2>3. [reference |-> None, order |-> OrderOf[c], amount |-> amount] \in Payment
    BY <2>2 DEF Payment, Orders
  <2> QED BY <2>1, <2>3 DEF Pay, TypeOK
<1>3. CASE UNCHANGED payments BY <1>3 DEF TypeOK
<1> QED
  BY <1>1, <1>2, <1>3
  DEF Next, vars, FailureWebhook, ApproveCase, Maintenance, MaintenanceAborts, Tick, SuccessWebhook

\* The other variables only count, and tables keep their domains.
LEMMA CountersType ==
  ASSUME TypeOK, [Next]_vars
  PROVE  /\ deliveries' \in [Payments -> Nat]
         /\ clock' \in Nat /\ aborts' \in Nat /\ approvals' \in Nat
         /\ poison' \in SUBSET Cases
         /\ rows' = [c \in Cases |-> rows'[c]]
         /\ effects' = [c \in Cases |-> effects'[c]]
<1> USE DEF TypeOK
<1>1. ASSUME NEW c \in Cases, FailureWebhook(c)
      PROVE  /\ UNCHANGED <<payments, deliveries, clock, approvals, poison>> /\ aborts' \in Nat
             /\ rows' = [d \in Cases |-> rows'[d]]
             /\ effects' = [d \in Cases |-> effects'[d]]
  BY <1>1 DEF FailureWebhook, Commit, Abort
<1>2. ASSUME NEW c \in Cases, ApproveCase(c)
      PROVE  /\ UNCHANGED <<payments, deliveries, clock, poison>>
             /\ aborts' \in Nat /\ approvals' \in Nat
             /\ rows' = [d \in Cases |-> rows'[d]]
             /\ effects' = [d \in Cases |-> effects'[d]]
  BY <1>2 DEF ApproveCase, Commit, Abort
<1>3. CASE Maintenance BY <1>3 DEF Maintenance
<1>4. CASE MaintenanceAborts BY <1>4 DEF MaintenanceAborts, Abort
<1>5. ASSUME NEW p \in Payments, SuccessWebhook(p)
      PROVE  /\ UNCHANGED <<effects, payments, clock, aborts, approvals, poison>>
             /\ deliveries' \in [Payments -> Nat]
             /\ rows' = [d \in Cases |-> rows'[d]]
  BY <1>5 DEF SuccessWebhook
<1>6. CASE Tick BY <1>6 DEF Tick
<1>7. CASE UNCHANGED <<rows, effects, deliveries, clock, aborts, approvals, poison>> BY <1>7
<1> QED
  BY <1>1, <1>2, <1>3, <1>4, <1>5, <1>6, <1>7 DEF Next, vars, PayLink, PayOrder, Pay

\* The state a handler leaves is a committed one.
LEMMA MovedState ==
  ASSUME NEW b, NEW row, Moved(b, row), b.state # "PROCESSING"
  PROVE  row.state \notin {"NEW", "PROCESSING"}
BY DEF Moved, AllowedTransitions

LEMMA NextInvariant == IInv /\ [Next]_vars => IInv'
<1> SUFFICES ASSUME IInv, [Next]_vars PROVE IInv'
  OBVIOUS
<1>1. TypeOK BY DEF IInv
<1>2. ASSUME NEW c \in Cases, rows'[c] # None
      PROVE  /\ Good(c, rows'[c], effects'[c], payments)
             /\ rows'[c].state \notin {"NEW", "PROCESSING"}
  <2>1. effects'[c] \in Nat /\ effects[c] \in Nat BY <1>1, CaseStep DEF TypeOK
  <2>2. CASE Untouched(c)
    <3>1. Good(c, rows[c], effects[c], payments) /\ rows[c].state \notin {"NEW", "PROCESSING"}
      BY <1>2, <2>2 DEF Untouched, IInv, CaseOK
    <3>2. Len(rows[c].actions) \in Nat BY <3>1 DEF Good, RowOK, CaseRow
    <3> QED BY <2>1, <2>2, <3>1, <3>2 DEF Untouched, Good
  <2>3. ASSUME NEW r, Serves(c, r)
        PROVE  /\ Good(c, rows'[c], effects'[c], payments)
               /\ rows'[c].state \notin {"NEW", "PROCESSING"}
    <3>1. Good(c, r.row, effects'[c], payments)
      BY <2>1, <2>3, BaseOK, AddedGood DEF Serves
    <3>2. Base(c).state # "PROCESSING" BY BaseOK DEF Base, NewCase
    <3> QED BY <2>3, <3>1, <3>2, MovedState DEF Serves
  <2>4. ASSUME NEW p, Credits(c, p)
        PROVE  /\ Good(c, rows'[c], effects'[c], payments)
               /\ rows'[c].state \notin {"NEW", "PROCESSING"}
    BY <2>4, CreditsGood
  <2> QED BY <2>2, <2>3, <2>4, CaseStep
<1>3. ASSUME NEW c \in Cases PROVE CaseOK(c)'
  BY <1>1, <1>2, GoodStays DEF CaseOK
<1>4. TypeOK'
  <2>1. \A c \in Cases : rows'[c] \in CaseRow \cup {None} BY <1>2 DEF Good, RowOK
  <2>2. \A c \in Cases : effects'[c] \in Nat BY CaseStep
  <2> QED BY <1>1, <2>1, <2>2, CountersType, PaymentsType DEF TypeOK
<1> QED BY <1>3, <1>4 DEF IInv

LEMMA Invariance == Spec => []IInv
BY InitInvariant, NextInvariant, PTL DEF Spec

-----------------------------------------------------------------------------

\* Rows, payments and counters are well formed, whatever is delivered, rolled
\* back or approved.
THEOREM TypeCorrect == Spec => []TypeOK
<1>1. IInv => TypeOK BY DEF IInv
<1> QED BY <1>1, Invariance, PTL

\* Every action on record was done, over any number of rollbacks, lost replies
\* and approvals.
THEOREM LedgerReal == Spec => []LedgerIsReal
<1>1. IInv => LedgerIsReal BY DEF IInv, CaseOK, Good, LedgerIsReal, Opened
<1> QED BY <1>1, Invariance, PTL

\* Nothing is credited but a payment that was made, of the case's amount, through
\* its link or on its order, however deliveries repeat and cases share orders.
THEOREM CreditReal == Spec => []CreditIsRealMoney
<1>1. IInv => CreditIsRealMoney
  <2> SUFFICES ASSUME IInv, NEW c \in Opened, NEW p \in CreditedTo(c, rows)
               PROVE  RealMoney(c, p, payments)
    BY DEF CreditIsRealMoney, RealMoney
  <2>1. Good(c, rows[c], effects[c], payments) BY DEF IInv, CaseOK, Opened
  <2> QED BY <2>1 DEF CreditedTo, Good
<1> QED BY <1>1, Invariance, PTL

LEMMA OpenedStep ==
  ASSUME IInv, [Next]_vars, IsFiniteSet(Opened)
  PROVE  IsFiniteSet(Opened')
<1> DEFINE Grows(d) == Opened' \subseteq Opened \cup {d}
<1>0. rows \in [Cases -> CaseRow \cup {None}] BY DEF IInv, TypeOK
<1>1. Opened' \subseteq Opened \/ \E d \in Cases : Grows(d)
  <2>1. ASSUME NEW d \in Cases, NEW r, rows' = [rows EXCEPT ![d] = r.row] PROVE Grows(d)
    BY <1>0, <2>1 DEF Opened
  <2>2. ASSUME rows' = rows PROVE Opened' \subseteq Opened BY <2>2 DEF Opened
  <2>3. ASSUME NEW d \in Cases, FailureWebhook(d) \/ ApproveCase(d)
        PROVE  Opened' \subseteq Opened \/ Grows(d)
    <3> HIDE DEF Grows
    <3> QED BY <2>1, <2>2, <2>3 DEF FailureWebhook, ApproveCase, Commit, Abort
  <2>4. CASE Maintenance BY <2>4 DEF Maintenance, Opened
  <2>5. CASE MaintenanceAborts
    <3> HIDE DEF Grows
    <3> QED BY <2>2, <2>5 DEF MaintenanceAborts, Abort
  <2>6. ASSUME NEW p \in Payments, SuccessWebhook(p) PROVE Opened' \subseteq Opened
    BY <1>0, <2>6 DEF SuccessWebhook, MatchOpenCase, Matchable, InState, Opened
  <2>7. CASE UNCHANGED rows BY <2>2, <2>7
  <2> HIDE DEF Grows
  <2> QED BY <2>3, <2>4, <2>5, <2>6, <2>7 DEF Next, vars, Tick, PayLink, PayOrder, Pay
<1>2. ASSUME NEW d, Grows(d) PROVE IsFiniteSet(Opened')
  <2>1. IsFiniteSet(Opened \cup {d}) BY FS_AddElement
  <2> QED BY <1>2, <2>1, FS_Subset
<1> HIDE DEF Grows
<1> QED BY <1>1, <1>2, FS_Subset

\* At any time finitely many cases have been opened.
LEMMA OpenedFinite == Spec => []IsFiniteSet(Opened)
<1>1. Init => IsFiniteSet(Opened)
  <2>1. Init => Opened = {} BY DEF Init, Opened
  <2> QED BY <2>1, FS_EmptySet
<1>2. IInv /\ IsFiniteSet(Opened) /\ [Next]_vars => IsFiniteSet(Opened)' BY OpenedStep
<1> QED BY <1>1, <1>2, Invariance, PTL DEF Spec

\* The books balance after every step, for any number of cases and however many
\* payments each of them got: a case counts once, as recovered or as at risk.
THEOREM BooksInvariant == Spec => []MoneyReconciles
<1>1. ASSUME IInv, IsFiniteSet(Opened) PROVE MoneyReconciles
  <2> DEFINE table == [c \in Opened |-> rows[c]]
  <2>1. ASSUME NEW c \in Opened
        PROVE  /\ AmountOf[c] \in Nat
               /\ Cardinality(InTime(rows[c]))
                    = (IF rows[c].state = "RECOVERED" THEN 1 ELSE 0)
    <3>1. CreditMatchesState(rows[c])
      BY <1>1 DEF IInv, CaseOK, Good, RowOK, Opened
    <3>2. CASE rows[c].state = "RECOVERED"
      <4>1. PICK i \in InTime(rows[c]) : TRUE BY <3>1, <3>2 DEF CreditMatchesState
      <4>2. InTime(rows[c]) = {i} BY <3>1, <4>1 DEF CreditMatchesState
      <4>3. Cardinality(InTime(rows[c])) = 1 BY <4>2, FS_Singleton
      <4> QED BY <3>2, <4>3, LiveAssumption DEF Opened
    <3>3. CASE rows[c].state # "RECOVERED"
      <4>1. InTime(rows[c]) = {} BY <3>1, <3>3 DEF CreditMatchesState
      <4>2. Cardinality(InTime(rows[c])) = 0 BY <4>1, FS_EmptySet
      <4> QED BY <3>3, <4>2, LiveAssumption DEF Opened
    <3> QED BY <3>2, <3>3
  <2>2. /\ DOMAIN table = Opened
        /\ \A c \in DOMAIN table :
             /\ AmountOf[c] \in Nat
             /\ Cardinality(InTime(table[c]))
                  = (IF table[c].state = "RECOVERED" THEN 1 ELSE 0)
    BY <2>1
  <2> HIDE DEF table
  <2>3. TotalRecovered(table, AmountOf) + AtRisk(table, AmountOf)
          = Worth(AmountOf, DOMAIN table)
    BY <1>1, <2>2, BooksBalance
  <2> QED BY <2>2, <2>3 DEF MoneyReconciles, Worth, table
<1> QED BY <1>1, Invariance, OpenedFinite, PTL

-----------------------------------------------------------------------------
(* Properties of steps.                                                    *)

\* A committed pass leaves every case it loads in order.
LEMMA PassStep ==
  ASSUME IInv, Maintenance, NEW c \in Cases
  PROVE  ~LeftOverdue(c)
<1> SUFFICES ASSUME rows[c] # None, rows'[c].state = "AWAITING_OUTCOME"
             PROVE  ~(rows'[c].deadline <= clock) /\ Ahead(rows'[c], clock)
                    /\ (rows'[c].deferred # None => ~(rows'[c].deferred <= clock))
  BY DEF LeftOverdue
<1>1. c \in Opened BY DEF Opened
<1>2. PICK f \in Passes : rows' = [d \in Cases |-> IF d \in Opened THEN f[d].row ELSE None]
  BY DEF Maintenance
<1>3. f[c] \in MaintainResults(rows[c], clock) /\ rows'[c] = f[c].row
  BY <1>1, <1>2 DEF Passes
<1>4. RowOK(rows[c]) /\ ~rows[c].synthetic /\ clock \in Nat
  BY DEF IInv, TypeOK, CaseOK, Good
<1>5. rows'[c].deadline > clock /\ Ahead(rows'[c], clock)
  BY <1>3, <1>4, MaintainAdds DEF RowOK
<1>6. rows'[c] \in CaseRow BY <1>3, <1>4, MaintainOK DEF RowOK
<1>7. rows'[c].deadline \in Nat /\ (rows'[c].deferred # None => rows'[c].deferred \in Nat)
  BY <1>6 DEF CaseRow
<1> QED BY <1>4, <1>5, <1>7 DEF Ahead

\* What a committed pass leaves open is neither overdue nor due: the sweep, the
\* requeue and the new deferrals together miss no case.
THEOREM PassInvariant == Spec => PassLeavesNothingOverdue
<1>1. IInv /\ [Next]_vars => [(\E c \in Cases : LeftOverdue(c)) => ~Maintenance]_vars
  BY PassStep
<1> QED BY <1>1, Invariance, PTL DEF Spec, PassLeavesNothingOverdue

\* Only a success webhook appends an outcome with a payment.
LEMMA ReferenceStep ==
  ASSUME IInv, [Next]_vars, NEW p \in Payments, NEW c \in Opened,
         Len(rows'[c].outcomes) > Len(rows[c].outcomes),
         rows'[c].outcomes[Len(rows'[c].outcomes)].payment = p
  PROVE  payments[p].reference \in {c, None} \cup (Cases \ Matchable)
<1> DEFINE n == Len(rows[c].outcomes)
<1>1. c \in Cases /\ rows[c] # None /\ Base(c) = rows[c] BY DEF Opened, Base
<1>2. rows[c].outcomes \in Seq(OutcomeRow) /\ n \in Nat
  <2>1. rows[c] \in CaseRow BY <1>1 DEF IInv, TypeOK
  <2> QED BY <2>1 DEF CaseRow
<1>3. CASE Untouched(c)
  BY <1>2, <1>3 DEF Untouched
<1>4. ASSUME NEW r, Serves(c, r) PROVE FALSE
  <2>1. CASE r.row.outcomes = rows[c].outcomes
    BY <1>2, <1>4, <2>1 DEF Serves
  <2>2. ASSUME NEW o \in OutcomeRow, o.payment = None, r.row.outcomes = Append(rows[c].outcomes, o)
        PROVE  FALSE
    <3>1. rows'[c].outcomes = Append(rows[c].outcomes, o) BY <1>4, <2>2 DEF Serves
    <3>2. rows'[c].outcomes[Len(rows'[c].outcomes)] = o BY <1>2, <3>1
    <3> QED BY <2>2, <3>2, PaymentsAssumption
  <2> QED BY <1>1, <1>4, <2>1, <2>2 DEF Serves, Added
<1>5. ASSUME NEW q, Credits(c, q)
      PROVE  payments[p].reference \in {c, None} \cup (Cases \ Matchable)
  <2> DEFINE o == Outcome("RECOVERED", q, rows[c].state = "LOST")
  <2>1. rows'[c].outcomes = Append(rows[c].outcomes, o) BY <1>1, <1>5, CreditsGood
  <2>2. q \in Payments /\ o.payment = q /\ o \in OutcomeRow
    BY <1>5 DEF Credits, Outcome, OutcomeRow
  <2> HIDE DEF o
  <2>3. rows'[c].outcomes[Len(rows'[c].outcomes)] = o BY <1>2, <2>1, <2>2
  <2>4. q = p BY <2>2, <2>3
  <2>5. payments[p].reference \in Cases \cup {None}
    BY <1>5, <2>2, <2>4 DEF Credits, IInv, TypeOK, Payment
  <2>6. payments[p].reference \in Matchable => payments[p].reference = c
    BY <1>5, <2>4 DEF Credits, MatchOpenCase
  <2> QED BY <2>5, <2>6
<1> QED BY <1>1, <1>3, <1>4, <1>5, CaseStep

\* A payment that names a case which can take it goes to no other.
THEOREM ReferenceInvariant == Spec => ReferenceWins
<1>1. IInv /\ [Next]_vars =>
        [\A p \in Payments, c \in Opened :
           (/\ Len(rows'[c].outcomes) > Len(rows[c].outcomes)
            /\ rows'[c].outcomes[Len(rows'[c].outcomes)].payment = p)
           => payments[p].reference \in {c, None} \cup (Cases \ Matchable)]_vars
  BY ReferenceStep
<1> QED BY <1>1, Invariance, PTL DEF Spec, ReferenceWins

-----------------------------------------------------------------------------
(* The abstract life cycle.                                                *)

StateOf(b)  == IF b = None THEN "ABSENT" ELSE b.state
CreditOf(b) == IF b = None THEN {} ELSE CreditIn(b)
LateOf(b)   == IF b = None THEN {} ELSE LateIn(b)

\* What may happen to one case in the abstract specification, between rows.
Abstract(b, d) ==
  \/ StateOf(d) = StateOf(b) /\ CreditOf(d) = CreditOf(b) /\ LateOf(d) = LateOf(b)
  \/ /\ StateOf(b) \in {"ABSENT", "AWAITING_OUTCOME"}
     /\ StateOf(d) \in AllowedTransitions["PROCESSING"]
     /\ CreditOf(d) = CreditOf(b) /\ LateOf(d) = LateOf(b)
  \/ /\ StateOf(b) = "ESCALATED_TO_HUMAN" /\ StateOf(d) = "AWAITING_OUTCOME"
     /\ CreditOf(d) = CreditOf(b) /\ LateOf(d) = LateOf(b)
  \/ /\ StateOf(b) = "AWAITING_OUTCOME" /\ StateOf(d) = "RECOVERED"
     /\ (\E p \in Payments : CreditOf(d) = {p}) /\ LateOf(d) = LateOf(b)
  \/ /\ StateOf(b) = "AWAITING_OUTCOME" /\ StateOf(d) = "LOST"
     /\ CreditOf(d) = CreditOf(b) /\ LateOf(d) = LateOf(b)
  \/ /\ StateOf(b) = "LOST" /\ StateOf(d) = "LOST"
     /\ (\E p \in Payments : LateOf(d) = LateOf(b) \cup {p}) /\ CreditOf(d) = CreditOf(b)

LEMMA AppendCredit ==
  ASSUME NEW b \in CaseRow, NEW d \in CaseRow, NEW o \in OutcomeRow,
         d.outcomes = Append(b.outcomes, o)
  PROVE  /\ o.type = "RECOVERED" /\ ~o.late => CreditOf(d) = CreditOf(b) \cup {o.payment}
         /\ o.type # "RECOVERED" \/ o.late => CreditOf(d) = CreditOf(b)
         /\ o.late => LateOf(d) = LateOf(b) \cup {o.payment}
         /\ ~o.late => LateOf(d) = LateOf(b)
<1>1. b # None /\ d # None BY LiveAssumption
<1> QED BY <1>1, OutcomeCredits DEF CreditOf, LateOf

\* Every step of the program is a step of the abstract life of each case.
LEMMA AbstractStep ==
  ASSUME IInv, [Next]_vars, NEW c \in Cases
  PROVE  Abstract(rows[c], rows'[c])
<1>1. CASE Untouched(c) BY <1>1 DEF Untouched, Abstract
<1>2. ASSUME NEW r, Serves(c, r) PROVE Abstract(rows[c], rows'[c])
  <2>1. /\ Base(c) \in CaseRow /\ r.row \in CaseRow /\ rows'[c] = r.row
        /\ Added(Base(c), r) /\ Moved(Base(c), r.row)
    BY <1>2, BaseOK DEF Serves, Good, RowOK
  <2>2. CreditOf(r.row) = CreditOf(Base(c)) /\ LateOf(r.row) = LateOf(Base(c))
    <3>1. CASE r.row.outcomes = Base(c).outcomes
      BY <2>1, <3>1, LiveAssumption DEF CreditOf, LateOf, CreditIn, LateIn, InTime, Late
    <3>2. ASSUME NEW o \in OutcomeRow, o.type # "RECOVERED", ~o.late,
                 r.row.outcomes = Append(Base(c).outcomes, o)
          PROVE  CreditOf(r.row) = CreditOf(Base(c)) /\ LateOf(r.row) = LateOf(Base(c))
      BY <2>1, <3>2, AppendCredit
    <3> QED BY <2>1, <3>1, <3>2 DEF Added
  <2>3. CASE rows[c] = None
    <3>1. Base(c) = NewCase(ProfileOf[c], clock) BY <2>3 DEF Base
    <3>2. Base(c).state = "NEW" /\ Base(c).outcomes = <<>> BY <3>1 DEF NewCase
    <3>3. CreditOf(Base(c)) = {} /\ LateOf(Base(c)) = {}
      BY <3>2 DEF CreditOf, LateOf, CreditIn, LateIn, InTime, Late
    <3>4. r.row.state \in AllowedTransitions["PROCESSING"] BY <2>1, <3>2 DEF Moved
    <3>5. r.row # None BY <2>1, LiveAssumption
    <3>6. CreditOf(rows[c]) = {} /\ LateOf(rows[c]) = {} /\ StateOf(rows[c]) = "ABSENT"
      BY <2>3 DEF CreditOf, LateOf, StateOf
    <3>7. StateOf(rows'[c]) = r.row.state BY <2>1, <3>5 DEF StateOf
    <3> QED BY <2>1, <2>2, <3>3, <3>4, <3>6, <3>7 DEF Abstract
  <2>4. CASE rows[c] # None
    <3>1. Base(c) = rows[c] /\ rows[c].state # "NEW" BY <2>4, BaseOK
    <3>2. r.row # None BY <2>1, LiveAssumption
    <3> QED BY <2>1, <2>2, <2>4, <3>1, <3>2 DEF Abstract, Moved, StateOf
  <2> QED BY <2>3, <2>4
<1>3. ASSUME NEW p, Credits(c, p) PROVE Abstract(rows[c], rows'[c])
  <2> DEFINE o == Outcome("RECOVERED", p, rows[c].state = "LOST")
  <2>1. /\ rows[c] # None /\ rows[c].state \in {"AWAITING_OUTCOME", "LOST"}
        /\ rows'[c].state = IF rows[c].state = "LOST" THEN "LOST" ELSE "RECOVERED"
        /\ rows'[c].outcomes = Append(rows[c].outcomes, o)
        /\ rows'[c] \in CaseRow /\ p \in Payments
    BY <1>3, CreditsGood DEF Good, RowOK, Credits
  <2>2. rows[c] \in CaseRow /\ CreditMatchesState(rows[c])
    BY <2>1 DEF IInv, CaseOK, Good, RowOK
  <2>3. o \in OutcomeRow /\ o.type = "RECOVERED" /\ o.payment = p
        /\ (rows[c].state = "LOST" => o.late) /\ (rows[c].state # "LOST" => ~o.late)
    BY <2>1 DEF Outcome, OutcomeRow
  <2>4. rows'[c] # None BY <2>1, LiveAssumption
  <2>5. InTime(rows[c]) = {} BY <2>1, <2>2 DEF CreditMatchesState
  <2>6. CreditOf(rows[c]) = {} BY <2>5 DEF CreditOf, CreditIn
  <2> HIDE DEF o
  <2>7. CASE rows[c].state = "LOST"
    <3>1. CreditOf(rows'[c]) = CreditOf(rows[c]) /\ LateOf(rows'[c]) = LateOf(rows[c]) \cup {p}
      BY <2>1, <2>2, <2>3, <2>7, AppendCredit
    <3> QED BY <2>1, <2>4, <2>7, <3>1 DEF Abstract, StateOf
  <2>8. CASE rows[c].state = "AWAITING_OUTCOME"
    <3>1. CreditOf(rows'[c]) = {p} /\ LateOf(rows'[c]) = LateOf(rows[c])
      BY <2>1, <2>2, <2>3, <2>6, <2>8, AppendCredit
    <3> QED BY <2>1, <2>4, <2>8, <3>1 DEF Abstract, StateOf
  <2> QED BY <2>1, <2>7, <2>8
<1> QED BY <1>1, <1>2, <1>3, CaseStep

\* What a good row shows is an abstract state.
LEMMA AbstractType ==
  ASSUME NEW c \in Cases, NEW b, NEW made, NEW paid,
         b = None \/ (Good(c, b, made, paid) /\ b.state \notin {"NEW", "PROCESSING"})
  PROVE  /\ StateOf(b) \in (CaseState \ {"NEW", "PROCESSING"}) \cup {"ABSENT"}
         /\ CreditOf(b) \subseteq Payments
         /\ LateOf(b) \subseteq Payments
<1>1. CASE b = None BY <1>1 DEF StateOf, CreditOf, LateOf, CreditIn, LateIn
<1>2. CASE b # None
  <2>1. b.state \in CaseState BY <1>2 DEF Good, RowOK, CaseRow
  <2>2. \A i \in InTime(b) \cup Late(b) : b.outcomes[i].payment \in Payments
    BY <1>2 DEF Good, RealMoney, InTime, Late
  <2> QED BY <1>2, <2>1, <2>2 DEF StateOf, CreditOf, LateOf, CreditIn, LateIn
<1> QED BY <1>1, <1>2

\* Every behaviour, with its rollbacks, repeated deliveries and passes over many
\* cases at once, keeps the abstract life cycle of every case; that open cases
\* close is left to the runs.
THEOREM LifecycleSafety == Spec => Lifecycle!Init /\ [][Lifecycle!Next]_(Lifecycle!vars)
<1>1. ASSUME Init PROVE Lifecycle!Init
  <2>1. rows = [c \in Cases |-> None]
    BY <1>1 DEF Init
  <2>2. \A c \in Cases : rows[c] = None
    BY <2>1
  <2>3. /\ [c \in Cases |-> StateOf(rows[c])] = [c \in Cases |-> "ABSENT"]
        /\ [c \in Cases |-> CreditOf(rows[c])] = [c \in Cases |-> {}]
        /\ [c \in Cases |-> LateOf(rows[c])] = [c \in Cases |-> {}]
    BY <2>2 DEF StateOf, CreditOf, LateOf, CreditIn, LateIn
  <2> QED BY <2>3 DEF Lifecycle!Init, Recorded, StateOf, CreditOf, LateOf, CreditIn, LateIn
<1>2. IInv /\ [Next]_vars => [Lifecycle!Next]_(Lifecycle!vars)
  <2> SUFFICES ASSUME IInv, [Next]_vars PROVE Lifecycle!Next
    OBVIOUS
  <2>1. ASSUME NEW c \in Cases
        PROVE  \/ Lifecycle!Stay(c) \/ Lifecycle!Work(c) \/ Lifecycle!Approve(c)
               \/ Lifecycle!Recover(c) \/ Lifecycle!Lose(c) \/ Lifecycle!CreditLate(c)
    <3>1. Abstract(rows[c], rows'[c]) BY AbstractStep
    <3> QED
      BY <3>1
      DEF Abstract, StateOf, CreditOf, LateOf, CreditIn, LateIn, Recorded, Lifecycle!Stay, Lifecycle!Work,
          Lifecycle!Approve, Lifecycle!Recover, Lifecycle!Lose, Lifecycle!CreditLate,
          Lifecycle!Moves, Lifecycle!AllowedTransitions, AllowedTransitions
  <2>2. IInv' BY NextInvariant
  <2>3. ASSUME NEW c \in Cases
        PROVE  /\ StateOf(rows'[c]) \in (CaseState \ {"NEW", "PROCESSING"}) \cup {"ABSENT"}
               /\ CreditOf(rows'[c]) \subseteq Payments
               /\ LateOf(rows'[c]) \subseteq Payments
    <3>1. \/ rows'[c] = None
          \/ /\ Good(c, rows'[c], effects'[c], payments')
             /\ rows'[c].state \notin {"NEW", "PROCESSING"}
      BY <2>2 DEF IInv, CaseOK
    <3> QED BY <3>1, AbstractType
  <2>4. Lifecycle!TypeOK'
    BY <2>3
    DEF Lifecycle!TypeOK, Lifecycle!CommittedState, Lifecycle!CaseState, CaseState,
        StateOf, CreditOf, LateOf, CreditIn, LateIn, Recorded
  <2> QED BY <2>1, <2>4 DEF Lifecycle!Next
<1> QED BY <1>1, <1>2, Invariance, PTL DEF Spec
=============================================================================
