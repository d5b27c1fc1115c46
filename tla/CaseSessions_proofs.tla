------------------------- MODULE CaseSessions_proofs -------------------------
(***************************************************************************)
(* Requests that overlap on one case, for every policy, every number of    *)
(* requests and every row they may find.  A handler lengthens the ledgers  *)
(* of the copy it works on by at most one entry each, so what Merge adds   *)
(* to the committed row is what the handler did.  Nothing is assumed of    *)
(* which requests overlap.                                                 *)
(***************************************************************************)
EXTENDS CaseSessions, CasePipeline_proofs, SequenceTheorems

(* What one handler does to the copy it works on.                          *)

Grown(old, new, Entries) == new = old \/ \E e \in Entries : new = Append(old, e)

\* An outcome that credits nothing.
Uncredited == {o \in OutcomeRow : o.type # "RECOVERED" /\ ~o.late}

\* Nothing is recorded that was not done: one action at most, counted once, and
\* for a live case one object at least was made at the gateway.
Recorded(c, r) ==
  \/ r.row.actions = c.actions /\ r.row.attempts = c.attempts
  \/ /\ \E a \in ExecutedAction : r.row.actions = Append(c.actions, a)
     /\ r.row.attempts = c.attempts + 1
     /\ ~c.synthetic => r.made >= 1

\* Who moves a case to a person asks for an approval, and the last approval is
\* taken only from a case that is then moved away.
Asks(c, w) ==
  IF w.state = "ESCALATED_TO_HUMAN"
  THEN w.pending = c.pending + 1 \/ (w.pending = c.pending /\ w.state = c.state)
  ELSE w.pending = c.pending \/ c.state = "ESCALATED_TO_HUMAN"

Handles(c, r) ==
  /\ r.row \in CaseRow /\ r.made \in Nat
  /\ r.row.synthetic = c.synthetic
  /\ Grown(c.outcomes, r.row.outcomes, OutcomeRow)
  /\ Recorded(c, r)
  /\ Asks(c, r.row)

\* A handler that is about no payment.
HandlesUnpaid(c, r) ==
  /\ Handles(c, r)
  /\ Grown(c.outcomes, r.row.outcomes, Uncredited)
  /\ c.state # "RECOVERED" => r.row.state # "RECOVERED"

\* A handler that appends an outcome and acts on nothing.
LEMMA OutcomeHandles ==
  ASSUME NEW c \in CaseRow, NEW d, NEW o \in OutcomeRow, NEW made \in Nat,
         d \in CaseRow, d.synthetic = c.synthetic, Asks(c, d),
         d.actions = c.actions, d.attempts = c.attempts, d.outcomes = Append(c.outcomes, o)
  PROVE  /\ Handles(c, Result(d, made))
         /\ o \in Uncredited /\ d.state # "RECOVERED" => HandlesUnpaid(c, Result(d, made))
BY DEF Handles, HandlesUnpaid, Recorded, Grown, Uncredited, Result

LEMMA AppendOutcomeType ==
  ASSUME NEW c \in CaseRow, NEW o \in OutcomeRow
  PROVE  Append(c.outcomes, o) \in Seq(OutcomeRow)
<1>1. c.outcomes \in Seq(OutcomeRow) BY DEF CaseRow
<1> QED BY <1>1

LEMMA EscalateHandles ==
  ASSUME NEW c \in CaseRow, NEW reason \in EscalationReasons,
         NEW made \in Nat
  PROVE  HandlesUnpaid(c, Result(EscalateCase(c, reason), made))
<1> DEFINE o == Outcome("ESCALATED", None, FALSE)
           d == EscalateCase(c, reason)
<1>1. o \in Uncredited BY DEF Outcome, OutcomeRow, Uncredited
<1>2. o \in OutcomeRow BY <1>1 DEF Uncredited
<1>3. Append(c.outcomes, o) \in Seq(OutcomeRow) BY <1>2, AppendOutcomeType
<1>4. d \in CaseRow
  <2>1. c.pending + 1 \in Nat BY DEF CaseRow
  <2> HIDE DEF o
  <2> QED BY <1>3, <2>1 DEF EscalateCase, CaseRow, CaseState, o
<1>5. /\ d.synthetic = c.synthetic /\ d.actions = c.actions /\ d.attempts = c.attempts
      /\ d.outcomes = Append(c.outcomes, o) /\ d.state # "RECOVERED"
      /\ Asks(c, d)
  BY DEF EscalateCase, CaseRow, Asks
<1> HIDE DEF d, o
<1> QED BY <1>1, <1>2, <1>4, <1>5, OutcomeHandles DEF d

LEMMA StopHandles ==
  ASSUME NEW c \in CaseRow, NEW reason \in StopReasons
  PROVE  HandlesUnpaid(c, Result(StopCase(c, reason), 0))
<1> DEFINE o == Outcome("STOPPED", None, FALSE)
           d == StopCase(c, reason)
<1>1. o \in Uncredited BY DEF Outcome, OutcomeRow, Uncredited
<1>2. o \in OutcomeRow BY <1>1 DEF Uncredited
<1>3. Append(c.outcomes, o) \in Seq(OutcomeRow) BY <1>2, AppendOutcomeType
<1>4. d \in CaseRow BY <1>3 DEF StopCase, CaseRow, CaseState
<1>5. /\ d.synthetic = c.synthetic /\ d.actions = c.actions /\ d.attempts = c.attempts
      /\ d.outcomes = Append(c.outcomes, o) /\ d.state # "RECOVERED"
      /\ Asks(c, d)
  BY DEF StopCase, CaseRow, Asks
<1> HIDE DEF d, o
<1> QED BY <1>1, <1>2, <1>4, <1>5, OutcomeHandles DEF d

LEMMA MarkLostHandles ==
  ASSUME NEW c \in CaseRow
  PROVE  HandlesUnpaid(c, Result(MarkLost(c), 0))
<1> DEFINE o == Outcome("LOST", None, FALSE)
           d == MarkLost(c)
<1>1. o \in Uncredited BY DEF Outcome, OutcomeRow, Uncredited
<1>2. o \in OutcomeRow BY <1>1 DEF Uncredited
<1>3. Append(c.outcomes, o) \in Seq(OutcomeRow) BY <1>2, AppendOutcomeType
<1>4. d \in CaseRow BY <1>3 DEF MarkLost, CaseRow, CaseState
<1>5. /\ d.synthetic = c.synthetic /\ d.actions = c.actions /\ d.attempts = c.attempts
      /\ d.outcomes = Append(c.outcomes, o) /\ d.state # "RECOVERED"
      /\ Asks(c, d)
  BY DEF MarkLost, CaseRow, Asks
<1> HIDE DEF d, o
<1> QED BY <1>1, <1>2, <1>4, <1>5, OutcomeHandles DEF d

LEMMA RecordRecoveryHandles ==
  ASSUME NEW c \in CaseRow, NEW p \in Payments
  PROVE  Handles(c, Result(RecordRecovery(c, p), 0))
<1> DEFINE o == Outcome("RECOVERED", p, c.state = "LOST")
           d == RecordRecovery(c, p)
<1>1. o \in OutcomeRow BY DEF Outcome, OutcomeRow
<1>2. Append(c.outcomes, o) \in Seq(OutcomeRow) BY <1>1, AppendOutcomeType
<1>3. d \in CaseRow
  <2>1. CASE c.state = "LOST" BY <1>2, <2>1 DEF RecordRecovery, CaseRow, CaseState
  <2>2. CASE c.state # "LOST" BY <1>2, <2>2 DEF RecordRecovery, CaseRow, CaseState
  <2> QED BY <2>1, <2>2
<1>4. /\ d.synthetic = c.synthetic /\ d.actions = c.actions /\ d.attempts = c.attempts
      /\ d.outcomes = Append(c.outcomes, o) /\ d.pending = c.pending
      /\ d.state = "RECOVERED" \/ d.state = "LOST"
  <2>1. CASE c.state = "LOST" BY <2>1 DEF RecordRecovery, CaseRow
  <2>2. CASE c.state # "LOST" BY <2>2 DEF RecordRecovery, CaseRow
  <2> QED BY <2>1, <2>2
<1> HIDE DEF d, o
<1>5. Asks(c, d) BY <1>4 DEF Asks
<1> QED BY <1>1, <1>3, <1>4, <1>5, OutcomeHandles DEF d

LEMMA DeferHandles ==
  ASSUME NEW c \in CaseRow, NEW now \in Nat, ResumeCandidates(c, now) # {}
  PROVE  HandlesUnpaid(c, Result(DeferCase(c, now), 0))
<1> DEFINE d == DeferCase(c, now)
<1>1. Max(ResumeCandidates(c, now)) \in Nat BY ResumeCandidatesMax
<1>2. d \in CaseRow BY <1>1 DEF DeferCase, CaseRow, CaseState
<1>3. /\ d.synthetic = c.synthetic /\ d.actions = c.actions /\ d.attempts = c.attempts
      /\ d.outcomes = c.outcomes /\ d.state # "RECOVERED"
      /\ Asks(c, d)
  BY DEF DeferCase, CaseRow, Asks
<1> HIDE DEF d
<1>4. HandlesUnpaid(c, Result(d, 0))
  BY <1>2, <1>3 DEF HandlesUnpaid, Handles, Recorded, Grown, Result
<1> QED BY <1>4 DEF d

LEMMA RecordHandles ==
  ASSUME NEW c \in CaseRow, NEW type \in ExecutingActions, NEW now \in Nat,
         NEW by \in {"agent", "human"}, NEW made \in Nat,
         ~c.synthetic => made >= 1
  PROVE  /\ HandlesUnpaid(c, Result(RecordAction(c, type, now, by), made))
         /\ RecordAction(c, type, now, by).state = "AWAITING_OUTCOME"
<1> DEFINE d == RecordAction(c, type, now, by)
           a == Action(type, now, by)
<1>1. a \in ExecutedAction BY DEF Action, ExecutedAction
<1>2. Append(c.actions, a) \in Seq(ExecutedAction)
  <2>1. c.actions \in Seq(ExecutedAction) BY DEF CaseRow
  <2> HIDE DEF a
  <2> QED BY <1>1, <2>1
<1>3. d \in CaseRow
  <2>1. /\ c.attempts + 1 \in Nat
        /\ (IF type = "send_payment_link" THEN c.messages + 1 ELSE c.messages) \in Nat
    BY DEF CaseRow
  <2> QED BY <1>2, <2>1 DEF RecordAction, CaseRow, CaseState
<1>4. /\ d.synthetic = c.synthetic /\ d.actions = Append(c.actions, a)
      /\ d.attempts = c.attempts + 1
      /\ d.outcomes = c.outcomes /\ d.state = "AWAITING_OUTCOME"
      /\ Asks(c, d)
  BY DEF RecordAction, CaseRow, Asks
<1> HIDE DEF d, a
<1>5. HandlesUnpaid(c, Result(d, made))
  BY <1>1, <1>3, <1>4 DEF HandlesUnpaid, Handles, Recorded, Grown, Result
<1> QED BY <1>4, <1>5 DEF d

\* The calls of the client, as the ledger sees them.
LEMMA CallRecorded ==
  ASSUME NEW simulated, NEW call \in ClientCalls(simulated)
  PROVE  /\ call.made \in Nat
         /\ call.ok /\ ~simulated => call.made >= 1
BY LostRepliesAssumption DEF ClientCalls, LiveReplies

\* process_case, on whatever copy it is given.
LEMMA ProcessHandles ==
  ASSUME NEW c \in CaseRow, NEW now \in Nat, NEW r \in ProcessResults(c, now)
  PROVE  HandlesUnpaid(c, r)
<1> DEFINE q == [c EXCEPT !.deferred = None, !.state = "PROCESSING"]
<1>1. q \in CaseRow BY DEF CaseRow, CaseState
<1>2. /\ q.actions = c.actions /\ q.outcomes = c.outcomes /\ q.synthetic = c.synthetic
      /\ q.attempts = c.attempts /\ q.pending = c.pending /\ q.state = "PROCESSING"
  BY DEF CaseRow
<1>3. PICK diagnosis \in Diagnoses(c) : r \in DecideResults(q, diagnosis, now)
  BY DEF ProcessResults
<1> HIDE DEF q
<1>4. HandlesUnpaid(q, r) => HandlesUnpaid(c, r)
  BY <1>2 DEF HandlesUnpaid, Handles, Recorded, Asks
<1>5. HandlesUnpaid(q, r)
  <2>1. CASE diagnosis = "unavailable"
    <3>1. r = Result(EscalateCase(q, "diagnosis_unavailable"), 0)
      BY <1>3, <2>1 DEF DecideResults
    <3>2. "diagnosis_unavailable" \in EscalationReasons BY DEF EscalationReasons
    <3> QED BY <1>1, <3>1, <3>2, EscalateHandles
  <2>2. CASE diagnosis # "unavailable"
    <3>1. PICK p \in Decide(q, now, diagnosis) : r \in GateResults(q, p, now)
      BY <1>3, <2>2 DEF DecideResults
    <3> DEFINE broken == CheckGuardrails(q, p, now)
    <3>2. CASE broken # {}
      <4>1. r = Result(BlockedCase(q, broken, now), 0) BY <3>1, <3>2 DEF GateResults
      <4>2. {"guardrail_block", "timing_block"} \subseteq EscalationReasons
        BY DEF EscalationReasons
      <4> HIDE DEF broken
      <4> QED
        BY <1>1, <4>1, <4>2, EscalateHandles, DeferHandles
        DEF BlockedCase
    <3>3. CASE broken = {}
      <4>1. r \in ExecuteResults(q, p, now) BY <3>1, <3>3 DEF GateResults
      <4>2. CASE p.action = "stop"
        <5>1. r = Result(StopCase(q, p.reason), 0)
          BY <4>1, <4>2 DEF ExecuteResults, ExecutingActions
        <5> QED BY <1>1, <3>1, <4>2, <5>1, CandidateShape, StopHandles
      <4>3. CASE p.action = "escalate_human"
        <5>1. r = Result(EscalateCase(q, p.reason), 0)
          BY <4>1, <4>3 DEF ExecuteResults, ExecutingActions
        <5> QED
          BY <1>1, <3>1, <4>3, <5>1, CandidateShape, EscalateHandles
      <4>4. CASE p.action \in ExecutingActions
        <5>1. PICK call \in ClientCalls(q.synthetic) :
                r = Result(IF call.ok THEN RecordAction(q, p.action, now, "agent")
                                      ELSE EscalateCase(q, "execution_failed"), call.made)
          BY <4>1, <4>4 DEF ExecuteResults, ExecutingActions
        <5>2. "execution_failed" \in EscalationReasons BY DEF EscalationReasons
        <5>3. CASE call.ok
          BY <1>1, <4>4, <5>1, <5>3, CallRecorded, RecordHandles
        <5>4. CASE ~call.ok
          BY <1>1, <5>1, <5>2, <5>4, CallRecorded, EscalateHandles
        <5> QED BY <5>3, <5>4
      <4> QED BY <3>1, <4>2, <4>3, <4>4, CandidateShape
    <3> QED BY <3>2, <3>3
  <2> QED BY <2>1, <2>2
<1> QED BY <1>4, <1>5

\* approve_and_send.
LEMMA ApproveHandles ==
  ASSUME NEW c \in CaseRow, NEW now \in Nat, NEW r \in ApproveResults(c, now)
  PROVE  HandlesUnpaid(c, r)
<1> DEFINE q == [c EXCEPT !.pending = @ - 1]
<1>1. c.state = "ESCALATED_TO_HUMAN" /\ c.pending > 0 BY DEF ApproveResults
<1>2. PICK call \in ClientCalls(FALSE) :
        r = Result(IF call.ok THEN RecordAction(q, ApprovedAction(c), now, "human") ELSE c,
                   call.made)
  BY <1>1 DEF ApproveResults
<1>3. q \in CaseRow
  <2>1. c.pending - 1 \in Nat BY <1>1 DEF CaseRow
  <2> QED BY <2>1 DEF CaseRow
<1>4. /\ q.actions = c.actions /\ q.outcomes = c.outcomes /\ q.synthetic = c.synthetic
      /\ q.state = c.state /\ q.attempts = c.attempts
  BY DEF CaseRow
<1> HIDE DEF q
<1>5. ApprovedAction(c) \in ExecutingActions BY DEF ApprovedAction, ExecutingActions
<1>6. CASE call.ok
  <2>1. HandlesUnpaid(q, r) /\ r.row.state = "AWAITING_OUTCOME"
    BY <1>2, <1>3, <1>5, <1>6, CallRecorded, RecordHandles DEF Result
  <2>2. Asks(c, r.row) BY <1>1, <2>1 DEF Asks
  <2> QED BY <1>4, <2>1, <2>2 DEF HandlesUnpaid, Handles, Recorded
<1>7. CASE ~call.ok
  BY <1>1, <1>2, <1>7, CallRecorded DEF HandlesUnpaid, Handles, Recorded, Grown, Asks, Result
<1> QED BY <1>6, <1>7

\* The maintenance pass, on the case it came to.
LEMMA MaintainHandles ==
  ASSUME NEW c \in CaseRow, NEW now \in Nat, NEW r \in MaintainResults(c, now)
  PROVE  HandlesUnpaid(c, r)
<1>1. CASE r = Result(c, 0)
  BY <1>1 DEF HandlesUnpaid, Handles, Recorded, Grown, Asks, Result
<1>2. CASE r = Result(MarkLost(c), 0) BY <1>2, MarkLostHandles
<1>3. CASE r \in ProcessResults(c, now) BY <1>3, ProcessHandles
<1> QED BY <1>1, <1>2, <1>3 DEF MaintainResults

-----------------------------------------------------------------------------
(* What the UPDATE and the INSERTs of a session make of the committed row. *)

\* The rows a session inserts come after those that others have.
Inserted(committed, read, written) ==
  committed \o SubSeq(written, Len(read) + 1, Len(written))

LEMMA InsertsNone ==
  ASSUME NEW S, NEW old \in Seq(S), NEW committed \in Seq(S)
  PROVE  Inserted(committed, old, old) = committed
<1>1. Len(old) \in Nat OBVIOUS
<1>2. SubSeq(old, Len(old) + 1, Len(old)) = <<>> BY <1>1, SubSeqEmpty
<1> QED BY <1>2, ConcatEmptySeq DEF Inserted

LEMMA InsertsOne ==
  ASSUME NEW S, NEW old \in Seq(S), NEW committed \in Seq(S), NEW e \in S
  PROVE  Inserted(committed, old, Append(old, e)) = Append(committed, e)
<1> DEFINE new   == Append(old, e)
           added == SubSeq(new, Len(old) + 1, Len(new))
<1>1. Len(old) \in Nat /\ Len(new) = Len(old) + 1 /\ new[Len(old) + 1] = e OBVIOUS
<1>2. added \in Seq(S) /\ Len(added) = 1 /\ added[1] = e
  BY <1>1, SubSeqProperties
<1>3. PICK merged : merged = Inserted(committed, old, new) /\ merged = committed \o added
  BY DEF Inserted
<1> HIDE DEF added, new
<1>4. PICK n \in Nat : n = Len(committed) OBVIOUS
<1>5. /\ merged \in Seq(S) /\ Len(merged) = n + 1
      /\ \A i \in 1 .. n + 1 :
           merged[i] = IF i <= n THEN committed[i] ELSE added[i - n]
  <2>1. /\ committed \o added \in Seq(S)
        /\ Len(committed \o added) = Len(committed) + Len(added)
        /\ \A i \in 1 .. Len(committed) + Len(added) :
             (committed \o added)[i] = IF i <= Len(committed) THEN committed[i]
                                       ELSE added[i - Len(committed)]
    BY <1>2, ConcatProperties, Zenon
  <2> QED BY <1>2, <1>3, <1>4, <2>1, Zenon
<1>6. /\ Append(committed, e) \in Seq(S) /\ Len(Append(committed, e)) = n + 1
      /\ \A i \in 1 .. n : Append(committed, e)[i] = committed[i]
      /\ Append(committed, e)[n + 1] = e
  BY <1>4
<1>7. \A i \in 1 .. n + 1 : merged[i] = Append(committed, e)[i]
  <2>1. ASSUME NEW i \in 1 .. n + 1, i \in 1 .. n PROVE merged[i] = Append(committed, e)[i]
    <3>1. i <= n BY <2>1
    <3>2. merged[i] = committed[i] BY <1>5, <3>1
    <3> QED BY <1>6, <2>1, <3>2
  <2>2. merged[n + 1] = e
    <3>1. n + 1 \in 1 .. n + 1 /\ ~(n + 1 <= n) /\ (n + 1) - n = 1 OBVIOUS
    <3>2. merged[n + 1] = added[(n + 1) - n] BY <1>5, <3>1
    <3> QED BY <1>2, <3>1, <3>2
  <2>3. \A i \in 1 .. n + 1 : i \in 1 .. n \/ i = n + 1 OBVIOUS
  <2> QED BY <1>6, <2>1, <2>2, <2>3
<1> QED BY <1>3, <1>5, <1>6, <1>7, SeqEqual DEF new

\* The entries a handler appended to its copy are the ones it inserts.
LEMMA GrownInserts ==
  ASSUME NEW S, NEW old \in Seq(S), NEW new, NEW Entries \in SUBSET S,
         Grown(old, new, Entries), NEW committed \in Seq(S)
  PROVE  LET merged == Inserted(committed, old, new)
         IN  /\ merged \in Seq(S)
             /\ Grown(committed, merged, Entries)
             /\ committed = old => merged = new
<1> DEFINE merged == Inserted(committed, old, new)
<1>1. CASE new = old
  <2>1. merged = committed BY <1>1, InsertsNone
  <2> HIDE DEF merged
  <2> QED BY <1>1, <2>1 DEF Grown, merged
<1>2. CASE new # old
  <2>1. PICK e \in Entries : new = Append(old, e) BY <1>2 DEF Grown
  <2>2. merged = Append(committed, e) BY <2>1, InsertsOne
  <2>3. Append(committed, e) \in Seq(S) BY <2>1
  <2> HIDE DEF merged
  <2> QED BY <2>1, <2>2, <2>3 DEF Grown, merged
<1> QED BY <1>1, <1>2

Columns ==
  {"flow", "code", "optIn", "orderRef", "synthetic", "state", "attempts", "messages",
   "lastAction", "deadline", "deferred", "pending", "reason", "actions", "outcomes"}

LEMMA RowColumns ==
  ASSUME NEW c \in CaseRow
  PROVE  DOMAIN c = Columns
BY DEF CaseRow, Columns

LEMMA RowOf ==
  ASSUME NEW m, m = [f \in Columns |-> m[f]],
         m.flow \in Flows, m.code \in Codes, m.optIn \in SUBSET {"sms", "whatsapp"},
         m.orderRef \in BOOLEAN, m.synthetic \in BOOLEAN,
         m.state \in CaseState, m.attempts \in Nat, m.messages \in Nat,
         m.lastAction \in Nat \cup {None}, m.deadline \in Nat, m.deferred \in Nat \cup {None},
         m.pending \in Nat,
         m.reason \in StopReasons \cup EscalationReasons \cup {"ttl_elapsed", None},
         m.actions \in Seq(ExecutedAction), m.outcomes \in Seq(OutcomeRow)
  PROVE  m \in CaseRow
BY DEF CaseRow, Columns

\* A count that went down is never written as less than none.
LEMMA MaxWithZero ==
  ASSUME NEW x \in Int
  PROVE  Max({0, x}) = IF x >= 0 THEN x ELSE 0
<1> DEFINE S == {0, x}
           biggest == IF x >= 0 THEN x ELSE 0
<1>1. biggest \in S /\ \A y \in S : biggest >= y OBVIOUS
<1>2. Max(S) \in S /\ \A y \in S : Max(S) >= y BY <1>1 DEF Max
<1> QED BY <1>1, <1>2

Merged(m, committed, read, written, flushed) ==
  /\ m = [f \in Columns |-> m[f]]
  /\ m.actions = Inserted(committed.actions, read.actions, written.actions)
  /\ m.outcomes = Inserted(committed.outcomes, read.outcomes, written.outcomes)
  /\ m.pending = Max({0, committed.pending + written.pending - read.pending})
  /\ \A f \in Columns \ {"actions", "outcomes", "pending"} :
       m[f] = IF written[f] # read[f] \/ f \in flushed THEN written[f] ELSE committed[f]

LEMMA MergeColumns ==
  ASSUME NEW committed \in CaseRow, NEW read, NEW written, NEW flushed
  PROVE  Merged(Merge(committed, read, written, flushed), committed, read, written, flushed)
BY RowColumns DEF Merge, Merged, Inserted, Columns

\* The ledger gets the action a handler recorded, and nothing else.
Adds(m, committed, read, written) ==
  \/ m.actions = committed.actions /\ written.actions = read.actions
  \/ /\ \E a \in ExecutedAction : /\ m.actions = Append(committed.actions, a)
                                  /\ written.actions = Append(read.actions, a)
     /\ written.attempts = read.attempts + 1

\* The columns that the invariants are about.
Updated(m, committed, read, written, flushed) ==
  /\ \A f \in {"state", "attempts"} :
       m[f] = IF written[f] # read[f] \/ f \in flushed THEN written[f] ELSE committed[f]
  /\ LET n == committed.pending + written.pending - read.pending
     IN  m.pending = IF n >= 0 THEN n ELSE 0

\* Written over whatever has been committed since, a handler's row is a row; its
\* ledgers have what the handler appended after what others committed.
LEMMA MergeType ==
  ASSUME NEW committed \in CaseRow, NEW read \in CaseRow, NEW r, Handles(read, r),
         NEW flushed, NEW m, m = Merge(committed, read, r.row, flushed)
  PROVE  /\ m \in CaseRow
         /\ Adds(m, committed, read, r.row)
         /\ m.synthetic \in {committed.synthetic, read.synthetic}
         /\ Updated(m, committed, read, r.row, flushed)
<1>0. PICK w : w = r.row /\ m = Merge(committed, read, w, flushed) OBVIOUS
<1>1. w \in CaseRow /\ r.made \in Nat BY <1>0 DEF Handles
<1>2. /\ committed.actions \in Seq(ExecutedAction) /\ committed.outcomes \in Seq(OutcomeRow)
      /\ read.actions \in Seq(ExecutedAction) /\ read.outcomes \in Seq(OutcomeRow)
      /\ committed.pending \in Nat /\ read.pending \in Nat /\ w.pending \in Nat
  BY <1>1 DEF CaseRow
<1>3. Merged(m, committed, read, w, flushed) BY <1>0, MergeColumns
<1>4. w.synthetic = read.synthetic BY <1>0 DEF Handles
<1>5. \A f \in Columns \ {"actions", "outcomes", "pending"} : m[f] \in {w[f], committed[f]}
  BY <1>3 DEF Merged
<1>6. Grown(read.outcomes, w.outcomes, OutcomeRow) BY <1>0 DEF Handles
<1>7. m.outcomes \in Seq(OutcomeRow)
  <2>1. m.outcomes = Inserted(committed.outcomes, read.outcomes, w.outcomes) BY <1>3 DEF Merged
  <2> QED BY <1>2, <1>6, <2>1, GrownInserts
<1>8. m.actions = Inserted(committed.actions, read.actions, w.actions) BY <1>3 DEF Merged
<1>9. /\ w.actions = read.actions => m.actions = committed.actions
      /\ \A a \in ExecutedAction :
           w.actions = Append(read.actions, a) => m.actions = Append(committed.actions, a)
  <2>1. w.actions = read.actions => m.actions = committed.actions
    BY <1>2, <1>8, InsertsNone, Zenon
  <2>2. ASSUME NEW a \in ExecutedAction, w.actions = Append(read.actions, a)
        PROVE  m.actions = Append(committed.actions, a)
    <3>1. Inserted(committed.actions, read.actions, Append(read.actions, a))
            = Append(committed.actions, a)
      BY <1>2, InsertsOne
    <3> QED BY <1>8, <2>2, <3>1, Zenon
  <2> QED BY <2>1, <2>2
<1>10. Adds(m, committed, read, w)
  BY <1>0, <1>9 DEF Handles, Recorded, Adds
<1>11. m.actions \in Seq(ExecutedAction)
  <2>1. ASSUME NEW a \in ExecutedAction
        PROVE  Append(committed.actions, a) \in Seq(ExecutedAction)
    BY <1>2
  <2> QED BY <1>2, <1>10, <2>1, Zenon DEF Adds
<1>12. /\ m.pending \in Nat
       /\ m.pending = LET n == committed.pending + w.pending - read.pending
                      IN  IF n >= 0 THEN n ELSE 0
  <2>1. committed.pending + w.pending - read.pending \in Int BY <1>2
  <2> QED BY <1>3, <2>1, MaxWithZero DEF Merged
<1>13. /\ m.flow \in Flows /\ m.code \in Codes /\ m.optIn \in SUBSET {"sms", "whatsapp"}
       /\ m.orderRef \in BOOLEAN /\ m.synthetic \in BOOLEAN
       /\ m.state \in CaseState /\ m.attempts \in Nat /\ m.messages \in Nat
       /\ m.lastAction \in Nat \cup {None} /\ m.deadline \in Nat
       /\ m.deferred \in Nat \cup {None}
       /\ m.reason \in StopReasons \cup EscalationReasons \cup {"ttl_elapsed", None}
  BY <1>1, <1>5 DEF Columns, CaseRow
<1>14. m \in CaseRow BY <1>3, <1>7, <1>11, <1>12, <1>13, RowOf DEF Merged
<1>15. m.synthetic \in {committed.synthetic, read.synthetic}
  BY <1>4, <1>5 DEF Columns
<1>16. \A f \in {"state", "attempts"} :
         m[f] = IF w[f] # read[f] \/ f \in flushed THEN w[f] ELSE committed[f]
  BY <1>3 DEF Merged, Columns
<1>17. Updated(m, committed, read, w, flushed) BY <1>12, <1>16 DEF Updated
<1> QED BY <1>0, <1>10, <1>14, <1>15, <1>17

LEMMA MergeOutcomes ==
  ASSUME NEW committed \in CaseRow, NEW read \in CaseRow, NEW r, Handles(read, r),
         NEW flushed, NEW Entries \in SUBSET OutcomeRow,
         Grown(read.outcomes, r.row.outcomes, Entries)
  PROVE  Grown(committed.outcomes, Merge(committed, read, r.row, flushed).outcomes, Entries)
<1>1. committed.outcomes \in Seq(OutcomeRow) /\ read.outcomes \in Seq(OutcomeRow)
  BY DEF CaseRow
<1>2. PICK w, m : w = r.row /\ m = Merge(committed, read, w, flushed) OBVIOUS
<1>3. Merged(m, committed, read, w, flushed) BY <1>2, MergeColumns
<1>4. m.outcomes = Inserted(committed.outcomes, read.outcomes, w.outcomes) BY <1>3 DEF Merged
<1> QED BY <1>1, <1>2, <1>4, GrownInserts

-----------------------------------------------------------------------------
(* What a step does: a request moves, reads the row, runs its handler,      *)
(* commits what the handler left, or records a payment.                     *)

\* What a session that works on the row holds: a pass took the case while it
\* waited, and what a called session will write is what a handler made of its copy.
Held ==
  \A s \in Sessions :
    /\ s \in Passes /\ pc[s] \in {"due", "calling", "called"} =>
         copy[s].state = "AWAITING_OUTCOME"
    /\ pc[s] = "called" => \E made \in Nat : HandlesUnpaid(copy[s], Result(work[s], made))

Idles(s) ==
  /\ UNCHANGED <<row, effects, copy, work, loop>>
  /\ \E label \in Labels \ {"called", "matched"} :
       /\ pc' = [pc EXCEPT ![s] = label]
       /\ s \in Passes /\ label \in {"due", "calling"} => copy[s].state = "AWAITING_OUTCOME"

Reads(s) ==
  /\ pc[s] = "waiting"
  /\ copy' = [copy EXCEPT ![s] = row] /\ UNCHANGED <<row, effects, work>>
  /\ \/ /\ s \in Successes /\ row.state \in MatchedStates
        /\ pc' = [pc EXCEPT ![s] = "matched"] /\ loop = None /\ loop' = s
     \/ /\ \E label \in {"loaded", "due", "done"} :
             /\ pc' = [pc EXCEPT ![s] = label]
             /\ s \in Passes /\ label = "due" => row.state = "AWAITING_OUTCOME"
        /\ loop' = loop

Calls(s) ==
  /\ pc[s] = "calling" /\ pc' = [pc EXCEPT ![s] = "called"]
  /\ \E r : /\ HandlesUnpaid(copy[s], r)
            /\ work' = [work EXCEPT ![s] = r.row] /\ effects' = effects + r.made
  /\ UNCHANGED <<row, copy, loop>>

Commits(s, flushed) ==
  /\ pc[s] = "called" /\ pc' = [pc EXCEPT ![s] = "done"]
  /\ row' = Merge(row, copy[s], work[s], flushed)
  /\ flushed = {} \/ (flushed = {"state", "deferred"} /\ copy[s].state = "AWAITING_OUTCOME")
  /\ UNCHANGED <<effects, copy, work, loop>>

Pays(s) ==
  /\ s \in Successes /\ pc[s] = "matched" /\ pc' = [pc EXCEPT ![s] = "done"]
  /\ row' = Merge(row, copy[s], RecordRecovery(copy[s], PaymentOf[s]), {})
  /\ loop' = None /\ UNCHANGED <<effects, copy, work>>

StepShape ==
  /\ {rowLock', approvalLock', loop'} \subseteq Sessions \cup {None}
  /\ \/ UNCHANGED <<row, effects, copy, work, pc, loop>>
     \/ \E s \in Sessions :
          Idles(s) \/ Reads(s) \/ Calls(s) \/ Pays(s) \/ \E flushed : Commits(s, flushed)

\* A request is of one kind.
LEMMA SessionKinds ==
  /\ \A s \in Approvals : s \in Sessions /\ s \notin Passes /\ s \notin Successes
  /\ \A s \in Passes : s \in Sessions /\ s \notin Approvals /\ s \notin Successes
  /\ \A s \in Successes : s \in Sessions /\ s \notin Approvals /\ s \notin Passes
  /\ Failures \subseteq Sessions
BY SessionAssumption DEF Sessions

LEMMA RollBackIdles ==
  ASSUME TypeOK, NEW s \in Sessions, RollBack(s)
  PROVE  StepShape
<1>1. "done" \in Labels \ {"called", "matched"} BY DEF Labels
<1>2. Idles(s) BY <1>1 DEF RollBack, Goto, Idles
<1>3. {rowLock', approvalLock', loop'} \subseteq Sessions \cup {None}
  BY DEF TypeOK, RollBack, Release
<1> QED BY <1>2, <1>3 DEF StepShape

\* Every step is of one of these kinds.
LEMMA Shape ==
  ASSUME TypeOK, Held, [Next]_vars
  PROVE  StepShape
<1> USE DEF TypeOK
<1>0. Instant \in Nat BY SessionAssumption
<1>1. ASSUME NEW s \in Approvals, Approving(s) PROVE StepShape
  <2>0. s \in Sessions /\ s \notin Passes /\ copy[s] \in CaseRow BY SessionKinds
  <2>1. CASE ApproveLoads(s)
    <3>1. Reads(s) BY <2>0, <2>1 DEF ApproveLoads, Load, Goto, Reads
    <3> QED BY <2>0, <2>1, <3>1 DEF ApproveLoads, StepShape
  <2>2. CASE ApproveFlushes(s)
    <3>1. Idles(s) BY <2>0, <2>2 DEF ApproveFlushes, Goto, Idles, Labels
    <3> QED BY <2>0, <2>2, <3>1 DEF ApproveFlushes, StepShape
  <2>3. CASE ApproveCalls(s)
    <3>1. \A r \in ApproveResults(copy[s], Instant) : HandlesUnpaid(copy[s], r)
      BY <1>0, <2>0, ApproveHandles
    <3>2. Calls(s) BY <2>3, <3>1 DEF ApproveCalls, Handle, Goto, Calls
    <3> QED BY <2>0, <2>3, <3>2 DEF ApproveCalls, Handle, StepShape
  <2>4. CASE ApproveCommits(s)
    <3>1. Commits(s, {}) BY <2>4 DEF ApproveCommits, CommitWork, Goto, Commits
    <3>2. {rowLock', approvalLock', loop'} \subseteq Sessions \cup {None}
      BY <2>4 DEF ApproveCommits, CommitWork, Release
    <3> QED BY <2>0, <3>1, <3>2 DEF StepShape
  <2> QED BY <1>1, <2>0, <2>1, <2>2, <2>3, <2>4, RollBackIdles DEF Approving
<1>2. ASSUME NEW s \in Passes, Maintaining(s) PROVE StepShape
  <2>0. s \in Sessions /\ copy[s] \in CaseRow BY SessionKinds
  <2>1. CASE PassLoads(s)
    <3>1. Reads(s) BY <2>0, <2>1 DEF PassLoads, Load, Goto, Reads, Overdue
    <3> QED BY <2>0, <2>1, <3>1 DEF PassLoads, StepShape
  <2>2. CASE PassSelects(s)
    <3>1. PICK label \in {"due", "done"} :
            /\ pc' = [pc EXCEPT ![s] = label]
            /\ label = "due" => copy[s].state = "AWAITING_OUTCOME"
      BY <2>2 DEF PassSelects, Goto
    <3>2. label \in Labels \ {"called", "matched"} BY <3>1 DEF Labels
    <3>3. UNCHANGED <<row, effects, copy, work, loop>> BY <2>2 DEF PassSelects
    <3>4. s \in Passes /\ label \in {"due", "calling"} => copy[s].state = "AWAITING_OUTCOME"
      BY <3>1
    <3>5. Idles(s) BY <3>1, <3>2, <3>3, <3>4, Zenon DEF Idles
    <3> QED BY <2>0, <2>2, <3>5 DEF PassSelects, StepShape
  <2>3. CASE PassFlushes(s)
    <3>1. copy[s].state = "AWAITING_OUTCOME" BY <2>0, <2>3 DEF PassFlushes, Held
    <3>2. "calling" \in Labels \ {"called", "matched"} BY DEF Labels
    <3>3. pc' = [pc EXCEPT ![s] = "calling"] /\ UNCHANGED <<row, effects, copy, work, loop>>
      BY <2>3 DEF PassFlushes, Goto
    <3>4. Idles(s) BY <3>1, <3>2, <3>3, Zenon DEF Idles
    <3> QED BY <2>0, <2>3, <3>4 DEF PassFlushes, StepShape
  <2>4. CASE PassCalls(s)
    <3>1. \A r \in MaintainResults(copy[s], Instant) : HandlesUnpaid(copy[s], r)
      BY <1>0, <2>0, MaintainHandles
    <3>2. Calls(s) BY <2>4, <3>1 DEF PassCalls, Handle, Goto, Calls
    <3> QED BY <2>0, <2>4, <3>2 DEF PassCalls, Handle, StepShape
  <2>5. CASE PassCommits(s)
    <3>1. copy[s].state = "AWAITING_OUTCOME" BY <2>0, <2>5 DEF PassCommits, Held
    <3>2. PICK flushed :
            /\ flushed = IF Overdue(copy[s]) THEN {} ELSE {"state", "deferred"}
            /\ CommitWork(s, work[s], flushed)
      BY <2>5 DEF PassCommits
    <3>3. Commits(s, flushed) BY <2>5, <3>1, <3>2 DEF PassCommits, CommitWork, Goto, Commits
    <3>4. {rowLock', approvalLock', loop'} \subseteq Sessions \cup {None}
      BY <2>5, <3>2 DEF PassCommits, CommitWork, Release
    <3> QED BY <2>0, <3>3, <3>4 DEF StepShape
  <2> QED BY <1>2, <2>0, <2>1, <2>2, <2>3, <2>4, <2>5, RollBackIdles DEF Maintaining
<1>3. ASSUME NEW s \in Successes, Succeeding(s) PROVE StepShape
  <2>0. s \in Sessions /\ s \notin Passes BY SessionKinds
  <2>1. CASE SuccessMatches(s) /\ row.state \in MatchedStates
    <3>1. Reads(s) BY <2>0, <2>1 DEF SuccessMatches, Load, Goto, Reads
    <3> QED BY <2>0, <2>1, <3>1 DEF SuccessMatches, StepShape
  <2>2. CASE SuccessMatches(s) /\ row.state \notin MatchedStates
    <3>1. Idles(s) BY <2>0, <2>2 DEF SuccessMatches, Goto, Idles, Labels
    <3> QED BY <2>0, <2>2, <3>1 DEF SuccessMatches, StepShape
  <2>3. CASE SuccessCommits(s)
    <3>1. Pays(s) BY <2>3 DEF SuccessCommits, CommitWork, Goto, Pays
    <3>2. {rowLock', approvalLock', loop'} \subseteq Sessions \cup {None}
      BY <2>3 DEF SuccessCommits, CommitWork, Release
    <3> QED BY <2>0, <3>1, <3>2 DEF StepShape
  <2> QED BY <1>3, <2>1, <2>2, <2>3 DEF Succeeding
<1>4. ASSUME NEW s \in Failures, Failing(s) PROVE StepShape
  <2>0. s \in Sessions BY SessionKinds
  <2>1. Idles(s)
    BY <1>4, <2>0 DEF Failing, FailureLinks, FailureFlushes, FailureCommits, Goto, Idles, Labels
  <2> QED
    BY <1>4, <2>0, <2>1
    DEF Failing, FailureLinks, FailureFlushes, FailureCommits, Release, StepShape
<1>5. CASE UNCHANGED vars \/ Served
  BY <1>5 DEF Served, vars, StepShape
<1> QED BY <1>1, <1>2, <1>3, <1>4, <1>5 DEF Next

\* What a payment does to the row is a handler too.
LEMMA PaymentShape ==
  ASSUME TypeOK, NEW s \in Successes
  PROVE  Handles(copy[s], Result(RecordRecovery(copy[s], PaymentOf[s]), 0))
<1>1. s \in Sessions /\ PaymentOf[s] \in Payments BY SessionAssumption, SessionKinds
<1>2. copy[s] \in CaseRow BY <1>1 DEF TypeOK
<1> QED BY <1>1, <1>2, RecordRecoveryHandles

HeldInv == TypeOK /\ Held

\* What a session is about to commit is what a handler made of its copy.
LEMMA HeldInvariant == Spec => []HeldInv
<1>1. Init => HeldInv
  <2> SUFFICES ASSUME Init PROVE HeldInv OBVIOUS
  <2>1. row \in CaseRow BY SessionAssumption DEF Init
  <2>2. Len(row.actions) \in Nat
    <3>1. row.actions \in Seq(ExecutedAction) BY <2>1 DEF CaseRow
    <3> QED BY <3>1
  <2>3. TypeOK BY <2>1, <2>2 DEF Init, TypeOK, Labels
  <2>4. \A s \in Sessions : pc[s] \in {"waiting", "absent"} BY DEF Init
  <2> QED BY <2>3, <2>4 DEF HeldInv, Held
<1>2. HeldInv /\ [Next]_vars => HeldInv'
  <2> SUFFICES ASSUME HeldInv, [Next]_vars PROVE HeldInv' OBVIOUS
  <2>0. TypeOK /\ Held BY DEF HeldInv
  <2>1. StepShape BY <2>0, Shape
  <2>2. CASE UNCHANGED <<row, effects, copy, work, pc, loop>>
    BY <2>0, <2>1, <2>2 DEF TypeOK, Held, HeldInv, StepShape
  <2>3. ASSUME NEW s \in Sessions, Idles(s) PROVE HeldInv'
    BY <2>0, <2>1, <2>3 DEF Idles, TypeOK, Held, HeldInv, StepShape
  <2>4. ASSUME NEW s \in Sessions, Reads(s) PROVE HeldInv'
    <3>1. PICK label \in {"matched", "loaded", "due", "done"} :
            /\ pc' = [pc EXCEPT ![s] = label]
            /\ s \in Passes /\ label = "due" => row.state = "AWAITING_OUTCOME"
      BY <2>4, SessionKinds DEF Reads
    <3>2. copy' = [copy EXCEPT ![s] = row] /\ UNCHANGED <<row, effects, work>>
      BY <2>4 DEF Reads
    <3>3. TypeOK' BY <2>0, <2>1, <3>1, <3>2 DEF TypeOK, StepShape, Labels
    <3>4. Held' BY <2>0, <3>1, <3>2 DEF TypeOK, Held
    <3> QED BY <3>3, <3>4 DEF HeldInv
  <2>5. ASSUME NEW s \in Sessions, Calls(s) PROVE HeldInv'
    <3>1. PICK r : /\ HandlesUnpaid(copy[s], r)
                   /\ work' = [work EXCEPT ![s] = r.row] /\ effects' = effects + r.made
      BY <2>5 DEF Calls
    <3>2. r.row \in CaseRow /\ r.made \in Nat BY <3>1 DEF HandlesUnpaid, Handles
    <3>3. HandlesUnpaid(copy[s], Result(r.row, r.made))
      BY <3>1 DEF HandlesUnpaid, Handles, Recorded, Result
    <3>4. /\ pc' = [pc EXCEPT ![s] = "called"] /\ pc[s] = "calling"
          /\ UNCHANGED <<row, copy, loop>>
      BY <2>5 DEF Calls
    <3>5. TypeOK' BY <2>0, <2>1, <3>1, <3>2, <3>4 DEF TypeOK, StepShape, Labels
    <3>6. PICK w : w = r.row /\ work'[s] = w /\ HandlesUnpaid(copy[s], Result(w, r.made))
      BY <2>0, <3>1, <3>3 DEF TypeOK
    <3>7. \A t \in Sessions \ {s} : work'[t] = work[t] /\ pc'[t] = pc[t]
      BY <2>0, <3>1, <3>4 DEF TypeOK
    <3>8. Held' BY <2>0, <3>2, <3>4, <3>6, <3>7 DEF TypeOK, Held
    <3> QED BY <3>5, <3>8 DEF HeldInv
  <2>6. ASSUME NEW s \in Sessions, NEW flushed, Commits(s, flushed) PROVE HeldInv'
    <3>1. PICK made \in Nat : HandlesUnpaid(copy[s], Result(work[s], made))
      BY <2>0, <2>6 DEF Commits, Held
    <3>2. Handles(copy[s], Result(work[s], made)) /\ Result(work[s], made).row = work[s]
      BY <3>1 DEF HandlesUnpaid, Result
    <3>3. row' = Merge(row, copy[s], Result(work[s], made).row, flushed)
      BY <2>6, <3>2 DEF Commits
    <3>4. row' \in CaseRow BY <2>0, <3>2, <3>3, MergeType DEF TypeOK
    <3>5. pc' = [pc EXCEPT ![s] = "done"] /\ UNCHANGED <<effects, copy, work, loop>>
      BY <2>6 DEF Commits
    <3>6. TypeOK' BY <2>0, <2>1, <3>4, <3>5 DEF TypeOK, StepShape, Labels
    <3>7. Held' BY <2>0, <3>5 DEF TypeOK, Held
    <3> QED BY <3>6, <3>7 DEF HeldInv
  <2>7. ASSUME NEW s \in Sessions, Pays(s) PROVE HeldInv'
    <3>0. PICK w : /\ w = RecordRecovery(copy[s], PaymentOf[s])
                   /\ Handles(copy[s], Result(w, 0)) /\ row' = Merge(row, copy[s], w, {})
      BY <2>0, <2>7, PaymentShape DEF Pays
    <3>1. PICK r : Handles(copy[s], r) /\ row' = Merge(row, copy[s], r.row, {})
      BY <3>0 DEF Result
    <3>2. row' \in CaseRow BY <2>0, <3>1, MergeType DEF TypeOK
    <3>3. pc' = [pc EXCEPT ![s] = "done"] /\ UNCHANGED <<effects, copy, work>>
      BY <2>7 DEF Pays
    <3>4. TypeOK' BY <2>0, <2>1, <3>2, <3>3 DEF TypeOK, StepShape, Labels
    <3>5. Held' BY <2>0, <3>3 DEF TypeOK, Held
    <3> QED BY <3>4, <3>5 DEF HeldInv
  <2> QED BY <2>1, <2>2, <2>3, <2>4, <2>5, <2>6, <2>7 DEF StepShape
<1> QED BY <1>1, <1>2, PTL DEF Spec

\* Every interleaving keeps the committed row a row, and every session a copy of
\* one and a row to commit, whatever a session writes over what another has
\* committed.
THEOREM TypeInvariant == Spec => []TypeOK
<1>1. HeldInv => TypeOK BY DEF HeldInv
<1> QED BY <1>1, HeldInvariant, PTL

-----------------------------------------------------------------------------
(* The approvals.  A session that leaves the case to a person adds an       *)
(* approval to those on the committed row; one that takes the last approval *)
(* writes a new state, because it found the case with a person.             *)

LEMMA CommitApprovable ==
  ASSUME NEW committed \in CaseRow, NEW read \in CaseRow, NEW r, Handles(read, r),
         NEW flushed, flushed = {} \/ read.state # "ESCALATED_TO_HUMAN",
         committed.state = "ESCALATED_TO_HUMAN" => committed.pending > 0,
         NEW m, m = Merge(committed, read, r.row, flushed),
         m.state = "ESCALATED_TO_HUMAN"
  PROVE  m.pending > 0
<1>0. PICK w : w = r.row /\ Updated(m, committed, read, w, flushed) BY MergeType
<1>1. /\ m.state = IF w.state # read.state \/ "state" \in flushed
                   THEN w.state ELSE committed.state
      /\ m.pending = LET n == committed.pending + w.pending - read.pending
                     IN  IF n >= 0 THEN n ELSE 0
  BY <1>0 DEF Updated
<1>2. Asks(read, w) /\ w \in CaseRow BY <1>0 DEF Handles
<1>3. committed.pending \in Nat /\ read.pending \in Nat /\ w.pending \in Nat
  BY <1>2 DEF CaseRow
<1>4. CASE w.state = "ESCALATED_TO_HUMAN" /\ w.pending = read.pending + 1
  BY <1>1, <1>3, <1>4
<1>5. CASE w.state = "ESCALATED_TO_HUMAN" /\ w.pending = read.pending /\ w.state = read.state
  <2>1. flushed = {} BY <1>5
  <2>2. m.state = committed.state BY <1>1, <1>5, <2>1
  <2> QED BY <1>1, <1>3, <1>5, <2>2
<1>6. CASE w.state # "ESCALATED_TO_HUMAN" /\ w.pending = read.pending
  <2>1. m.state = committed.state BY <1>1, <1>6
  <2> QED BY <1>1, <1>3, <1>6, <2>1
<1>7. CASE w.state # "ESCALATED_TO_HUMAN" /\ read.state = "ESCALATED_TO_HUMAN"
  BY <1>1, <1>7
<1> QED BY <1>2, <1>4, <1>5, <1>6, <1>7 DEF Asks

\* In every interleaving, for every number of requests: a case that waits for a
\* person has an approval pending on it.
THEOREM ApprovableInvariant == Spec => []EscalatedIsApprovable
<1>1. Init => EscalatedIsApprovable
  BY SessionAssumption DEF Init, EscalatedIsApprovable, PendingMatchesState
<1>2. HeldInv /\ EscalatedIsApprovable /\ [Next]_vars => EscalatedIsApprovable'
  <2> SUFFICES ASSUME HeldInv, EscalatedIsApprovable, [Next]_vars
               PROVE  EscalatedIsApprovable'
    OBVIOUS
  <2>0. TypeOK /\ Held BY DEF HeldInv
  <2>1. StepShape BY <2>0, Shape
  <2>2. CASE row' = row BY <2>2 DEF EscalatedIsApprovable
  <2>3. ASSUME NEW s \in Sessions, NEW flushed, Commits(s, flushed)
        PROVE  EscalatedIsApprovable'
    <3>1. PICK made \in Nat : HandlesUnpaid(copy[s], Result(work[s], made))
      BY <2>0, <2>3 DEF Commits, Held
    <3>2. PICK r : Handles(copy[s], r) /\ row' = Merge(row, copy[s], r.row, flushed)
      BY <2>3, <3>1 DEF Commits, HandlesUnpaid, Result
    <3>3. flushed = {} \/ copy[s].state # "ESCALATED_TO_HUMAN" BY <2>3 DEF Commits
    <3> QED BY <2>0, <3>2, <3>3, CommitApprovable DEF TypeOK, EscalatedIsApprovable
  <2>4. ASSUME NEW s \in Sessions, Pays(s) PROVE EscalatedIsApprovable'
    <3>1. PICK w : /\ w = RecordRecovery(copy[s], PaymentOf[s])
                   /\ Handles(copy[s], Result(w, 0)) /\ row' = Merge(row, copy[s], w, {})
      BY <2>0, <2>4, PaymentShape DEF Pays
    <3>2. PICK r : Handles(copy[s], r) /\ row' = Merge(row, copy[s], r.row, {})
      BY <3>1 DEF Result
    <3> QED BY <2>0, <3>2, CommitApprovable DEF TypeOK, EscalatedIsApprovable
  <2> QED
    BY <2>1, <2>2, <2>3, <2>4 DEF StepShape, Idles, Reads, Calls
<1> QED BY <1>1, <1>2, HeldInvariant, PTL DEF Spec

-----------------------------------------------------------------------------
(* The payments.  Only one success delivery at a time is past its match, and *)
(* while it is nothing else can credit the case.                             *)

LEMMA UncreditedPayments ==
  ASSUME NEW c \in CaseRow, NEW d \in CaseRow, Grown(c.outcomes, d.outcomes, Uncredited)
  PROVE  InTime(d) = InTime(c) /\ Late(d) = Late(c)
<1>1. c.outcomes \in Seq(OutcomeRow) BY DEF CaseRow
<1>2. CASE d.outcomes = c.outcomes BY <1>2 DEF InTime, Late
<1>3. ASSUME NEW o \in Uncredited, d.outcomes = Append(c.outcomes, o)
      PROVE  InTime(d) = InTime(c) /\ Late(d) = Late(c)
  <2>1. PICK old : old = c.outcomes OBVIOUS
  <2>2. PICK n \in Nat : n = Len(old) BY <1>1, <2>1
  <2>3. DOMAIN old = 1 .. n /\ DOMAIN Append(old, o) = 1 .. n + 1 BY <1>1, <2>1, <2>2
  <2>4. \A i \in 1 .. n : Append(old, o)[i] = old[i] BY <1>1, <2>1, <2>2
  <2>5. Append(old, o)[n + 1] = o BY <1>1, <2>1, <2>2
  <2>6. o.type # "RECOVERED" /\ ~o.late BY DEF Uncredited
  <2>7. \A i \in 1 .. n + 1 : i \in 1 .. n \/ i = n + 1 OBVIOUS
  <2>8. 1 .. n \subseteq 1 .. n + 1 OBVIOUS
  <2>9. InTime(d) = {i \in 1 .. n + 1 : Append(old, o)[i].type = "RECOVERED"
                                          /\ ~Append(old, o)[i].late}
    BY <1>3, <2>1, <2>3 DEF InTime
  <2>10. Late(d) = {i \in 1 .. n + 1 : Append(old, o)[i].late}
    BY <1>3, <2>1, <2>3 DEF Late
  <2>11. InTime(c) = {i \in 1 .. n : old[i].type = "RECOVERED" /\ ~old[i].late}
    BY <2>1, <2>3 DEF InTime
  <2>12. Late(c) = {i \in 1 .. n : old[i].late} BY <2>1, <2>3 DEF Late
  <2>13. PICK new : new = Append(old, o) OBVIOUS
  <2>14. /\ \A i \in 1 .. n : i \in 1 .. n + 1 /\ new[i] = old[i]
         /\ \A i \in 1 .. n + 1 : i \notin 1 .. n => new[i].type # "RECOVERED" /\ ~new[i].late
    BY <2>4, <2>5, <2>6, <2>7, <2>8, <2>13
  <2>15. InTime(d) = {i \in 1 .. n + 1 : new[i].type = "RECOVERED" /\ ~new[i].late}
    BY <2>9, <2>13
  <2>16. Late(d) = {i \in 1 .. n + 1 : new[i].late} BY <2>10, <2>13
  <2>17. InTime(d) = InTime(c) BY <2>11, <2>14, <2>15
  <2>18. Late(d) = Late(c) BY <2>12, <2>14, <2>16
  <2> QED BY <2>17, <2>18
<1> QED BY <1>2, <1>3 DEF Grown

\* A commit that is about no payment credits nothing and recovers nothing.
LEMMA CommitUnpaid ==
  ASSUME NEW committed \in CaseRow, NEW read \in CaseRow, NEW r, HandlesUnpaid(read, r),
         NEW flushed, flushed = {} \/ read.state # "RECOVERED",
         NEW m, m = Merge(committed, read, r.row, flushed)
  PROVE  /\ InTime(m) = InTime(committed) /\ Late(m) = Late(committed)
         /\ committed.state # "RECOVERED" => m.state # "RECOVERED"
<1>0. Handles(read, r) BY DEF HandlesUnpaid
<1>1. m \in CaseRow BY <1>0, MergeType
<1>2. Grown(committed.outcomes, m.outcomes, Uncredited)
  BY <1>0, MergeOutcomes DEF HandlesUnpaid, Uncredited
<1>3. PICK w : w = r.row /\ Updated(m, committed, read, w, flushed) BY <1>0, MergeType
<1>4. m.state = IF w.state # read.state \/ "state" \in flushed THEN w.state ELSE committed.state
  BY <1>3 DEF Updated
<1>5. read.state # "RECOVERED" => w.state # "RECOVERED" BY <1>3 DEF HandlesUnpaid
<1>6. committed.state # "RECOVERED" => m.state # "RECOVERED"
  <2>1. CASE read.state = "RECOVERED" /\ w.state = "RECOVERED" BY <1>4, <2>1
  <2>2. CASE w.state # "RECOVERED" BY <1>4, <2>2
  <2> QED BY <1>5, <2>1, <2>2
<1> QED BY <1>1, <1>2, <1>6, UncreditedPayments

\* A delivery past its match holds the event loop, and the case is not paid.
Matching ==
  \A s \in Successes : pc[s] = "matched" => loop = s /\ row.state # "RECOVERED"

PInv == HeldInv /\ Matching

LEMMA CommitStep ==
  ASSUME HeldInv, NEW s \in Sessions, NEW flushed, Commits(s, flushed)
  PROVE  /\ InTime(row') = InTime(row) /\ Late(row') = Late(row)
         /\ row.state # "RECOVERED" => row'.state # "RECOVERED"
<1>1. PICK made \in Nat : HandlesUnpaid(copy[s], Result(work[s], made))
  BY DEF HeldInv, Commits, Held
<1>2. PICK r : HandlesUnpaid(copy[s], r) /\ row' = Merge(row, copy[s], r.row, flushed)
  BY <1>1 DEF Commits, Result
<1>3. flushed = {} \/ copy[s].state # "RECOVERED" BY DEF Commits
<1> QED BY <1>2, <1>3, CommitUnpaid DEF HeldInv, TypeOK

\* No other delivery and no commit comes between a match and its credit.
LEMMA MatchingInvariant == Spec => []PInv
<1>1. Init => Matching
  <2> SUFFICES ASSUME Init PROVE Matching OBVIOUS
  <2>1. \A s \in Sessions : pc[s] \in {"waiting", "absent"} BY DEF Init
  <2> QED BY <2>1, SessionKinds DEF Matching
<1>2. PInv /\ HeldInv' /\ [Next]_vars => Matching'
  <2> SUFFICES ASSUME PInv, HeldInv', [Next]_vars PROVE Matching' OBVIOUS
  <2>0. TypeOK /\ Held /\ Matching /\ HeldInv BY DEF PInv, HeldInv
  <2>1. StepShape BY <2>0, Shape
  <2>2. \A t \in Successes : t \in Sessions /\ t # None BY SessionKinds, SessionAssumption
  <2>3. CASE UNCHANGED <<row, effects, copy, work, pc, loop>> BY <2>0, <2>3 DEF Matching
  <2>4. ASSUME NEW s \in Sessions, Idles(s) PROVE Matching'
    BY <2>0, <2>2, <2>4 DEF Idles, Matching, TypeOK
  <2>5. ASSUME NEW s \in Sessions, Reads(s) PROVE Matching'
    <3>1. CASE /\ s \in Successes /\ row.state \in MatchedStates
               /\ pc' = [pc EXCEPT ![s] = "matched"] /\ loop = None /\ loop' = s
      <4>1. \A t \in Successes : pc[t] # "matched" BY <2>0, <2>2, <3>1 DEF Matching
      <4> QED BY <2>0, <2>2, <2>5, <3>1, <4>1 DEF Reads, Matching, TypeOK, MatchedStates
    <3>2. CASE /\ \E label \in {"loaded", "due", "done"} : pc' = [pc EXCEPT ![s] = label]
               /\ loop' = loop
      BY <2>0, <2>2, <2>5, <3>2 DEF Reads, Matching, TypeOK
    <3> QED BY <2>5, <3>1, <3>2 DEF Reads
  <2>6. ASSUME NEW s \in Sessions, Calls(s) PROVE Matching'
    BY <2>0, <2>2, <2>6 DEF Calls, Matching, TypeOK
  <2>7. ASSUME NEW s \in Sessions, NEW flushed, Commits(s, flushed) PROVE Matching'
    <3>1. row.state # "RECOVERED" => row'.state # "RECOVERED" BY <2>0, <2>7, CommitStep
    <3>2. pc' = [pc EXCEPT ![s] = "done"] /\ loop' = loop BY <2>7 DEF Commits
    <3> QED BY <2>0, <2>2, <3>1, <3>2 DEF Matching, TypeOK
  <2>8. ASSUME NEW s \in Sessions, Pays(s) PROVE Matching'
    <3>1. \A t \in Successes : pc[t] = "matched" => t = s
      BY <2>0, <2>8 DEF Matching, Pays
    <3>2. pc' = [pc EXCEPT ![s] = "done"] BY <2>8 DEF Pays
    <3> QED BY <2>0, <2>2, <3>1, <3>2 DEF Matching, TypeOK
  <2> QED BY <2>1, <2>3, <2>4, <2>5, <2>6, <2>7, <2>8 DEF StepShape
<1> QED BY <1>1, <1>2, HeldInvariant, PTL DEF Spec, PInv

\* In every interleaving, for every number of deliveries, approvals and passes:
\* a case on which a payment is committed as recovered is credited with no other.
THEOREM PaidInvariant == Spec => PaidCaseTakesNoPayment
<1> DEFINE PaidStays == row.state = "RECOVERED" => InTime(row') = InTime(row) /\ Late(row') = Late(row)
<1>1. PInv /\ [Next]_vars => [PaidStays]_vars
  <2> SUFFICES ASSUME PInv, [Next]_vars PROVE PaidStays OBVIOUS
  <2>0. HeldInv /\ TypeOK /\ Held /\ Matching BY DEF PInv, HeldInv
  <2>1. StepShape BY <2>0, Shape
  <2>2. CASE row' = row BY <2>2
  <2>3. ASSUME NEW s \in Sessions, NEW flushed, Commits(s, flushed) PROVE PaidStays
    BY <2>0, <2>3, CommitStep
  <2>4. ASSUME NEW s \in Sessions, Pays(s) PROVE PaidStays
    BY <2>0, <2>4 DEF Matching, Pays
  <2> QED BY <2>1, <2>2, <2>3, <2>4 DEF StepShape, Idles, Reads, Calls
<1> QED BY <1>1, MatchingInvariant, PTL DEF Spec, PaidCaseTakesNoPayment

-----------------------------------------------------------------------------
(* What counts against the caps.  A handler counts the action it recorded,  *)
(* from a copy that is at most behind; between the gateway call and the     *)
(* commit the effects are ahead of the ledger, never behind it.             *)

LEMMA LenActions ==
  ASSUME NEW c \in CaseRow
  PROVE  /\ Len(c.actions) \in Nat
         /\ \A a \in ExecutedAction : /\ Len(Append(c.actions, a)) = Len(c.actions) + 1
                                      /\ Append(c.actions, a) # c.actions
<1>1. c.actions \in Seq(ExecutedAction) BY DEF CaseRow
<1>2. Len(c.actions) \in Nat BY <1>1
<1>3. ASSUME NEW a \in ExecutedAction
      PROVE  Len(Append(c.actions, a)) = Len(c.actions) + 1
  BY <1>1
<1>4. ASSUME NEW a \in ExecutedAction
      PROVE  Append(c.actions, a) # c.actions
  <2>1. Len(c.actions) + 1 # Len(c.actions) BY <1>2
  <2> QED BY <1>3, <2>1
<1> QED BY <1>2, <1>3, <1>4

LEMMA CommitCounted ==
  ASSUME NEW committed \in CaseRow, NEW read \in CaseRow, NEW r, Handles(read, r),
         NEW flushed, "attempts" \notin flushed,
         committed.attempts <= Len(committed.actions), read.attempts <= Len(read.actions),
         Len(read.actions) <= Len(committed.actions),
         NEW m, m = Merge(committed, read, r.row, flushed)
  PROVE  /\ m \in CaseRow /\ m.synthetic \in {committed.synthetic, read.synthetic}
         /\ m.attempts <= Len(m.actions)
         /\ Len(m.actions) = IF r.row.actions = read.actions THEN Len(committed.actions)
                             ELSE Len(committed.actions) + 1
<1>1. m \in CaseRow /\ m.synthetic \in {committed.synthetic, read.synthetic} BY MergeType
<1>2. PICK w : /\ w = r.row /\ Updated(m, committed, read, w, flushed)
               /\ Adds(m, committed, read, w) /\ Recorded(read, r)
  BY MergeType DEF Handles
<1>3. m.attempts = IF w.attempts # read.attempts THEN w.attempts ELSE committed.attempts
  BY <1>2 DEF Updated
<1>4. /\ committed.attempts \in Nat /\ read.attempts \in Nat
      /\ Len(committed.actions) \in Nat /\ Len(read.actions) \in Nat
  BY LenActions DEF CaseRow
<1>5. CASE m.actions = committed.actions /\ w.actions = read.actions
  <2>1. w.attempts = read.attempts
    BY <1>2, <1>5, LenActions DEF Recorded
  <2> QED BY <1>1, <1>2, <1>3, <1>5, <2>1
<1>6. CASE /\ \E a \in ExecutedAction : /\ m.actions = Append(committed.actions, a)
                                        /\ w.actions = Append(read.actions, a)
           /\ w.attempts = read.attempts + 1
  <2>1. w.actions # read.actions /\ Len(m.actions) = Len(committed.actions) + 1
    BY <1>6, LenActions
  <2>2. m.attempts = read.attempts + 1 BY <1>3, <1>4, <1>6
  <2>3. m.attempts <= Len(m.actions) BY <1>4, <2>1, <2>2
  <2> QED BY <1>1, <1>2, <2>1, <2>3
<1> QED BY <1>2, <1>5, <1>6 DEF Adds

\* The cases of live customers: what is done for a synthetic case is not real.
LiveRows == \A c \in InitialRows : ~c.synthetic

\* The sessions that have acted at the gateway and not committed it.
Unrecorded == {s \in Sessions : pc[s] = "called" /\ work[s].actions # copy[s].actions}

CountInv ==
  /\ ~row.synthetic /\ \A s \in Sessions : ~copy[s].synthetic
  /\ row.attempts <= Len(row.actions)
  /\ \A s \in Sessions : /\ copy[s].attempts <= Len(copy[s].actions)
                         /\ Len(copy[s].actions) <= Len(row.actions)
  /\ Len(row.actions) + Cardinality(Unrecorded) <= effects

LEMMA UnrecordedFinite ==
  ASSUME NEW T \in SUBSET Sessions
  PROVE  IsFiniteSet(T) /\ Cardinality(T) \in Nat
BY SessionAssumption, FS_Subset, FS_CardinalityType

\* Sessions that leave the set, or the set as it was, count no more than before.
LEMMA UnrecordedShrinks ==
  ASSUME NEW T \in SUBSET Sessions, NEW U \in SUBSET T
  PROVE  Cardinality(U) <= Cardinality(T)
BY UnrecordedFinite, FS_Subset

\* In every interleaving, lost replies and rollbacks included and for every number
\* of requests: what counts against the caps was done.
THEOREM CountedInvariant ==
  ASSUME LiveRows
  PROVE  Spec => []CountedActionsExist
<1>1. Init => CountInv
  <2> SUFFICES ASSUME Init PROVE CountInv OBVIOUS
  <2>1. row \in CaseRow /\ ~row.synthetic /\ row.attempts = Len(row.actions)
    BY SessionAssumption DEF Init, LiveRows, CountersMatchLedger
  <2>2. Len(row.actions) \in Nat BY <2>1, LenActions
  <2>3. \A s \in Sessions : copy[s] = row BY DEF Init
  <2>4. Unrecorded = {} BY DEF Init, Unrecorded
  <2>5. Cardinality(Unrecorded) = 0 BY <2>4, FS_EmptySet
  <2>6. effects = Len(row.actions) BY DEF Init
  <2> QED BY <2>1, <2>2, <2>3, <2>5, <2>6 DEF CountInv
<1>2. HeldInv /\ CountInv /\ [Next]_vars => CountInv'
  <2> SUFFICES ASSUME HeldInv, CountInv, [Next]_vars PROVE CountInv' OBVIOUS
  <2>0. TypeOK /\ Held BY DEF HeldInv
  <2>1. StepShape BY <2>0, Shape
  <2>2. /\ Len(row.actions) \in Nat /\ effects \in Nat
        /\ Unrecorded \in SUBSET Sessions /\ Cardinality(Unrecorded) \in Nat
    BY <2>0, LenActions, UnrecordedFinite DEF TypeOK, Unrecorded
  <2>3. ASSUME UNCHANGED <<row, effects>>, Unrecorded' \in SUBSET Unrecorded,
               \A s \in Sessions : copy'[s] = copy[s] \/ copy'[s] = row
        PROVE  CountInv'
    <3>1. Cardinality(Unrecorded') <= Cardinality(Unrecorded) /\ Cardinality(Unrecorded') \in Nat
      BY <2>2, <2>3, UnrecordedShrinks, UnrecordedFinite
    <3>2. Len(row'.actions) + Cardinality(Unrecorded') <= effects'
      BY <2>2, <2>3, <3>1 DEF CountInv
    <3>3. \A s \in Sessions : /\ ~copy'[s].synthetic
                              /\ copy'[s].attempts <= Len(copy'[s].actions)
                              /\ Len(copy'[s].actions) <= Len(row.actions)
      BY <2>2, <2>3 DEF CountInv
    <3> QED BY <2>3, <3>2, <3>3 DEF CountInv
  <2>4. CASE UNCHANGED <<row, effects, copy, work, pc, loop>>
    <3>1. Unrecorded' = Unrecorded BY <2>4 DEF Unrecorded
    <3> QED BY <2>3, <2>4, <3>1
  <2>5. ASSUME NEW s \in Sessions, Idles(s) PROVE CountInv'
    <3>1. Unrecorded' \in SUBSET Unrecorded BY <2>0, <2>5 DEF Idles, Unrecorded, TypeOK
    <3> QED BY <2>3, <2>5, <3>1 DEF Idles
  <2>6. ASSUME NEW s \in Sessions, Reads(s) PROVE CountInv'
    <3>1. \A t \in Sessions \ {s} : pc'[t] = pc[t] /\ copy'[t] = copy[t] /\ work'[t] = work[t]
      BY <2>0, <2>6 DEF Reads, TypeOK
    <3>2. pc'[s] # "called" /\ copy'[s] = row BY <2>0, <2>6 DEF Reads, TypeOK
    <3>3. Unrecorded' \in SUBSET Unrecorded BY <3>1, <3>2 DEF Unrecorded
    <3> QED BY <2>3, <2>6, <3>1, <3>2, <3>3 DEF Reads
  <2>7. ASSUME NEW s \in Sessions, Calls(s) PROVE CountInv'
    <3>1. PICK r : /\ Handles(copy[s], r)
                   /\ work' = [work EXCEPT ![s] = r.row] /\ effects' = effects + r.made
      BY <2>7 DEF Calls, HandlesUnpaid
    <3>2. /\ pc' = [pc EXCEPT ![s] = "called"] /\ UNCHANGED <<row, copy>>
      BY <2>7 DEF Calls
    <3>3. r.made \in Nat /\ (r.row.actions # copy[s].actions => r.made >= 1)
      BY <3>1 DEF Handles, Recorded, CountInv
    <3>4. /\ work'[s] = r.row /\ \A t \in Sessions \ {s} : pc'[t] = pc[t] /\ work'[t] = work[t]
      BY <2>0, <3>1, <3>2 DEF TypeOK
    <3>5. CASE r.row.actions = copy[s].actions
      <4>1. Unrecorded' \in SUBSET Unrecorded BY <3>2, <3>4, <3>5 DEF Unrecorded
      <4>2. Cardinality(Unrecorded') <= Cardinality(Unrecorded) /\ Cardinality(Unrecorded') \in Nat
        BY <2>2, <4>1, UnrecordedShrinks, UnrecordedFinite
      <4>3. Len(row'.actions) + Cardinality(Unrecorded') <= effects'
        BY <2>2, <3>1, <3>2, <3>3, <4>2 DEF CountInv
      <4> QED BY <3>2, <4>3 DEF CountInv
    <3>6. CASE r.row.actions # copy[s].actions
      <4>1. Unrecorded' \in SUBSET (Unrecorded \cup {s}) BY <3>2, <3>4 DEF Unrecorded
      <4>2. /\ Cardinality(Unrecorded \cup {s}) <= Cardinality(Unrecorded) + 1
            /\ Cardinality(Unrecorded \cup {s}) \in Nat
        <5>1. IsFiniteSet(Unrecorded) BY <2>2, UnrecordedFinite
        <5>2. Cardinality(Unrecorded \cup {s}) =
                IF s \in Unrecorded THEN Cardinality(Unrecorded) ELSE Cardinality(Unrecorded) + 1
          BY <5>1, FS_AddElement
        <5> QED BY <2>2, <5>2
      <4>3. /\ Cardinality(Unrecorded') <= Cardinality(Unrecorded \cup {s})
            /\ Cardinality(Unrecorded') \in Nat
        BY <2>2, <4>1, UnrecordedShrinks, UnrecordedFinite
      <4>4. Len(row'.actions) + Cardinality(Unrecorded') <= effects'
        BY <2>2, <3>1, <3>2, <3>3, <3>6, <4>2, <4>3 DEF CountInv
      <4> QED BY <3>2, <4>4 DEF CountInv
    <3> QED BY <3>5, <3>6
  <2>8. ASSUME NEW s \in Sessions, NEW flushed, Commits(s, flushed) PROVE CountInv'
    <3>1. PICK r : /\ Handles(copy[s], r) /\ r.row = work[s]
                   /\ row' = Merge(row, copy[s], r.row, flushed)
      <4>1. PICK made \in Nat : HandlesUnpaid(copy[s], Result(work[s], made))
        BY <2>0, <2>8 DEF Commits, Held
      <4> QED BY <2>8, <4>1 DEF Commits, HandlesUnpaid, Result
    <3>2. "attempts" \notin flushed BY <2>8 DEF Commits
    <3>3. /\ row'.synthetic \in {row.synthetic, copy[s].synthetic}
          /\ row'.attempts <= Len(row'.actions)
          /\ Len(row'.actions) = IF work[s].actions = copy[s].actions THEN Len(row.actions)
                                 ELSE Len(row.actions) + 1
      BY <2>0, <3>1, <3>2, CommitCounted DEF TypeOK, CountInv
    <3>4. /\ pc[s] = "called" /\ pc' = [pc EXCEPT ![s] = "done"]
          /\ UNCHANGED <<effects, copy, work>>
      BY <2>8 DEF Commits
    <3>5. Unrecorded' = Unrecorded \ {s} BY <2>0, <3>4 DEF TypeOK, Unrecorded
    <3>6. s \in Unrecorded <=> work[s].actions # copy[s].actions BY <3>4 DEF Unrecorded
    <3>7. Cardinality(Unrecorded') = IF work[s].actions # copy[s].actions
                                     THEN Cardinality(Unrecorded) - 1 ELSE Cardinality(Unrecorded)
      BY <2>2, <3>5, <3>6, UnrecordedFinite, FS_RemoveElement
    <3>8. Len(row'.actions) + Cardinality(Unrecorded') <= effects'
      BY <2>2, <3>3, <3>4, <3>7 DEF CountInv
    <3>9. \A t \in Sessions : Len(copy[t].actions) \in Nat BY <2>0, LenActions DEF TypeOK
    <3>10. \A t \in Sessions : Len(copy[t].actions) <= Len(row'.actions)
      BY <2>2, <3>3, <3>9 DEF CountInv
    <3> QED BY <3>3, <3>4, <3>8, <3>10 DEF CountInv
  <2>9. ASSUME NEW s \in Sessions, Pays(s) PROVE CountInv'
    <3>1. PICK w : /\ w = RecordRecovery(copy[s], PaymentOf[s])
                   /\ Handles(copy[s], Result(w, 0)) /\ row' = Merge(row, copy[s], w, {})
      BY <2>0, <2>9, PaymentShape DEF Pays
    <3>2. w.actions = copy[s].actions
      <4>1. copy[s] \in CaseRow /\ PaymentOf[s] \in Payments
        BY <2>0, <2>9, SessionAssumption DEF TypeOK, Pays
      <4> QED BY <3>1, <4>1, RecordRecoveryShape DEF Keeps, SameLedger
    <3>3. PICK r : Handles(copy[s], r) /\ row' = Merge(row, copy[s], r.row, {}) /\ r.row = w
      BY <3>1 DEF Result
    <3>4. /\ row'.synthetic \in {row.synthetic, copy[s].synthetic}
          /\ row'.attempts <= Len(row'.actions) /\ Len(row'.actions) = Len(row.actions)
      <4>1. s \in Sessions /\ row \in CaseRow /\ copy[s] \in CaseRow BY <2>0 DEF TypeOK
      <4>2. /\ row'.synthetic \in {row.synthetic, copy[s].synthetic}
            /\ row'.attempts <= Len(row'.actions)
            /\ Len(row'.actions) = IF r.row.actions = copy[s].actions THEN Len(row.actions)
                                   ELSE Len(row.actions) + 1
        <5>1. PICK none : "attempts" \notin none /\ row' = Merge(row, copy[s], r.row, none)
          BY <3>3
        <5> QED BY <3>3, <4>1, <5>1, CommitCounted DEF CountInv
      <4> QED BY <3>2, <3>3, <4>2
    <3>5. pc' = [pc EXCEPT ![s] = "done"] /\ UNCHANGED <<effects, copy, work>>
      BY <2>9 DEF Pays
    <3>6. Unrecorded' \in SUBSET Unrecorded BY <2>0, <3>5 DEF TypeOK, Unrecorded
    <3>7. Cardinality(Unrecorded') <= Cardinality(Unrecorded) /\ Cardinality(Unrecorded') \in Nat
      BY <2>2, <3>6, UnrecordedShrinks, UnrecordedFinite
    <3>8. Len(row'.actions) + Cardinality(Unrecorded') <= effects'
      BY <2>2, <3>4, <3>5, <3>7 DEF CountInv
    <3> QED BY <3>4, <3>5, <3>8 DEF CountInv
  <2> QED BY <2>1, <2>4, <2>5, <2>6, <2>7, <2>8, <2>9 DEF StepShape
<1>3. HeldInv /\ CountInv => CountedActionsExist
  <2> SUFFICES ASSUME HeldInv, CountInv PROVE CountedActionsExist OBVIOUS
  <2>1. /\ Len(row.actions) \in Nat /\ effects \in Nat /\ Cardinality(Unrecorded) \in Nat
    BY LenActions, UnrecordedFinite DEF HeldInv, TypeOK, Unrecorded
  <2> QED BY <2>1 DEF CountInv, CountedActionsExist
<1> QED BY <1>1, <1>2, <1>3, HeldInvariant, PTL DEF Spec

=============================================================================
