------------------------- MODULE CasePipeline_proofs -------------------------
(***************************************************************************)
(* Lemmas about the handlers of CasePipeline on one row, for every policy. *)
(* A committed row satisfies RowOK; while the pipeline works on a row it   *)
(* satisfies Picked; every handler leads from one to the other.  The       *)
(* modules that compose the handlers cite the theorems about handlers.     *)
(***************************************************************************)
EXTENDS CasePipeline, QuietHours_proofs, FiniteSetTheorems

RowOK(c) ==
  /\ c \in CaseRow
  /\ PendingMatchesState(c)
  /\ CountersMatchLedger(c)
  /\ CreditMatchesState(c)
  /\ AgentWithinPolicy(c)

\* A row nothing is pending on and nothing was credited to.
Unsettled(c) ==
  /\ c \in CaseRow
  /\ c.pending = 0
  /\ InTime(c) = {} /\ Late(c) = {}
  /\ CountersMatchLedger(c)
  /\ AgentWithinPolicy(c)

Picked(c) == Unsettled(c) /\ c.state = "PROCESSING"

\* What an empty list of violations tells about the instant of an action.
Clear(c, type, now) ==
  /\ ~RetriesExhausted(c)
  /\ ~TtlElapsed(c, now)
  /\ ~CooldownActive(c, now)
  /\ type = "send_payment_link" =>
       ~Quiet(now) /\ Cardinality(RecentMessages(c, now)) < MessageCap

MatchesFlow(c, type) ==
  type = IF c.flow = "subscription_mandate" THEN "retry_mandate_charge" ELSE "send_payment_link"

-----------------------------------------------------------------------------
(* Time.                                                                   *)

\* The later of two instants is one of them.
LEMMA MaxOfPair ==
  ASSUME NEW a \in Nat, NEW b \in Nat
  PROVE  Max({a, b}) \in {a, b} /\ Max({a, b}) >= a /\ Max({a, b}) >= b
<1>1. \E x \in {a, b} : \A y \in {a, b} : x >= y
  <2>1. CASE a >= b BY <2>1
  <2>2. CASE b >= a BY <2>2
  <2> QED BY <2>1, <2>2
<1>2. Max({a, b}) \in {a, b} /\ \A y \in {a, b} : Max({a, b}) >= y
  BY <1>1 DEF Max
<1> QED BY <1>2

\* A deferral that has a candidate instant gets one that is still to come.
LEMMA ResumeCandidatesMax ==
  ASSUME NEW c \in CaseRow, NEW now \in Nat, ResumeCandidates(c, now) # {}
  PROVE  Max(ResumeCandidates(c, now)) \in Nat /\ Max(ResumeCandidates(c, now)) > now
<1> DEFINE Ahead == {t \in Nat : t > now}
           quiet == QuietHoursResume(now, QuietStart, QuietEnd, SettingsOffset)
           cool  == IF CooldownActive(c, now) THEN {c.lastAction + Cooldown} ELSE {}
<1>1. quiet = {} \/ \E r \in Ahead : quiet = {r}
  BY ResumeType, PolicyAssumption DEF TimeOfDay
<1>2. cool = {} \/ \E k \in Ahead : cool = {k}
  BY PolicyAssumption DEF CooldownActive, CaseRow
<1>3. ResumeCandidates(c, now) = quiet \cup cool
  BY DEF ResumeCandidates
<1> HIDE DEF quiet, cool
<1>4. \E a, b \in Ahead : ResumeCandidates(c, now) = {a, b}
  <2> HIDE DEF Ahead
  <2>1. CASE quiet = {}
    <3>1. PICK k \in Ahead : cool = {k} BY <1>2, <1>3, <2>1
    <3>2. ResumeCandidates(c, now) = {k, k} BY <1>3, <2>1, <3>1
    <3> QED BY <3>1, <3>2
  <2>2. CASE cool = {}
    <3>1. PICK r \in Ahead : quiet = {r} BY <1>1, <1>3, <2>2
    <3>2. ResumeCandidates(c, now) = {r, r} BY <1>3, <2>2, <3>1
    <3> QED BY <3>1, <3>2
  <2>3. CASE quiet # {} /\ cool # {}
    <3>1. PICK r \in Ahead, k \in Ahead : quiet = {r} /\ cool = {k} BY <1>1, <1>2, <2>3
    <3>2. ResumeCandidates(c, now) = {r, k} BY <1>3, <3>1
    <3> QED BY <3>1, <3>2
  <2> QED BY <2>1, <2>2, <2>3
<1>5. PICK a \in Ahead, b \in Ahead : ResumeCandidates(c, now) = {a, b} BY <1>4
<1>6. Max({a, b}) \in {a, b} /\ Max({a, b}) >= a /\ a > now BY MaxOfPair
<1> QED BY <1>5, <1>6

-----------------------------------------------------------------------------
(* The gate.                                                               *)

\* A proposal the gate lets through is clear of every rule at that instant and
\* moves money the way the case's flow allows.
LEMMA GateClears ==
  ASSUME NEW c \in CaseRow, NEW p, NEW now,
         p.action \in ExecutingActions, CheckGuardrails(c, p, now) = {}
  PROVE  Clear(c, p.action, now) /\ MatchesFlow(c, p.action)
<1>1. RevenueViolations(c, now) = {} /\ FlowViolations(c, p) = {}
  BY DEF CheckGuardrails
<1>2. p.action = "send_payment_link" => MessageViolations(c, p, now) = {}
  BY DEF CheckGuardrails
<1>3. ~RetriesExhausted(c) /\ ~TtlElapsed(c, now) /\ ~CooldownActive(c, now)
  BY <1>1 DEF RevenueViolations
<1>4. p.action = "send_payment_link" =>
        ~Quiet(now) /\ ~(Cardinality(RecentMessages(c, now)) >= MessageCap)
  BY <1>2 DEF MessageViolations
<1>5. MatchesFlow(c, p.action)
  BY <1>1 DEF FlowViolations, MatchesFlow, ExecutingActions
<1>6. Cardinality(RecentMessages(c, now)) \in Nat
  <2>1. c.actions \in Seq(ExecutedAction) BY DEF CaseRow
  <2>2. RecentMessages(c, now) \subseteq 1 .. Len(c.actions) /\ Len(c.actions) \in Nat
    BY <2>1 DEF RecentMessages
  <2>3. IsFiniteSet(1 .. Len(c.actions))
    BY <2>2, FS_Interval
  <2> QED BY <2>2, <2>3, FS_Subset, FS_CardinalityType
<1>7. p.action = "send_payment_link" => Cardinality(RecentMessages(c, now)) < MessageCap
  BY <1>4, <1>6, PolicyAssumption
<1> QED BY <1>3, <1>4, <1>5, <1>7 DEF Clear

-----------------------------------------------------------------------------
(* Steps of a handler.                                                     *)

\* Appending an outcome that is no recovery credits nothing.
LEMMA AppendNoCredit ==
  ASSUME NEW c \in CaseRow, NEW d \in CaseRow, NEW o \in OutcomeRow,
         o.type # "RECOVERED", ~o.late, InTime(c) = {}, Late(c) = {},
         d.outcomes = Append(c.outcomes, o)
  PROVE  InTime(d) = {} /\ Late(d) = {}
<1>1. c.outcomes \in Seq(OutcomeRow) BY DEF CaseRow
<1>2. DOMAIN d.outcomes = 1 .. Len(c.outcomes) + 1 BY <1>1
<1>3. d.outcomes[Len(c.outcomes) + 1] = o BY <1>1
<1>4. \A i \in DOMAIN d.outcomes :
        i # Len(c.outcomes) + 1 => i \in DOMAIN c.outcomes /\ d.outcomes[i] = c.outcomes[i]
  BY <1>1, <1>2
<1>5. \A i \in DOMAIN c.outcomes : c.outcomes[i].type # "RECOVERED" \/ c.outcomes[i].late
  BY DEF InTime
<1>6. \A i \in DOMAIN c.outcomes : ~c.outcomes[i].late
  BY DEF Late
<1>7. \A i \in DOMAIN d.outcomes : d.outcomes[i].type # "RECOVERED" /\ ~d.outcomes[i].late
  BY <1>3, <1>4, <1>5, <1>6
<1> QED BY <1>7 DEF InTime, Late

\* Escalation leaves a committed row, with its one pending approval.
LEMMA EscalateOK ==
  ASSUME NEW c, Picked(c), NEW reason \in EscalationReasons
  PROVE  /\ RowOK(EscalateCase(c, reason))
         /\ EscalateCase(c, reason).state = "ESCALATED_TO_HUMAN"
<1> DEFINE d == EscalateCase(c, reason)
           o == Outcome("ESCALATED", None, FALSE)
<1>1. c \in CaseRow /\ c.pending = 0 BY DEF Picked, Unsettled
<1>2. o \in OutcomeRow /\ o.type # "RECOVERED" /\ ~o.late BY DEF Outcome, OutcomeRow
<1>3. Append(c.outcomes, o) \in Seq(OutcomeRow)
  <2>1. c.outcomes \in Seq(OutcomeRow) BY <1>1 DEF CaseRow
  <2> HIDE DEF o
  <2> QED BY <1>2, <2>1
<1>4. d \in CaseRow
  <2>1. c.pending + 1 \in Nat BY <1>1
  <2> HIDE DEF o
  <2> QED BY <1>1, <1>3, <2>1 DEF EscalateCase, CaseRow, CaseState, o
<1>5. /\ d.state = "ESCALATED_TO_HUMAN" /\ d.pending = c.pending + 1
      /\ d.outcomes = Append(c.outcomes, o) /\ d.actions = c.actions
      /\ d.attempts = c.attempts /\ d.messages = c.messages /\ d.flow = c.flow
      /\ d.lastAction = c.lastAction /\ d.deadline = c.deadline
  BY <1>1 DEF EscalateCase, CaseRow
<1>6. InTime(d) = {} /\ Late(d) = {}
  BY <1>1, <1>2, <1>4, <1>5, AppendNoCredit DEF Picked, Unsettled
<1> HIDE DEF d
<1>7. CountersMatchLedger(d) /\ AgentWithinPolicy(d)
  BY <1>5 DEF Picked, Unsettled, CountersMatchLedger, AgentWithinPolicy, WithinPolicy
<1>8. PendingMatchesState(d) /\ CreditMatchesState(d)
  BY <1>1, <1>5, <1>6 DEF PendingMatchesState, CreditMatchesState
<1> QED BY <1>4, <1>5, <1>7, <1>8 DEF RowOK, d

\* Stopping leaves a committed row.
LEMMA StopOK ==
  ASSUME NEW c, Picked(c), NEW reason \in StopReasons
  PROVE  /\ RowOK(StopCase(c, reason))
         /\ StopCase(c, reason).state = "STOPPED_UNRECOVERABLE"
<1> DEFINE d == StopCase(c, reason)
           o == Outcome("STOPPED", None, FALSE)
<1>1. c \in CaseRow /\ c.pending = 0 BY DEF Picked, Unsettled
<1>2. o \in OutcomeRow /\ o.type # "RECOVERED" /\ ~o.late BY DEF Outcome, OutcomeRow
<1>3. Append(c.outcomes, o) \in Seq(OutcomeRow)
  <2>1. c.outcomes \in Seq(OutcomeRow) BY <1>1 DEF CaseRow
  <2> HIDE DEF o
  <2> QED BY <1>2, <2>1
<1>4. d \in CaseRow BY <1>1, <1>3 DEF StopCase, CaseRow, CaseState
<1>5. /\ d.state = "STOPPED_UNRECOVERABLE" /\ d.pending = 0
      /\ d.outcomes = Append(c.outcomes, o) /\ d.actions = c.actions
      /\ d.attempts = c.attempts /\ d.messages = c.messages /\ d.flow = c.flow
      /\ d.lastAction = c.lastAction /\ d.deadline = c.deadline
  BY <1>1 DEF StopCase, CaseRow
<1>6. InTime(d) = {} /\ Late(d) = {}
  BY <1>1, <1>2, <1>4, <1>5, AppendNoCredit DEF Picked, Unsettled
<1> HIDE DEF d
<1>7. CountersMatchLedger(d) /\ AgentWithinPolicy(d)
  BY <1>5 DEF Picked, Unsettled, CountersMatchLedger, AgentWithinPolicy, WithinPolicy
<1>8. PendingMatchesState(d) /\ CreditMatchesState(d)
  BY <1>5, <1>6 DEF PendingMatchesState, CreditMatchesState
<1> QED BY <1>4, <1>5, <1>7, <1>8 DEF RowOK, d

\* Deferral leaves a committed row that waits for its resume instant.
LEMMA DeferOK ==
  ASSUME NEW c, Picked(c), NEW now \in Nat, ResumeCandidates(c, now) # {}
  PROVE  /\ RowOK(DeferCase(c, now))
         /\ DeferCase(c, now).state = "AWAITING_OUTCOME"
<1> DEFINE d == DeferCase(c, now)
<1>1. c \in CaseRow /\ c.pending = 0 BY DEF Picked, Unsettled
<1>2. Max(ResumeCandidates(c, now)) \in Nat BY <1>1, ResumeCandidatesMax
<1>3. d \in CaseRow BY <1>1, <1>2 DEF DeferCase, CaseRow, CaseState
<1>4. /\ d.state = "AWAITING_OUTCOME" /\ d.pending = 0
      /\ d.outcomes = c.outcomes /\ d.actions = c.actions
      /\ d.attempts = c.attempts /\ d.messages = c.messages /\ d.flow = c.flow
      /\ d.lastAction = c.lastAction /\ d.deadline = c.deadline
  BY <1>1 DEF DeferCase, CaseRow
<1> HIDE DEF d
<1>5. InTime(d) = {} /\ Late(d) = {}
  BY <1>4 DEF Picked, Unsettled, InTime, Late
<1>6. CountersMatchLedger(d) /\ AgentWithinPolicy(d)
  BY <1>4 DEF Picked, Unsettled, CountersMatchLedger, AgentWithinPolicy, WithinPolicy
<1>7. PendingMatchesState(d) /\ CreditMatchesState(d)
  BY <1>4, <1>5 DEF PendingMatchesState, CreditMatchesState
<1> QED BY <1>3, <1>4, <1>6, <1>7 DEF RowOK, d

\* An execution leaves a committed row: the counters follow the ledger, and an
\* action of the agent's is within the policy when the gate was clear.
LEMMA RecordOK ==
  ASSUME NEW c, Unsettled(c), NEW type \in ExecutingActions, MatchesFlow(c, type),
         NEW now \in Nat, NEW by \in {"agent", "human"},
         by = "agent" => Clear(c, type, now)
  PROVE  /\ RowOK(RecordAction(c, type, now, by))
         /\ RecordAction(c, type, now, by).state = "AWAITING_OUTCOME"
<1> DEFINE d == RecordAction(c, type, now, by)
           a == Action(type, now, by)
           n == Len(c.actions)
<1>1. c \in CaseRow /\ c.pending = 0 /\ c.actions \in Seq(ExecutedAction) /\ n \in Nat
  BY DEF Unsettled, CaseRow
<1>2. a \in ExecutedAction BY DEF Action, ExecutedAction
<1>3. Append(c.actions, a) \in Seq(ExecutedAction) BY <1>1, <1>2
<1>4. d \in CaseRow
  <2>1. /\ c.attempts + 1 \in Nat
        /\ (IF type = "send_payment_link" THEN c.messages + 1 ELSE c.messages) \in Nat
    BY <1>1 DEF CaseRow
  <2> QED BY <1>1, <1>3, <2>1 DEF RecordAction, CaseRow, CaseState
<1>5. /\ d.state = "AWAITING_OUTCOME" /\ d.pending = 0
      /\ d.outcomes = c.outcomes /\ d.actions = Append(c.actions, a)
      /\ d.attempts = c.attempts + 1 /\ d.flow = c.flow
      /\ d.messages = IF type = "send_payment_link" THEN c.messages + 1 ELSE c.messages
      /\ d.lastAction = now /\ d.deadline = c.deadline
  BY <1>1 DEF RecordAction, CaseRow
<1> HIDE DEF d
<1>6. InTime(d) = {} /\ Late(d) = {}
  BY <1>5 DEF Unsettled, InTime, Late
<1>7. /\ Len(d.actions) = n + 1 /\ DOMAIN d.actions = 1 .. n + 1
      /\ d.actions[n + 1] = a /\ d.actions # <<>>
      /\ \A i \in 1 .. n : d.actions[i] = c.actions[i]
  BY <1>1, <1>2, <1>5
<1>8. c.attempts = n /\ c.messages = IF c.flow = "subscription_mandate" THEN 0 ELSE n
  BY DEF Unsettled, CountersMatchLedger
<1>9. CountersMatchLedger(d)
  <2>1. d.messages = IF d.flow = "subscription_mandate" THEN 0 ELSE n + 1
    BY <1>5, <1>8 DEF MatchesFlow
  <2>2. a.at = now BY DEF Action
  <2> QED BY <2>1, <2>2, <1>5, <1>7, <1>8 DEF CountersMatchLedger
<1>10. AgentWithinPolicy(d)
  <2> SUFFICES ASSUME NEW i \in 1 .. n + 1, d.actions[i].by = "agent"
               PROVE  WithinPolicy(d, i)
    BY <1>7 DEF AgentWithinPolicy
  <2>1. CASE i \in 1 .. n
    <3>1. WithinPolicy(c, i)
      BY <1>1, <1>7, <2>1 DEF Unsettled, AgentWithinPolicy
    <3>2. /\ d.actions[i] = c.actions[i]
          /\ \A j \in 1 .. i - 1 : d.actions[j] = c.actions[j]
      <4>1. \A j \in 1 .. i - 1 : j \in 1 .. n BY <1>1, <2>1
      <4>2. \A j \in 1 .. n : d.actions[j] = c.actions[j] BY <1>7
      <4> HIDE DEF n, a
      <4> QED BY <2>1, <4>1, <4>2
    <3>3. {j \in 1 .. i - 1 : /\ d.actions[j].type = "send_payment_link"
                              /\ d.actions[i].at < d.actions[j].at + CapWindow}
            = {j \in 1 .. i - 1 : /\ c.actions[j].type = "send_payment_link"
                                  /\ c.actions[i].at < c.actions[j].at + CapWindow}
      BY <3>2
    <3>4. i > 1 => d.actions[i - 1] = c.actions[i - 1]
      BY <1>1, <1>7, <2>1
    <3> QED BY <1>5, <1>7, <2>1, <3>1, <3>3, <3>4 DEF WithinPolicy
  <2>2. CASE i = n + 1
    <3>1. Clear(c, type, now) /\ a.at = now /\ a.type = type /\ d.actions[i] = a
      BY <1>7, <2>2 DEF Action
    <3>2. i <= MaxRetries /\ now < d.deadline
      BY <1>1, <1>5, <1>8, <2>2, <3>1, PolicyAssumption
      DEF Clear, RetriesExhausted, TtlElapsed, CaseRow
    <3>3. i > 1 => now >= d.actions[i - 1].at + Cooldown
      <4> SUFFICES ASSUME i > 1 PROVE now >= d.actions[n].at + Cooldown
        BY <1>1, <2>2
      <4>1. n \in 1 .. n /\ c.actions # <<>> BY <1>1, <2>2
      <4>2. c.lastAction = c.actions[n].at BY <4>1 DEF Unsettled, CountersMatchLedger
      <4>3. c.actions[n].at \in Nat
        <5>1. c.actions[n] \in ExecutedAction BY <1>1, <4>1
        <5> QED BY <5>1 DEF ExecutedAction
      <4>4. c.lastAction # None BY <4>2, <4>3, PolicyAssumption
      <4>5. ~(now < c.actions[n].at + Cooldown)
        BY <3>1, <4>2, <4>4 DEF Clear, CooldownActive
      <4>6. d.actions[n] = c.actions[n] BY <1>7, <4>1
      <4>7. now >= c.actions[n].at + Cooldown BY <4>3, <4>5, PolicyAssumption
      <4> QED BY <4>6, <4>7
    <3>4. type = "send_payment_link" =>
            /\ ~Quiet(now)
            /\ Cardinality({j \in 1 .. i - 1 : /\ d.actions[j].type = "send_payment_link"
                                               /\ now < d.actions[j].at + CapWindow}) < MessageCap
      <4>1. RecentMessages(c, now)
              = {j \in 1 .. i - 1 : /\ d.actions[j].type = "send_payment_link"
                                    /\ now < d.actions[j].at + CapWindow}
        BY <1>1, <1>7, <2>2 DEF RecentMessages
      <4> QED BY <3>1, <4>1 DEF Clear
    <3> QED BY <3>1, <3>2, <3>3, <3>4 DEF WithinPolicy
  <2> QED BY <1>1, <2>1, <2>2
<1>11. PendingMatchesState(d) /\ CreditMatchesState(d)
  BY <1>5, <1>6 DEF PendingMatchesState, CreditMatchesState
<1> QED BY <1>4, <1>5, <1>9, <1>10, <1>11 DEF RowOK, d

-----------------------------------------------------------------------------
(* The handlers.                                                           *)

\* What a pass of the pipeline leaves: a good row, out of PROCESSING along the
\* transition table, and whole objects at the gateway.
Handled(r) ==
  /\ RowOK(r.row)
  /\ r.row.state \in AllowedTransitions["PROCESSING"]
  /\ r.made \in Nat

\* Only the pipeline's own reasons are written to a row.
LEMMA CandidateShape ==
  ASSUME NEW c, NEW now, NEW diagnosis, NEW p \in Decide(c, now, diagnosis)
  PROVE  /\ p.action \in ExecutingActions \cup {"stop", "escalate_human"}
         /\ p.action = "stop" => p.reason \in StopReasons
         /\ p.action = "escalate_human" => p.reason \in EscalationReasons
<1>1. p \in Candidates(c, now, diagnosis) \/ p = Escalate("decision_unavailable")
  BY DEF Decide
<1>2. CASE p = Escalate("decision_unavailable")
  BY <1>2 DEF Escalate, Proposal, EscalationReasons
<1>3. CASE p \in Candidates(c, now, diagnosis)
  <2>1. \/ \E reason \in StopReasons : p = Stop(reason)
        \/ \E reason \in EscalationReasons : p = Escalate(reason)
        \/ p = MandateRetry
        \/ \E ch \in AvailableChannels(c) : p = Link(ch)
    BY <1>3 DEF Candidates, StopReasons, EscalationReasons
  <2> QED
    BY <2>1 DEF Stop, Escalate, MandateRetry, Link, Proposal, ExecutingActions
<1> QED BY <1>1, <1>2, <1>3

\* The gateway answers a call with some number of objects made.
LEMMA CallShape ==
  ASSUME NEW simulated, NEW call \in ClientCalls(simulated)
  PROVE  call.made \in Nat /\ (call.ok /\ ~simulated => call.made >= 1)
BY LostRepliesAssumption DEF ClientCalls, LiveReplies

\* Executing a proposal the gate let through leaves a good row.
LEMMA ExecuteOK ==
  ASSUME NEW c, Picked(c), NEW now \in Nat, NEW diagnosis,
         NEW p \in Decide(c, now, diagnosis), CheckGuardrails(c, p, now) = {},
         NEW r \in ExecuteResults(c, p, now)
  PROVE  Handled(r)
<1>1. CASE p.action = "stop"
  <2>1. r = Result(StopCase(c, p.reason), 0) BY <1>1 DEF ExecuteResults, ExecutingActions
  <2>2. p.reason \in StopReasons BY <1>1, CandidateShape
  <2> QED BY <2>1, <2>2, StopOK DEF Handled, Result, AllowedTransitions
<1>2. CASE p.action = "escalate_human"
  <2>1. r = Result(EscalateCase(c, p.reason), 0) BY <1>2 DEF ExecuteResults, ExecutingActions
  <2>2. p.reason \in EscalationReasons BY <1>2, CandidateShape
  <2> QED BY <2>1, <2>2, EscalateOK DEF Handled, Result, AllowedTransitions
<1>3. CASE p.action \in ExecutingActions
  <2>1. PICK call \in ClientCalls(c.synthetic) :
          r = Result(IF call.ok THEN RecordAction(c, p.action, now, "agent")
                                ELSE EscalateCase(c, "execution_failed"), call.made)
    BY <1>3 DEF ExecuteResults, ExecutingActions
  <2>2. call.made \in Nat BY CallShape
  <2>3. CASE call.ok
    <3>1. Clear(c, p.action, now) /\ MatchesFlow(c, p.action)
      BY <1>3, GateClears DEF Picked, Unsettled
    <3>2. /\ RowOK(RecordAction(c, p.action, now, "agent"))
          /\ RecordAction(c, p.action, now, "agent").state = "AWAITING_OUTCOME"
      BY <1>3, <3>1, RecordOK DEF Picked
    <3> QED BY <2>1, <2>2, <2>3, <3>2 DEF Handled, Result, AllowedTransitions
  <2>4. CASE ~call.ok
    <3>1. "execution_failed" \in EscalationReasons BY DEF EscalationReasons
    <3> QED BY <2>1, <2>2, <2>4, <3>1, EscalateOK DEF Handled, Result, AllowedTransitions
  <2> QED BY <2>3, <2>4
<1> QED BY <1>1, <1>2, <1>3, CandidateShape

\* So does a refusal, deferred or escalated.
LEMMA BlockedOK ==
  ASSUME NEW c, Picked(c), NEW now \in Nat, NEW broken
  PROVE  Handled(Result(BlockedCase(c, broken, now), 0))
<1>1. {"guardrail_block", "timing_block"} \subseteq EscalationReasons BY DEF EscalationReasons
<1>2. CASE ~(broken \subseteq TimingRules)
  BY <1>1, <1>2, EscalateOK DEF BlockedCase, Handled, Result, AllowedTransitions
<1>3. CASE broken \subseteq TimingRules /\ ResumeCandidates(c, now) = {}
  BY <1>1, <1>3, EscalateOK DEF BlockedCase, Handled, Result, AllowedTransitions
<1>4. CASE broken \subseteq TimingRules /\ ResumeCandidates(c, now) # {}
  BY <1>4, DeferOK DEF BlockedCase, Handled, Result, AllowedTransitions
<1> QED BY <1>2, <1>3, <1>4

\* process_case turns a good row into a good row, whatever the diagnosis, the
\* model and the gateway answer.
THEOREM ProcessOK ==
  ASSUME NEW c, RowOK(c), NEW now \in Nat, NEW r \in ProcessResults(c, now)
  PROVE  /\ Handled(r)
         /\ c.state \in {"NEW", "AWAITING_OUTCOME"}
<1> DEFINE q == [c EXCEPT !.deferred = None, !.state = "PROCESSING"]
<1>1. c \in CaseRow BY DEF RowOK
<1>2. CanMove(c.state, "PROCESSING") BY DEF ProcessResults
<1>3. c.state \in {"NEW", "AWAITING_OUTCOME"}
  BY <1>1, <1>2 DEF CanMove, AllowedTransitions, CaseRow, CaseState
<1>4. q \in CaseRow BY <1>1 DEF CaseRow, CaseState
<1>5. /\ q.state = "PROCESSING" /\ q.pending = c.pending
      /\ q.outcomes = c.outcomes /\ q.actions = c.actions
      /\ q.attempts = c.attempts /\ q.messages = c.messages /\ q.flow = c.flow
      /\ q.lastAction = c.lastAction /\ q.deadline = c.deadline
  BY <1>1 DEF CaseRow
<1>6. PICK d \in Diagnoses(c) : r \in DecideResults(q, d, now)
  BY <1>2 DEF ProcessResults
<1> HIDE DEF q
<1>7. c.pending = 0 /\ InTime(c) = {} /\ Late(c) = {}
  BY <1>3 DEF RowOK, PendingMatchesState, CreditMatchesState
<1>8. InTime(q) = {} /\ Late(q) = {}
  BY <1>5, <1>7 DEF InTime, Late
<1>9. CountersMatchLedger(q) /\ AgentWithinPolicy(q)
  BY <1>5 DEF RowOK, CountersMatchLedger, AgentWithinPolicy, WithinPolicy
<1>10. Picked(q)
  BY <1>4, <1>5, <1>7, <1>8, <1>9 DEF Picked, Unsettled
<1>11. CASE d = "unavailable"
  <2>1. "diagnosis_unavailable" \in EscalationReasons BY DEF EscalationReasons
  <2> QED
    BY <1>3, <1>6, <1>10, <1>11, <2>1, EscalateOK
    DEF DecideResults, Handled, Result, AllowedTransitions
<1>12. CASE d # "unavailable"
  <2>1. PICK p \in Decide(q, now, d) : r \in GateResults(q, p, now)
    BY <1>6, <1>12 DEF DecideResults
  <2>2. CASE CheckGuardrails(q, p, now) = {}
    <3>1. r \in ExecuteResults(q, p, now) BY <2>1, <2>2 DEF GateResults
    <3> QED BY <1>3, <1>10, <2>2, <3>1, ExecuteOK
  <2>3. CASE CheckGuardrails(q, p, now) # {}
    <3>1. r = Result(BlockedCase(q, CheckGuardrails(q, p, now), now), 0)
      BY <2>1, <2>3 DEF GateResults
    <3> QED BY <1>3, <1>10, <3>1, BlockedOK
  <2> QED BY <2>2, <2>3
<1> QED BY <1>11, <1>12

\* A new case is a good row.
THEOREM NewCaseOK ==
  ASSUME NEW profile \in Profile, NEW now \in Nat
  PROVE  RowOK(NewCase(profile, now)) /\ NewCase(profile, now).state = "NEW"
<1> DEFINE d == NewCase(profile, now)
<1>1. now + CaseTtl \in Nat BY PolicyAssumption
<1>2. d \in CaseRow
  BY <1>1 DEF NewCase, Profile, CaseRow, CaseState
<1>3. /\ d.state = "NEW" /\ d.pending = 0 /\ d.attempts = 0 /\ d.messages = 0
      /\ d.lastAction = None /\ d.actions = <<>> /\ d.outcomes = <<>>
  BY DEF NewCase
<1> HIDE DEF d
<1>4. InTime(d) = {} /\ Late(d) = {} BY <1>3 DEF InTime, Late
<1> QED
  BY <1>2, <1>3, <1>4
  DEF RowOK, PendingMatchesState, CountersMatchLedger, CreditMatchesState, AgentWithinPolicy, d

\* approve_and_send leaves a good row: it takes the pending approval with it, or
\* fails and changes nothing.
THEOREM ApproveOK ==
  ASSUME NEW c, RowOK(c), NEW now \in Nat, NEW r \in ApproveResults(c, now)
  PROVE  /\ RowOK(r.row) /\ r.made \in Nat
         /\ c.state = "ESCALATED_TO_HUMAN"
         /\ r.row = c \/ r.row.state = "AWAITING_OUTCOME"
<1> DEFINE q == [c EXCEPT !.pending = @ - 1]
<1>1. c \in CaseRow /\ c.state = "ESCALATED_TO_HUMAN" /\ c.pending > 0
  BY DEF RowOK, ApproveResults
<1>2. c.pending = 1 /\ InTime(c) = {} /\ Late(c) = {}
  BY <1>1 DEF RowOK, PendingMatchesState, CreditMatchesState
<1>3. q \in CaseRow
  <2>1. c.pending - 1 \in Nat BY <1>2
  <2> QED BY <1>1, <2>1 DEF CaseRow
<1>4. /\ q.pending = c.pending - 1
      /\ q.outcomes = c.outcomes /\ q.actions = c.actions
      /\ q.attempts = c.attempts /\ q.messages = c.messages /\ q.flow = c.flow
      /\ q.lastAction = c.lastAction /\ q.deadline = c.deadline
  BY <1>1 DEF CaseRow
<1>5. PICK call \in ClientCalls(FALSE) :
        r = Result(IF call.ok THEN RecordAction(q, ApprovedAction(c), now, "human")
                              ELSE c, call.made)
  BY <1>1 DEF ApproveResults
<1> HIDE DEF q
<1>6. Unsettled(q)
  <2>1. InTime(q) = {} /\ Late(q) = {} BY <1>2, <1>4 DEF InTime, Late
  <2>2. CountersMatchLedger(q) /\ AgentWithinPolicy(q)
    BY <1>4 DEF RowOK, CountersMatchLedger, AgentWithinPolicy, WithinPolicy
  <2> QED BY <1>2, <1>3, <1>4, <2>1, <2>2 DEF Unsettled
<1>7. ApprovedAction(c) \in ExecutingActions /\ MatchesFlow(q, ApprovedAction(c))
  BY <1>4 DEF ApprovedAction, MatchesFlow, ExecutingActions
<1>8. /\ RowOK(RecordAction(q, ApprovedAction(c), now, "human"))
      /\ RecordAction(q, ApprovedAction(c), now, "human").state = "AWAITING_OUTCOME"
  BY <1>6, <1>7, RecordOK
<1>9. call.made \in Nat BY CallShape
<1> QED BY <1>1, <1>5, <1>8, <1>9 DEF Result

\* mark_lost leaves a good row.
THEOREM MarkLostOK ==
  ASSUME NEW c, RowOK(c), c.state = "AWAITING_OUTCOME"
  PROVE  RowOK(MarkLost(c)) /\ MarkLost(c).state = "LOST"
<1> DEFINE d == MarkLost(c)
           o == Outcome("LOST", None, FALSE)
<1>1. c \in CaseRow /\ c.pending = 0 /\ InTime(c) = {} /\ Late(c) = {}
  BY DEF RowOK, PendingMatchesState, CreditMatchesState
<1>2. o \in OutcomeRow /\ o.type # "RECOVERED" /\ ~o.late BY DEF Outcome, OutcomeRow
<1>3. Append(c.outcomes, o) \in Seq(OutcomeRow)
  <2>1. c.outcomes \in Seq(OutcomeRow) BY <1>1 DEF CaseRow
  <2> HIDE DEF o
  <2> QED BY <1>2, <2>1
<1>4. d \in CaseRow BY <1>1, <1>3 DEF MarkLost, CaseRow, CaseState
<1>5. /\ d.state = "LOST" /\ d.pending = c.pending
      /\ d.outcomes = Append(c.outcomes, o) /\ d.actions = c.actions
      /\ d.attempts = c.attempts /\ d.messages = c.messages /\ d.flow = c.flow
      /\ d.lastAction = c.lastAction /\ d.deadline = c.deadline
  BY <1>1 DEF MarkLost, CaseRow
<1> HIDE DEF d
<1>6. InTime(d) = {} /\ Late(d) = {}
  BY <1>1, <1>2, <1>4, <1>5, AppendNoCredit
<1>7. CountersMatchLedger(d) /\ AgentWithinPolicy(d)
  BY <1>5 DEF RowOK, CountersMatchLedger, AgentWithinPolicy, WithinPolicy
<1>8. PendingMatchesState(d) /\ CreditMatchesState(d)
  BY <1>1, <1>5, <1>6 DEF PendingMatchesState, CreditMatchesState
<1> QED BY <1>4, <1>5, <1>7, <1>8 DEF RowOK, d

\* record_recovery leaves a good row: the one credit in time makes the case
\* RECOVERED, and a case already LOST stays LOST with a late one.
THEOREM RecordRecoveryOK ==
  ASSUME NEW c, RowOK(c), c.state \in {"AWAITING_OUTCOME", "LOST"}, NEW p \in Payments
  PROVE  /\ RowOK(RecordRecovery(c, p))
         /\ RecordRecovery(c, p).state = IF c.state = "LOST" THEN "LOST" ELSE "RECOVERED"
<1> DEFINE d == RecordRecovery(c, p)
           late == c.state = "LOST"
           o == Outcome("RECOVERED", p, late)
           n == Len(c.outcomes)
<1>1. /\ c \in CaseRow /\ c.pending = 0 /\ InTime(c) = {}
      /\ ~late => Late(c) = {}
  BY DEF RowOK, PendingMatchesState, CreditMatchesState
<1>2. o \in OutcomeRow /\ o.type = "RECOVERED" /\ o.late = late
  BY DEF Outcome, OutcomeRow
<1>3. c.outcomes \in Seq(OutcomeRow) /\ Append(c.outcomes, o) \in Seq(OutcomeRow)
  <2>1. c.outcomes \in Seq(OutcomeRow) BY <1>1 DEF CaseRow
  <2> HIDE DEF o
  <2> QED BY <1>2, <2>1
<1>4. d \in CaseRow /\ d.outcomes = Append(c.outcomes, o)
  <2>1. CASE late
    BY <1>1, <1>3, <2>1 DEF RecordRecovery, CaseRow, CaseState
  <2>2. CASE ~late
    BY <1>1, <1>3, <2>2 DEF RecordRecovery, CaseRow, CaseState
  <2> QED BY <2>1, <2>2
<1>5. /\ d.state = (IF late THEN "LOST" ELSE "RECOVERED") /\ d.pending = c.pending
      /\ d.actions = c.actions
      /\ d.attempts = c.attempts /\ d.messages = c.messages /\ d.flow = c.flow
      /\ d.lastAction = c.lastAction /\ d.deadline = c.deadline
  BY <1>1 DEF RecordRecovery, CaseRow
<1> HIDE DEF d
<1>6. /\ DOMAIN d.outcomes = 1 .. n + 1 /\ n \in Nat
      /\ d.outcomes[n + 1] = o
      /\ \A i \in 1 .. n : i \in DOMAIN c.outcomes /\ d.outcomes[i] = c.outcomes[i]
  <2> HIDE DEF o
  <2> QED BY <1>3, <1>4
<1>7. \A i \in 1 .. n + 1 : i = n + 1 \/ i \in 1 .. n BY <1>6
<1>8. InTime(d) = IF late THEN {} ELSE {n + 1}
  <2>1. \A i \in 1 .. n : ~(d.outcomes[i].type = "RECOVERED" /\ ~d.outcomes[i].late)
    BY <1>1, <1>6 DEF InTime
  <2>2. d.outcomes[n + 1].type = "RECOVERED" /\ d.outcomes[n + 1].late = late
    BY <1>2, <1>6
  <2>3. n + 1 \in 1 .. n + 1 BY <1>6
  <2>4. \A i \in DOMAIN d.outcomes :
          (d.outcomes[i].type = "RECOVERED" /\ ~d.outcomes[i].late) <=> (i = n + 1 /\ ~late)
    BY <1>6, <1>7, <2>1, <2>2
  <2> HIDE DEF late
  <2> QED BY <1>6, <2>3, <2>4 DEF InTime
<1>9. Late(d) # {} => late
  BY <1>1, <1>2, <1>6, <1>7 DEF Late
<1>10. CreditMatchesState(d)
  BY <1>5, <1>8, <1>9 DEF CreditMatchesState
<1>11. CountersMatchLedger(d) /\ AgentWithinPolicy(d)
  BY <1>5 DEF RowOK, CountersMatchLedger, AgentWithinPolicy, WithinPolicy
<1>12. PendingMatchesState(d)
  BY <1>1, <1>5 DEF PendingMatchesState
<1> QED BY <1>4, <1>5, <1>10, <1>11, <1>12 DEF RowOK, d

\* The maintenance pass leaves a good row, and touches open cases only.
THEOREM MaintainOK ==
  ASSUME NEW c, RowOK(c), NEW now \in Nat, NEW r \in MaintainResults(c, now)
  PROVE  /\ RowOK(r.row) /\ r.made \in Nat
         /\ \/ r.row = c
            \/ /\ c.state = "AWAITING_OUTCOME"
               /\ r.row.state \in AllowedTransitions["PROCESSING"] \cup {"LOST"}
<1>1. CASE r = Result(c, 0) BY <1>1 DEF Result
<1>2. CASE c.state = "AWAITING_OUTCOME" /\ r = Result(MarkLost(c), 0)
  BY <1>2, MarkLostOK DEF Result
<1>3. CASE c.state = "AWAITING_OUTCOME" /\ r \in ProcessResults(c, now)
  BY <1>3, ProcessOK DEF Handled
<1> QED BY <1>1, <1>2, <1>3 DEF MaintainResults

-----------------------------------------------------------------------------
(* What a pass of the pipeline leaves of the row it was given.             *)

\* The fields no handler writes.
Keeps(c, d) ==
  /\ d.flow = c.flow /\ d.orderRef = c.orderRef /\ d.synthetic = c.synthetic
  /\ d.deadline = c.deadline

SameLedger(c, d) ==
  /\ d.actions = c.actions /\ d.attempts = c.attempts /\ d.messages = c.messages
  /\ d.lastAction = c.lastAction

\* The rules of the gate that a proposal of the decision step can still break.
MessageRefused(c, now) ==
  /\ c.flow # "subscription_mandate"
  /\ ~c.orderRef \/ Cardinality(RecentMessages(c, now)) >= MessageCap

StopLeaves(c, now, d) ==
  /\ d.state = "STOPPED_UNRECOVERABLE" /\ d.deferred = None /\ SameLedger(c, d)
  /\ d.outcomes = Append(c.outcomes, Outcome("STOPPED", None, FALSE))
  /\ d.reason = "ttl" => TtlElapsed(c, now)

EscalateLeaves(c, now, d) ==
  /\ d.state = "ESCALATED_TO_HUMAN" /\ d.deferred = None /\ SameLedger(c, d)
  /\ d.outcomes = Append(c.outcomes, Outcome("ESCALATED", None, FALSE))
  /\ d.reason = "retry_cap" => RetriesExhausted(c)
  /\ d.reason = "guardrail_block" => MessageRefused(c, now)
  /\ d.reason = "timing_block" => Quiet(now) /\ ResumeCandidates(c, now) = {}

DeferLeaves(c, now, d) ==
  /\ d.state = "AWAITING_OUTCOME" /\ SameLedger(c, d)
  /\ d.outcomes = c.outcomes
  /\ ResumeCandidates(c, now) # {} /\ d.deferred = Max(ResumeCandidates(c, now))

ActLeaves(c, now, d) ==
  /\ d.state = "AWAITING_OUTCOME" /\ d.deferred = None
  /\ d.outcomes = c.outcomes
  /\ d.attempts = c.attempts + 1 /\ d.lastAction = now
  /\ \E type \in ExecutingActions : d.actions = Append(c.actions, Action(type, now, "agent"))

PassLeaves(c, now, d) ==
  /\ Keeps(c, d)
  /\ \/ StopLeaves(c, now, d) \/ EscalateLeaves(c, now, d)
     \/ DeferLeaves(c, now, d) \/ ActLeaves(c, now, d)

LEMMA StopShape ==
  ASSUME NEW c \in CaseRow, c.deferred = None, NEW now, NEW reason,
         reason = "ttl" => TtlElapsed(c, now)
  PROVE  PassLeaves(c, now, StopCase(c, reason))
<1> DEFINE d == StopCase(c, reason)
<1>1. /\ d.state = "STOPPED_UNRECOVERABLE" /\ d.deferred = None /\ d.reason = reason
      /\ d.outcomes = Append(c.outcomes, Outcome("STOPPED", None, FALSE))
      /\ d.actions = c.actions /\ d.attempts = c.attempts /\ d.messages = c.messages
      /\ d.lastAction = c.lastAction
  BY DEF StopCase, CaseRow
<1>2. Keeps(c, d) BY DEF StopCase, CaseRow, Keeps
<1> HIDE DEF d
<1>3. StopLeaves(c, now, d) BY <1>1 DEF StopLeaves, SameLedger
<1> QED BY <1>2, <1>3 DEF PassLeaves, d

LEMMA EscalateShape ==
  ASSUME NEW c \in CaseRow, c.deferred = None, NEW now, NEW reason,
         reason = "retry_cap" => RetriesExhausted(c),
         reason = "guardrail_block" => MessageRefused(c, now),
         reason = "timing_block" => Quiet(now) /\ ResumeCandidates(c, now) = {}
  PROVE  PassLeaves(c, now, EscalateCase(c, reason))
<1> DEFINE d == EscalateCase(c, reason)
<1>1. /\ d.state = "ESCALATED_TO_HUMAN" /\ d.deferred = None /\ d.reason = reason
      /\ d.outcomes = Append(c.outcomes, Outcome("ESCALATED", None, FALSE))
      /\ d.actions = c.actions /\ d.attempts = c.attempts /\ d.messages = c.messages
      /\ d.lastAction = c.lastAction
  BY DEF EscalateCase, CaseRow
<1>2. Keeps(c, d) BY DEF EscalateCase, CaseRow, Keeps
<1> HIDE DEF d
<1>3. EscalateLeaves(c, now, d) BY <1>1 DEF EscalateLeaves, SameLedger
<1> QED BY <1>2, <1>3 DEF PassLeaves, d

LEMMA DeferShape ==
  ASSUME NEW c \in CaseRow, NEW now, ResumeCandidates(c, now) # {}
  PROVE  PassLeaves(c, now, DeferCase(c, now))
<1> DEFINE d == DeferCase(c, now)
<1>1. /\ d.state = "AWAITING_OUTCOME" /\ d.deferred = Max(ResumeCandidates(c, now))
      /\ d.outcomes = c.outcomes
      /\ d.actions = c.actions /\ d.attempts = c.attempts /\ d.messages = c.messages
      /\ d.lastAction = c.lastAction
  BY DEF DeferCase, CaseRow
<1>2. Keeps(c, d) BY DEF DeferCase, CaseRow, Keeps
<1> HIDE DEF d
<1>3. DeferLeaves(c, now, d) BY <1>1 DEF DeferLeaves, SameLedger
<1> QED BY <1>2, <1>3 DEF PassLeaves, d

LEMMA RecordShape ==
  ASSUME NEW c \in CaseRow, c.deferred = None, NEW now, NEW type \in ExecutingActions
  PROVE  PassLeaves(c, now, RecordAction(c, type, now, "agent"))
<1> DEFINE d == RecordAction(c, type, now, "agent")
<1>1. /\ d.state = "AWAITING_OUTCOME" /\ d.deferred = None
      /\ d.outcomes = c.outcomes
      /\ d.actions = Append(c.actions, Action(type, now, "agent"))
      /\ d.attempts = c.attempts + 1 /\ d.lastAction = now
  BY DEF RecordAction, CaseRow
<1>2. Keeps(c, d) BY DEF RecordAction, CaseRow, Keeps
<1> HIDE DEF d
<1>3. ActLeaves(c, now, d) BY <1>1 DEF ActLeaves
<1> QED BY <1>2, <1>3 DEF PassLeaves, d

\* Why the decision step proposes what it proposes.
LEMMA CandidateReasons ==
  ASSUME NEW c, NEW now, NEW diagnosis, NEW p \in Decide(c, now, diagnosis)
  PROVE  /\ p.action = "stop" /\ p.reason = "ttl" => TtlElapsed(c, now)
         /\ p.action = "escalate_human" =>
              /\ p.reason = "retry_cap" => RetriesExhausted(c)
              /\ p.reason \notin {"guardrail_block", "timing_block"}
         /\ p.action \in ExecutingActions =>
              /\ ~TtlElapsed(c, now) /\ ~RetriesExhausted(c)
              /\ p.action = "retry_mandate_charge" => c.flow = "subscription_mandate"
              /\ p.action = "send_payment_link" =>
                   c.flow # "subscription_mandate" /\ p.channel \in AvailableChannels(c)
<1>1. p \in Candidates(c, now, diagnosis) \/ p = Escalate("decision_unavailable")
  BY DEF Decide
<1>2. CASE p = Escalate("decision_unavailable")
  BY <1>2 DEF Escalate, Proposal, ExecutingActions
<1>3. CASE p \in Candidates(c, now, diagnosis)
  <2>1. \/ p = Stop("ttl") /\ TtlElapsed(c, now)
        \/ p \in {Escalate("retry_cap"), Stop("retry_cap")} /\ RetriesExhausted(c)
        \/ p \in {Escalate("low_confidence"), Escalate("mandate_revoked"), Escalate("no_channel"),
                  Stop("customer_cancelled"), Stop("not_worthwhile")}
        \/ /\ p = MandateRetry /\ c.flow = "subscription_mandate"
           /\ ~TtlElapsed(c, now) /\ ~RetriesExhausted(c)
        \/ /\ \E ch \in AvailableChannels(c) : p = Link(ch)
           /\ c.flow # "subscription_mandate"
           /\ ~TtlElapsed(c, now) /\ ~RetriesExhausted(c)
    BY <1>3 DEF Candidates
  <2> QED
    BY <2>1 DEF Stop, Escalate, MandateRetry, Link, Proposal, ExecutingActions
<1> QED BY <1>1, <1>2, <1>3

\* The decision step has seen to every rule but four.
LEMMA BrokenRules ==
  ASSUME NEW c, c.state = "PROCESSING", NEW now, NEW diagnosis,
         NEW p \in Decide(c, now, diagnosis), p.action \in ExecutingActions
  PROVE  /\ CheckGuardrails(c, p, now)
              \subseteq TimingRules \cup {"message_cap_exceeded", "order_reference_missing"}
         /\ ~(CheckGuardrails(c, p, now) \subseteq TimingRules) => MessageRefused(c, now)
         /\ "quiet_hours" \in CheckGuardrails(c, p, now) => Quiet(now)
         /\ "cooldown_active" \in CheckGuardrails(c, p, now) => CooldownActive(c, now)
<1>1. /\ ~TtlElapsed(c, now) /\ ~RetriesExhausted(c)
      /\ p.action = "retry_mandate_charge" => c.flow = "subscription_mandate"
      /\ p.action = "send_payment_link" =>
           c.flow # "subscription_mandate" /\ p.channel \in AvailableChannels(c)
  BY CandidateReasons
<1>2. /\ RevenueViolations(c, now) \subseteq {"cooldown_active"}
      /\ "cooldown_active" \in RevenueViolations(c, now) => CooldownActive(c, now)
  BY <1>1 DEF RevenueViolations
<1>3. FlowViolations(c, p) = {}
  BY <1>1 DEF FlowViolations, ExecutingActions
<1>4. ASSUME p.action = "send_payment_link"
      PROVE  /\ MessageViolations(c, p, now)
                  \subseteq {"quiet_hours", "message_cap_exceeded", "order_reference_missing"}
             /\ "quiet_hours" \in MessageViolations(c, p, now) => Quiet(now)
             /\ MessageViolations(c, p, now) \cap {"message_cap_exceeded", "order_reference_missing"} # {}
                  => MessageRefused(c, now)
  <2>1. /\ p.channel \in AllowedChannels /\ SenderVerified(p.channel)
        /\ p.channel \in ConsentRequired => OptedIn(c, p.channel)
        /\ c.flow # "subscription_mandate"
    BY <1>1, <1>4 DEF AvailableChannels
  <2> QED BY <2>1 DEF MessageViolations, MessageRefused
<1>5. CASE p.action = "send_payment_link"
  <2>1. CheckGuardrails(c, p, now)
          = RevenueViolations(c, now) \cup FlowViolations(c, p) \cup MessageViolations(c, p, now)
    BY <1>5 DEF CheckGuardrails
  <2> HIDE DEF MessageRefused
  <2> QED BY <1>2, <1>3, <1>4, <1>5, <2>1 DEF TimingRules
<1>6. CASE p.action # "send_payment_link"
  <2>1. CheckGuardrails(c, p, now) = RevenueViolations(c, now) \cup FlowViolations(c, p)
    BY <1>6 DEF CheckGuardrails
  <2> QED BY <1>2, <1>3, <2>1 DEF TimingRules
<1> QED BY <1>5, <1>6

\* A pass stops, escalates, defers or acts, each for its reason and with its
\* effect on the row, and touches nothing else.
THEOREM ProcessLeaves ==
  ASSUME NEW c \in CaseRow, NEW now \in Nat, NEW r \in ProcessResults(c, now)
  PROVE  PassLeaves(c, now, r.row)
<1> DEFINE q == [c EXCEPT !.deferred = None, !.state = "PROCESSING"]
<1>1. q \in CaseRow BY DEF CaseRow, CaseState
<1>2. /\ q.state = "PROCESSING" /\ q.deferred = None
      /\ Keeps(c, q) /\ SameLedger(c, q) /\ q.outcomes = c.outcomes
  BY DEF CaseRow, Keeps, SameLedger
<1>3. PICK diagnosis \in Diagnoses(c) : r \in DecideResults(q, diagnosis, now)
  BY DEF ProcessResults
<1> HIDE DEF q
<1>4. PassLeaves(q, now, r.row) => PassLeaves(c, now, r.row)
  <2>1. /\ TtlElapsed(q, now) = TtlElapsed(c, now) /\ RetriesExhausted(q) = RetriesExhausted(c)
        /\ ResumeCandidates(q, now) = ResumeCandidates(c, now)
        /\ MessageRefused(q, now) = MessageRefused(c, now)
    BY <1>2
    DEF Keeps, SameLedger, TtlElapsed, RetriesExhausted, ResumeCandidates, CooldownActive,
        MessageRefused, RecentMessages
  <2> QED
    BY <1>2, <2>1
    DEF PassLeaves, Keeps, SameLedger, StopLeaves, EscalateLeaves, DeferLeaves, ActLeaves
<1>5. PassLeaves(q, now, r.row)
  <2>1. CASE diagnosis = "unavailable"
    <3>1. r.row = EscalateCase(q, "diagnosis_unavailable")
      BY <1>3, <2>1 DEF DecideResults, Result
    <3> QED BY <1>1, <1>2, <3>1, EscalateShape
  <2>2. CASE diagnosis # "unavailable"
    <3>1. PICK p \in Decide(q, now, diagnosis) : r \in GateResults(q, p, now)
      BY <1>3, <2>2 DEF DecideResults
    <3>2. CASE p.action = "stop"
      <4>1. r.row = StopCase(q, p.reason)
        BY <3>1, <3>2 DEF GateResults, CheckGuardrails, ExecuteResults, ExecutingActions, Result
      <4> QED BY <1>1, <1>2, <3>2, <4>1, CandidateReasons, StopShape
    <3>3. CASE p.action = "escalate_human"
      <4>1. r.row = EscalateCase(q, p.reason)
        BY <3>1, <3>3 DEF GateResults, CheckGuardrails, ExecuteResults, ExecutingActions, Result
      <4> QED BY <1>1, <1>2, <3>3, <4>1, CandidateReasons, EscalateShape
    <3>4. CASE p.action \in ExecutingActions
      <4> DEFINE broken == CheckGuardrails(q, p, now)
      <4>1. CASE broken = {}
        <5>1. PICK call \in ClientCalls(q.synthetic) :
                r.row = IF call.ok THEN RecordAction(q, p.action, now, "agent")
                                   ELSE EscalateCase(q, "execution_failed")
          BY <3>1, <3>4, <4>1 DEF GateResults, ExecuteResults, ExecutingActions, Result
        <5> QED BY <1>1, <1>2, <3>4, <5>1, RecordShape, EscalateShape
      <4>2. CASE broken # {}
        <5>1. r.row = BlockedCase(q, broken, now)
          BY <3>1, <4>2 DEF GateResults, Result
        <5>2. /\ ~(broken \subseteq TimingRules) => MessageRefused(q, now)
              /\ "quiet_hours" \in broken => Quiet(now)
              /\ "cooldown_active" \in broken => CooldownActive(q, now)
          BY <1>2, <3>1, <3>4, BrokenRules
        <5> HIDE DEF broken
        <5>3. CASE ~(broken \subseteq TimingRules)
          BY <1>1, <1>2, <5>1, <5>2, <5>3, EscalateShape DEF BlockedCase
        <5>4. CASE broken \subseteq TimingRules /\ ResumeCandidates(q, now) = {}
          <6>1. ~CooldownActive(q, now) BY <5>4 DEF ResumeCandidates
          <6>2. Quiet(now) BY <4>2, <5>2, <5>4, <6>1 DEF TimingRules
          <6> QED BY <1>1, <1>2, <5>1, <5>4, <6>2, EscalateShape DEF BlockedCase
        <5>5. CASE broken \subseteq TimingRules /\ ResumeCandidates(q, now) # {}
          BY <1>1, <5>1, <5>5, DeferShape DEF BlockedCase
        <5> QED BY <5>3, <5>4, <5>5
      <4> QED BY <4>1, <4>2
    <3> QED BY <3>1, <3>2, <3>3, <3>4, CandidateShape
  <2> QED BY <2>1, <2>2
<1> QED BY <1>4, <1>5

\* Out of cooldown, a deferral is for quiet hours: it lasts to their end, less
\* than a day ahead.
LEMMA DeferredToQuietEnd ==
  ASSUME NEW c \in CaseRow, NEW now \in Nat, ~CooldownActive(c, now), NEW d,
         DeferLeaves(c, now, d)
  PROVE  /\ InQuietHours(now, QuietStart, QuietEnd, SettingsOffset)
         /\ d.deferred \in Nat /\ d.deferred > now /\ d.deferred < now + DayLength
         /\ ~InQuietHours(d.deferred, QuietStart, QuietEnd, SettingsOffset)
<1>1. /\ QuietStart \in TimeOfDay /\ QuietEnd \in TimeOfDay /\ SettingsOffset \in Nat
  BY PolicyAssumption DEF TimeOfDay
<1>2. ResumeCandidates(c, now) = QuietHoursResume(now, QuietStart, QuietEnd, SettingsOffset)
  BY DEF ResumeCandidates
<1>3. InQuietHours(now, QuietStart, QuietEnd, SettingsOffset)
  BY <1>1, <1>2, ResumeAtFirstLoudInstant DEF DeferLeaves
<1>4. PICK r \in Nat :
        /\ ResumeCandidates(c, now) = {r} /\ now < r /\ r < now + DayLength
        /\ ~InQuietHours(r, QuietStart, QuietEnd, SettingsOffset)
  BY <1>1, <1>2, <1>3, ResumeAtFirstLoudInstant
<1>5. {r, r} = {r} /\ Max({r}) = r
  BY MaxOfPair
<1> QED BY <1>3, <1>4, <1>5 DEF DeferLeaves

\* The messages the cap counts are among the actions of the ledger.
LEMMA RecentMessagesBound ==
  ASSUME NEW c \in CaseRow, CountersMatchLedger(c), NEW now, c.flow # "subscription_mandate"
  PROVE  Cardinality(RecentMessages(c, now)) \in Nat
         /\ Cardinality(RecentMessages(c, now)) <= c.messages
<1>1. c.actions \in Seq(ExecutedAction) BY DEF CaseRow
<1>2. c.messages = Len(c.actions) /\ Len(c.actions) \in Nat BY <1>1 DEF CountersMatchLedger
<1>3. RecentMessages(c, now) \subseteq 1 .. Len(c.actions) BY <1>1 DEF RecentMessages
<1>4. IsFiniteSet(1 .. Len(c.actions)) /\ Cardinality(1 .. Len(c.actions)) = Len(c.actions)
  BY <1>2, FS_Interval
<1> QED BY <1>2, <1>3, <1>4, FS_Subset, FS_CardinalityType

\* An open case that is put off: until when, and with its ledger as it was.
Postponed(c, now, d) ==
  /\ SameLedger(c, d)
  /\ InQuietHours(now, QuietStart, QuietEnd, SettingsOffset)
  /\ d.deferred \in Nat /\ d.deferred > now /\ d.deferred < now + DayLength
  /\ ~InQuietHours(d.deferred, QuietStart, QuietEnd, SettingsOffset)
  /\ ~CooldownActive(d, d.deferred)

\* A pass on a case that is out of cooldown.
PassResult(c, now, d) ==
  /\ c.state \in {"NEW", "AWAITING_OUTCOME"}
  /\ PassLeaves(c, now, d)
  /\ d.state = "AWAITING_OUTCOME" => d.deferred # None \/ d.actions # <<>>
  /\ d.deferred # None => Postponed(c, now, d)

THEOREM ProcessOutOfCooldown ==
  ASSUME NEW c, RowOK(c), NEW now \in Nat, ~CooldownActive(c, now),
         NEW r \in ProcessResults(c, now)
  PROVE  PassResult(c, now, r.row)
<1> DEFINE d == r.row
<1>1. c.state \in {"NEW", "AWAITING_OUTCOME"} /\ PassLeaves(c, now, d)
  BY ProcessOK, ProcessLeaves DEF RowOK
<1>2. c \in CaseRow /\ c.actions \in Seq(ExecutedAction) BY DEF RowOK, CaseRow
<1> HIDE DEF d
<1>3. CASE DeferLeaves(c, now, d)
  <2>1. /\ InQuietHours(now, QuietStart, QuietEnd, SettingsOffset)
        /\ d.deferred \in Nat /\ d.deferred > now /\ d.deferred < now + DayLength
        /\ ~InQuietHours(d.deferred, QuietStart, QuietEnd, SettingsOffset)
    BY <1>2, <1>3, DeferredToQuietEnd
  <2>2. SameLedger(c, d) BY <1>3 DEF DeferLeaves
  <2>3. ~CooldownActive(d, d.deferred)
    BY <1>2, <2>1, <2>2, PolicyAssumption DEF CooldownActive, SameLedger, CaseRow
  <2>4. d.deferred # None BY <2>1, PolicyAssumption
  <2>5. Postponed(c, now, d) BY <2>1, <2>2, <2>3 DEF Postponed
  <2> QED BY <1>1, <2>4, <2>5 DEF PassResult, d
<1>4. CASE ActLeaves(c, now, d)
  <2>1. PICK type \in ExecutingActions : d.actions = Append(c.actions, Action(type, now, "agent"))
    BY <1>4 DEF ActLeaves
  <2>2. d.actions # <<>> BY <1>2, <2>1
  <2> QED BY <1>1, <1>4, <2>2 DEF PassResult, ActLeaves, d
<1>5. CASE StopLeaves(c, now, d) \/ EscalateLeaves(c, now, d)
  BY <1>1, <1>5 DEF PassResult, StopLeaves, EscalateLeaves, d
<1> QED BY <1>1, <1>3, <1>4, <1>5 DEF PassLeaves

\* What the other handlers leave.
LEMMA MarkLostShape ==
  ASSUME NEW c \in CaseRow
  PROVE  /\ Keeps(c, MarkLost(c)) /\ SameLedger(c, MarkLost(c))
         /\ MarkLost(c).state = "LOST" /\ MarkLost(c).deferred = c.deferred
         /\ MarkLost(c).outcomes = Append(c.outcomes, Outcome("LOST", None, FALSE))
BY DEF MarkLost, CaseRow, Keeps, SameLedger

LEMMA RecordRecoveryShape ==
  ASSUME NEW c \in CaseRow, NEW p
  PROVE  /\ Keeps(c, RecordRecovery(c, p)) /\ SameLedger(c, RecordRecovery(c, p))
         /\ RecordRecovery(c, p).state = IF c.state = "LOST" THEN "LOST" ELSE "RECOVERED"
         /\ RecordRecovery(c, p).deferred = c.deferred
         /\ RecordRecovery(c, p).outcomes
              = Append(c.outcomes, Outcome("RECOVERED", p, c.state = "LOST"))
<1>1. CASE c.state = "LOST" BY <1>1 DEF RecordRecovery, CaseRow, Keeps, SameLedger
<1>2. CASE c.state # "LOST" BY <1>2 DEF RecordRecovery, CaseRow, Keeps, SameLedger
<1> QED BY <1>1, <1>2

\* An approval that is executed.
ApproveLeaves(c, now, d) ==
  /\ Keeps(c, d)
  /\ d.state = "AWAITING_OUTCOME" /\ d.deferred = c.deferred
  /\ d.outcomes = c.outcomes
  /\ d.attempts = c.attempts + 1 /\ d.lastAction = now
  /\ \E type \in ExecutingActions : d.actions = Append(c.actions, Action(type, now, "human"))
  /\ d.actions # <<>>

LEMMA ApproveShape ==
  ASSUME NEW c \in CaseRow, NEW now \in Nat, NEW r \in ApproveResults(c, now)
  PROVE  /\ c.state = "ESCALATED_TO_HUMAN"
         /\ r.row = c \/ ApproveLeaves(c, now, r.row)
<1> DEFINE q == [c EXCEPT !.pending = @ - 1]
           d == RecordAction(q, ApprovedAction(c), now, "human")
<1>1. c.state = "ESCALATED_TO_HUMAN" BY DEF ApproveResults
<1>2. r.row \in {c, d}
  <2>1. PICK call \in ClientCalls(FALSE) : r = Result(IF call.ok THEN d ELSE c, call.made)
    BY <1>1 DEF ApproveResults
  <2> HIDE DEF d
  <2> QED BY <2>1 DEF Result
<1>3. /\ Keeps(c, d) /\ d.state = "AWAITING_OUTCOME" /\ d.deferred = c.deferred
      /\ d.outcomes = c.outcomes /\ d.attempts = c.attempts + 1 /\ d.lastAction = now
      /\ d.actions = Append(c.actions, Action(ApprovedAction(c), now, "human"))
  BY DEF RecordAction, CaseRow, Keeps
<1> HIDE DEF d
<1>4. ApprovedAction(c) \in ExecutingActions BY DEF ApprovedAction, ExecutingActions
<1>5. c.actions \in Seq(ExecutedAction) BY DEF CaseRow
<1>6. d.actions # <<>> BY <1>3, <1>5
<1>7. ApproveLeaves(c, now, d) BY <1>3, <1>4, <1>6 DEF ApproveLeaves
<1> QED BY <1>1, <1>2, <1>7

-----------------------------------------------------------------------------
(* Credit.                                                                 *)

\* The payments credited to a row in time, and late.
CreditIn(b) == {b.outcomes[i].payment : i \in InTime(b)}
LateIn(b)   == {b.outcomes[i].payment : i \in Late(b)}

\* Appending an outcome adds what it credits and nothing else.
LEMMA OutcomeCredits ==
  ASSUME NEW b \in CaseRow, NEW d, NEW o \in OutcomeRow, d.outcomes = Append(b.outcomes, o)
  PROVE  /\ o.type = "RECOVERED" /\ ~o.late => CreditIn(d) = CreditIn(b) \cup {o.payment}
         /\ o.type # "RECOVERED" \/ o.late => CreditIn(d) = CreditIn(b)
         /\ o.late => LateIn(d) = LateIn(b) \cup {o.payment}
         /\ ~o.late => LateIn(d) = LateIn(b)
<1> DEFINE n == Len(b.outcomes)
           credited == IF o.type = "RECOVERED" /\ ~o.late THEN {n + 1} ELSE {}
           late     == IF o.late THEN {n + 1} ELSE {}
<1>1. b.outcomes \in Seq(OutcomeRow) BY DEF CaseRow
<1>2. /\ n \in Nat /\ DOMAIN b.outcomes = 1 .. n /\ DOMAIN d.outcomes = 1 .. n + 1
      /\ d.outcomes[n + 1] = o /\ \A i \in 1 .. n : d.outcomes[i] = b.outcomes[i]
  BY <1>1
<1>3. 1 .. n + 1 = (1 .. n) \cup {n + 1} /\ n + 1 \notin 1 .. n BY <1>2
<1> HIDE DEF n
<1>4. InTime(d) = InTime(b) \cup credited BY <1>2, <1>3 DEF InTime
<1>5. Late(d) = Late(b) \cup late BY <1>2, <1>3 DEF Late
<1>6. \A i \in InTime(b) \cup Late(b) : d.outcomes[i] = b.outcomes[i] BY <1>2 DEF InTime, Late
<1> HIDE DEF credited, late
<1>7. CreditIn(d) = CreditIn(b) \cup {o.payment : i \in credited}
  <2>1. \A i \in credited : d.outcomes[i] = o BY <1>2 DEF credited
  <2> QED BY <1>4, <1>6, <2>1 DEF CreditIn
<1>8. LateIn(d) = LateIn(b) \cup {o.payment : i \in late}
  <2>1. \A i \in late : d.outcomes[i] = o BY <1>2 DEF late
  <2> QED BY <1>5, <1>6, <2>1 DEF LateIn
<1> QED BY <1>7, <1>8 DEF credited, late
=============================================================================
