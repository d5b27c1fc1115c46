---------------------------- MODULE CasePipeline ----------------------------
(***************************************************************************)
(* The handlers of app/services/pipeline.py on one case row.  A handler    *)
(* whose result depends on what the diagnosis, the model or the payment    *)
(* gateway answers is the set of its possible results: the row it leaves   *)
(* and the number of real objects (links, charges) it has made at the      *)
(* gateway, which no rollback takes back.                                  *)
(***************************************************************************)
EXTENDS Guardrails, CaseStates, PaymentClient, Sequences, FiniteSetsExt

CONSTANTS
  Payments,        \* the payments customers may make
  MaxLostReplies   \* gateway requests of one call that take effect but error

ASSUME LostRepliesAssumption == MaxLostReplies \in Nat
ASSUME PaymentsAssumption == None \notin Payments

TimingRules == {"quiet_hours", "cooldown_active"}

StopReasons == {"ttl", "retry_cap", "customer_cancelled", "not_worthwhile"}
EscalationReasons ==
  {"retry_cap", "low_confidence", "mandate_revoked", "no_channel", "decision_unavailable",
   "diagnosis_unavailable", "timing_block", "guardrail_block", "execution_failed"}

Action(type, at, by) == [type |-> type, at |-> at, by |-> by]
ExecutedAction == [type : ExecutingActions, at : Nat, by : {"agent", "human"}]

Outcome(type, payment, late) == [type |-> type, payment |-> payment, late |-> late]
OutcomeRow == [type : {"RECOVERED", "LOST", "STOPPED", "ESCALATED"},
               payment : Payments \cup {None}, late : BOOLEAN]

\* What the event and its customer fix: flow, error code, consents, whether the
\* event names an order or subscription, and whether it is synthetic.
Profile == [flow : Flows, code : Codes, optIn : SUBSET {"sms", "whatsapp"},
            orderRef : BOOLEAN, synthetic : BOOLEAN]

CaseRow ==
  [flow : Flows, code : Codes, optIn : SUBSET {"sms", "whatsapp"},
   orderRef : BOOLEAN, synthetic : BOOLEAN,
   state : CaseState, attempts : Nat, messages : Nat,
   lastAction : Nat \cup {None}, deadline : Nat, deferred : Nat \cup {None},
   pending : Nat,           \* actions with status PENDING_APPROVAL
   reason : StopReasons \cup EscalationReasons \cup {"ttl_elapsed", None},
   actions : Seq(ExecutedAction), outcomes : Seq(OutcomeRow)]

\* The deadline runs from the event; the policy is frozen with the row.
NewCase(profile, now) ==
  [flow |-> profile.flow, code |-> profile.code, optIn |-> profile.optIn,
   orderRef |-> profile.orderRef, synthetic |-> profile.synthetic,
   state |-> "NEW", attempts |-> 0, messages |-> 0,
   lastAction |-> None, deadline |-> now + CaseTtl, deferred |-> None,
   pending |-> 0, reason |-> None, actions |-> <<>>, outcomes |-> <<>>]

-----------------------------------------------------------------------------
(* The gateway, behind the retrying client of app/payments/client.py.      *)

Result(row, made) == [row |-> row, made |-> made]

\* Synthetic events are served by the mock, which always succeeds and makes
\* nothing real.
ClientCalls(simulated) ==
  IF simulated THEN {[ok |-> TRUE, made |-> 0]} ELSE LiveReplies(MaxLostReplies)

-----------------------------------------------------------------------------
(* Steps of a handler.                                                     *)

EscalateCase(c, reason) ==
  [c EXCEPT !.pending = @ + 1, !.reason = reason, !.state = "ESCALATED_TO_HUMAN",
            !.outcomes = Append(@, Outcome("ESCALATED", None, FALSE))]

StopCase(c, reason) ==
  [c EXCEPT !.reason = reason, !.state = "STOPPED_UNRECOVERABLE",
            !.outcomes = Append(@, Outcome("STOPPED", None, FALSE))]

\* Slip: mandate retries consume no attempt.
RecordActionFreeRetry(c, type, now, by) ==
  [c EXCEPT !.actions = Append(@, Action(type, now, by)),
            !.messages = IF type = "send_payment_link" THEN @ + 1 ELSE @,
            !.attempts = IF type = "send_payment_link" THEN @ + 1 ELSE @,
            !.lastAction = now, !.state = "AWAITING_OUTCOME"]

\* Only a real execution consumes an attempt and starts the cooldown clock.
RecordAction(c, type, now, by) ==
  [c EXCEPT !.actions = Append(@, Action(type, now, by)),
            !.messages = IF type = "send_payment_link" THEN @ + 1 ELSE @,
            !.attempts = @ + 1, !.lastAction = now, !.state = "AWAITING_OUTCOME"]

\* _timing_resume_at: the quiet window is evaluated in the settings timezone.
ResumeCandidates(c, now) ==
  QuietHoursResume(now, QuietStart, QuietEnd, SettingsOffset)
    \cup (IF CooldownActive(c, now) THEN {c.lastAction + Cooldown} ELSE {})

\* Slip: the resume instant is computed and not stored.
DeferCaseForgotten(c, now) == [c EXCEPT !.state = "AWAITING_OUTCOME"]

DeferCase(c, now) ==
  [c EXCEPT !.deferred = Max(ResumeCandidates(c, now)), !.state = "AWAITING_OUTCOME"]

BlockedCase(c, broken, now) ==
  IF ~(broken \subseteq TimingRules) THEN EscalateCase(c, "guardrail_block")
  ELSE IF ResumeCandidates(c, now) = {} THEN EscalateCase(c, "timing_block")
  ELSE DeferCase(c, now)

\* Slip: the action is recorded whether or not the gateway did it.
ExecuteResultsOptimistic(c, p, now) ==
  CASE p.action = "stop"           -> {Result(StopCase(c, p.reason), 0)}
    [] p.action = "escalate_human" -> {Result(EscalateCase(c, p.reason), 0)}
    [] p.action \in ExecutingActions ->
         {Result(RecordAction(c, p.action, now, "agent"), call.made) :
            call \in ClientCalls(c.synthetic)}

ExecuteResults(c, p, now) ==
  CASE p.action = "stop"           -> {Result(StopCase(c, p.reason), 0)}
    [] p.action = "escalate_human" -> {Result(EscalateCase(c, p.reason), 0)}
    [] p.action \in ExecutingActions ->
         {Result(IF call.ok THEN RecordAction(c, p.action, now, "agent")
                            ELSE EscalateCase(c, "execution_failed"), call.made) :
            call \in ClientCalls(c.synthetic)}

GateResults(c, p, now) ==
  LET broken == CheckGuardrails(c, p, now)
  IN  IF broken = {} THEN ExecuteResults(c, p, now)
      ELSE {Result(BlockedCase(c, broken, now), 0)}

DecideResults(c, diagnosis, now) ==
  IF diagnosis = "unavailable"
  THEN {Result(EscalateCase(c, "diagnosis_unavailable"), 0)}
  ELSE UNION {GateResults(c, p, now) : p \in Decide(c, now, diagnosis)}

-----------------------------------------------------------------------------
(* The handlers.                                                           *)

\* process_case: diagnosis, decision, gate, execution, in one transaction.
ProcessResults(c, now) ==
  LET picked == [c EXCEPT !.deferred = None, !.state = "PROCESSING"]
  IN  IF CanMove(c.state, "PROCESSING")
      THEN UNION {DecideResults(picked, d, now) : d \in Diagnoses(c)}
      ELSE {}

\* Slip: the approved row is repeated as it stands, an escalation.
ApprovedActionAsPending(c) == "escalate_human"

\* approve_and_send: no gate, and always the live client.  A failed execution
\* escapes the handler, so the row is rolled back.
ApprovedAction(c) ==
  IF c.flow = "subscription_mandate" THEN "retry_mandate_charge" ELSE "send_payment_link"

\* Slip: the approval stays pending after it was executed.
ApproveResultsPending(c, now) ==
  IF c.state = "ESCALATED_TO_HUMAN" /\ c.pending > 0
  THEN {Result(RecordAction(c, ApprovedAction(c), now, "human"), 1)}
  ELSE {}

\* Slip: a refusal of the gateway uses the approval up.
ApproveResultsConsumed(c, now) ==
  IF c.state = "ESCALATED_TO_HUMAN" /\ c.pending > 0
  THEN {Result(IF call.ok THEN RecordAction([c EXCEPT !.pending = @ - 1],
                                            ApprovedAction(c), now, "human")
                          ELSE [c EXCEPT !.pending = @ - 1], call.made) :
          call \in ClientCalls(FALSE)}
  ELSE {}

\* Slip: the approved action is recorded although the gateway refused it.
ApproveResultsOptimistic(c, now) ==
  IF c.state = "ESCALATED_TO_HUMAN" /\ c.pending > 0
  THEN {Result(RecordAction([c EXCEPT !.pending = @ - 1], ApprovedAction(c), now, "human"),
               call.made) : call \in ClientCalls(FALSE)}
  ELSE {}

ApproveResults(c, now) ==
  IF c.state = "ESCALATED_TO_HUMAN" /\ c.pending > 0
  THEN {Result(IF call.ok THEN RecordAction([c EXCEPT !.pending = @ - 1],
                                            ApprovedAction(c), now, "human")
                          ELSE c, call.made) : call \in ClientCalls(FALSE)}
  ELSE {}

MarkLost(c) ==
  [c EXCEPT !.state = "LOST", !.reason = "ttl_elapsed",
            !.outcomes = Append(@, Outcome("LOST", None, FALSE))]

\* Slip: a payment recovers its case, lost or not.
RecordRecoveryAlways(c, payment) ==
  [c EXCEPT !.state = "RECOVERED", !.reason = None,
            !.outcomes = Append(@, Outcome("RECOVERED", payment, c.state = "LOST"))]

\* A payment matched after the TTL is recorded and the case remains LOST.
RecordRecovery(c, payment) ==
  IF c.state = "LOST"
  THEN [c EXCEPT !.outcomes = Append(@, Outcome("RECOVERED", payment, TRUE))]
  ELSE [c EXCEPT !.state = "RECOVERED", !.reason = None,
                 !.outcomes = Append(@, Outcome("RECOVERED", payment, FALSE))]

\* Slip: due cases are requeued before the sweep looks at them.
MaintainResultsRequeueFirst(c, now) ==
  IF c.state # "AWAITING_OUTCOME" THEN {Result(c, 0)}
  ELSE IF c.deferred # None /\ c.deferred <= now THEN ProcessResults(c, now)
  ELSE IF c.deadline <= now THEN {Result(MarkLost(c), 0)}
  ELSE {Result(c, 0)}

\* Slip: the sweep was left to the replay.
MaintainResultsNoSweep(c, now) ==
  IF c.state = "AWAITING_OUTCOME" /\ c.deferred # None /\ c.deferred <= now
  THEN ProcessResults(c, now) ELSE {Result(c, 0)}

\* Slip: a deadline reached exactly now is not swept.
MaintainResultsStrict(c, now) ==
  IF c.state # "AWAITING_OUTCOME" THEN {Result(c, 0)}
  ELSE IF c.deadline < now THEN {Result(MarkLost(c), 0)}
  ELSE IF c.deferred # None /\ c.deferred <= now THEN ProcessResults(c, now)
  ELSE {Result(c, 0)}

\* Slip: cases that wait for a person are swept too.
MaintainResultsSweepAll(c, now) ==
  IF c.state \in {"AWAITING_OUTCOME", "ESCALATED_TO_HUMAN"} /\ c.deadline <= now
  THEN {Result(MarkLost(c), 0)}
  ELSE IF c.state = "AWAITING_OUTCOME" /\ c.deferred # None /\ c.deferred <= now
  THEN ProcessResults(c, now)
  ELSE {Result(c, 0)}

\* run_maintenance sweeps before it requeues, with the same `now`.
MaintainResults(c, now) ==
  IF c.state # "AWAITING_OUTCOME" THEN {Result(c, 0)}
  ELSE IF c.deadline <= now THEN {Result(MarkLost(c), 0)}
  ELSE IF c.deferred # None /\ c.deferred <= now THEN ProcessResults(c, now)
  ELSE {Result(c, 0)}

-----------------------------------------------------------------------------
(* What every committed row satisfies, whichever handler wrote it.         *)

\* A case waits for a person exactly while one approval is pending on it: no
\* escalation is left without its approval row, and no approval outlives it.
PendingMatchesState(c) ==
  c.pending = (IF c.state = "ESCALATED_TO_HUMAN" THEN 1 ELSE 0)

\* The counters the gate reads are those of the action ledger: every execution,
\* automatic or approved, consumed one attempt, and last_action_at is its instant.
CountersMatchLedger(c) ==
  /\ c.attempts = Len(c.actions)
  /\ c.messages = IF c.flow = "subscription_mandate" THEN 0 ELSE Len(c.actions)
  /\ c.lastAction = IF c.actions = <<>> THEN None ELSE c.actions[Len(c.actions)].at

InTime(c) == {i \in DOMAIN c.outcomes : c.outcomes[i].type = "RECOVERED" /\ ~c.outcomes[i].late}
Late(c)   == {i \in DOMAIN c.outcomes : c.outcomes[i].late}

\* A recovery is credited once: RECOVERED exactly when one in-time payment is
\* on the case, and a late payment only ever on a LOST one.
CreditMatchesState(c) ==
  /\ c.state = "RECOVERED" <=> InTime(c) # {}
  /\ \A i, j \in InTime(c) : i = j
  /\ Late(c) # {} => c.state = "LOST"

\* The i-th action, if the agent did it on its own, respected the policy at its
\* instant, given the actions before it.
WithinPolicy(c, i) ==
  LET a == c.actions[i] IN
    /\ i <= MaxRetries
    /\ a.at < c.deadline
    /\ i > 1 => a.at >= c.actions[i - 1].at + Cooldown
    /\ a.type = "send_payment_link" =>
         /\ ~Quiet(a.at)
         /\ Cardinality({j \in 1 .. i - 1 : /\ c.actions[j].type = "send_payment_link"
                                            /\ a.at < c.actions[j].at + CapWindow}) < MessageCap

\* What the agent did on its own respected the whole policy at the instant it
\* did it: retry cap, deadline, cooldown, quiet hours and message cap, counting
\* every earlier action of the case, across replay, deferral and maintenance.
AgentWithinPolicy(c) ==
  \A i \in DOMAIN c.actions : c.actions[i].by = "agent" => WithinPolicy(c, i)
=============================================================================
