----------------------------- MODULE Guardrails -----------------------------
(***************************************************************************)
(* The deterministic half of a decision: which proposals the decision step *)
(* may make for a case (app/agents/decision.py) and which rules the gate   *)
(* finds broken (app/guardrails/checks.py).  Both are functions of a case  *)
(* record, the policy and the instant.  The policy is constant here: every *)
(* case carries the snapshot taken when it was created.  Parameters that   *)
(* the pipeline copies from that same snapshot into the proposal (amount,  *)
(* link expiry, single use, hosted domain) equal the policy's by           *)
(* construction and are not represented.                                   *)
(***************************************************************************)
EXTENDS QuietHours, FiniteSets

CONSTANTS
  MaxRetries,        \* max_retries_per_case
  Cooldown,          \* retry_cooldown_hours
  MessageCap,        \* message_cap_per_case ...
  CapWindow,         \* ... within message_cap_window_days
  CaseTtl,           \* case_ttl_days
  QuietStart, QuietEnd,
  AllowedChannels, ConsentRequired,
  VerifiedSenders,   \* RECOUPR_SMS/WHATSAPP_SENDER_VERIFIED; email always is
  MerchantOffset,    \* Merchant.timezone, read by the gate
  SettingsOffset,    \* settings.merchant_timezone, read by the deferral
  None               \* the null of the database columns

Channels == {"email", "sms", "whatsapp"}

ASSUME PolicyAssumption ==
  /\ MaxRetries \in Nat /\ Cooldown \in Nat /\ MessageCap \in Nat /\ CapWindow \in Nat
  /\ CaseTtl \in Nat
  /\ QuietStart \in TimeOfDay /\ QuietEnd \in TimeOfDay
  /\ MerchantOffset \in TimeOfDay /\ SettingsOffset \in TimeOfDay
  /\ AllowedChannels \subseteq Channels /\ ConsentRequired \subseteq Channels
  /\ VerifiedSenders \subseteq {"sms", "whatsapp"}
  /\ None \notin Nat

Flows == {"payment_failure", "checkout_abandonment", "subscription_mandate"}

\* What an event's error code and text allow the diagnosis to be: the rule
\* table settles the first three, only "ambiguous" ones reach the model.
Codes == {"known", "cancelled", "revoked", "ambiguous"}

ExecutingActions == {"send_payment_link", "retry_mandate_charge"}

Diagnosis == {"recoverable", "customer_cancelled", "mandate_revoked", "low_confidence"}

\* An abandonment is diagnosed without looking at any code; a model that fails
\* raises DiagnosisUnavailable.
Diagnoses(c) ==
  CASE c.flow = "checkout_abandonment" \/ c.code = "known" -> {"recoverable"}
    [] c.flow # "checkout_abandonment" /\ c.code = "cancelled" -> {"customer_cancelled"}
    [] c.flow # "checkout_abandonment" /\ c.code = "revoked"   -> {"mandate_revoked"}
    [] OTHER -> Diagnosis \cup {"unavailable"}

Proposal(action, channel, reason) ==
  [action |-> action, channel |-> channel, reason |-> reason]
Escalate(reason) == Proposal("escalate_human", None, reason)
Stop(reason)     == Proposal("stop", None, reason)
Link(channel)    == Proposal("send_payment_link", channel, None)
MandateRetry     == Proposal("retry_mandate_charge", None, None)

\* Every channel other than sms looks up the whatsapp opt-in.
OptedIn(c, channel) ==
  IF channel = "sms" THEN "sms" \in c.optIn ELSE "whatsapp" \in c.optIn

SenderVerified(channel) == channel = "email" \/ channel \in VerifiedSenders

AvailableChannels(c) ==
  {ch \in AllowedChannels : /\ ch \in ConsentRequired => OptedIn(c, ch)
                            /\ SenderVerified(ch)}

TtlElapsed(c, now)  == now >= c.deadline
RetriesExhausted(c) == c.attempts >= MaxRetries

Candidates(c, now, diagnosis) ==
  IF TtlElapsed(c, now) THEN {Stop("ttl")}
  ELSE IF RetriesExhausted(c) THEN {Escalate("retry_cap"), Stop("retry_cap")}
  ELSE IF diagnosis = "low_confidence" THEN {Escalate("low_confidence")}
  ELSE IF diagnosis = "customer_cancelled" THEN {Stop("customer_cancelled")}
  ELSE IF c.flow = "subscription_mandate"
       THEN IF diagnosis = "mandate_revoked" THEN {Escalate("mandate_revoked")}
                                             ELSE {MandateRetry}
  ELSE IF AvailableChannels(c) = {} THEN {Escalate("no_channel")}
  ELSE {Link(ch) : ch \in AvailableChannels(c)} \cup {Stop("not_worthwhile")}

\* With several candidates the model picks one of them, or fails and the case
\* is escalated; the template's choice is the first and so one of these.
Decide(c, now, diagnosis) ==
  LET candidates == Candidates(c, now, diagnosis)
  IN  IF Cardinality(candidates) <= 1 THEN candidates
      ELSE candidates \cup {Escalate("decision_unavailable")}

CooldownActive(c, now) ==
  /\ c.lastAction # None
  /\ now < c.lastAction + Cooldown

\* messages_sent_at: the executed link actions still inside the window.
RecentMessages(c, now) ==
  {i \in DOMAIN c.actions : /\ c.actions[i].type = "send_payment_link"
                            /\ now < c.actions[i].at + CapWindow}

Quiet(now) == InQuietHours(now, QuietStart, QuietEnd, MerchantOffset)

\* Every rule a proposal to move money breaks; the gate names all of them.
RevenueViolations(c, now) ==
  {r \in {"case_not_actionable", "retry_cap_exceeded", "case_ttl_expired", "cooldown_active"} :
     \/ r = "case_not_actionable" /\ c.state = "AWAITING_OUTCOME"
     \/ r = "retry_cap_exceeded"  /\ RetriesExhausted(c)
     \/ r = "case_ttl_expired"    /\ TtlElapsed(c, now)
     \/ r = "cooldown_active"     /\ CooldownActive(c, now)}

\* Slip: quiet hours were left to the scheduler.
MessageViolationsAnyHour(c, p, now) ==
  {r \in {"channel_not_allowed", "consent_missing", "sender_unverified",
          "message_cap_exceeded", "order_reference_missing"} :
     \/ r = "channel_not_allowed"     /\ p.channel \notin AllowedChannels
     \/ r = "consent_missing"         /\ p.channel \in ConsentRequired /\ ~OptedIn(c, p.channel)
     \/ r = "sender_unverified"       /\ ~SenderVerified(p.channel)
     \/ r = "message_cap_exceeded"    /\ Cardinality(RecentMessages(c, now)) >= MessageCap
     \/ r = "order_reference_missing" /\ ~c.orderRef}

MessageViolations(c, p, now) ==
  {r \in {"channel_not_allowed", "consent_missing", "sender_unverified", "quiet_hours",
          "message_cap_exceeded", "order_reference_missing"} :
     \/ r = "channel_not_allowed"     /\ p.channel \notin AllowedChannels
     \/ r = "consent_missing"         /\ p.channel \in ConsentRequired /\ ~OptedIn(c, p.channel)
     \/ r = "sender_unverified"       /\ ~SenderVerified(p.channel)
     \/ r = "quiet_hours"             /\ Quiet(now)
     \/ r = "message_cap_exceeded"    /\ Cardinality(RecentMessages(c, now)) >= MessageCap
     \/ r = "order_reference_missing" /\ ~c.orderRef}

FlowViolations(c, p) ==
  {r \in {"action_flow_mismatch"} :
     IF p.action = "retry_mandate_charge" THEN c.flow # "subscription_mandate"
                                          ELSE c.flow = "subscription_mandate"}

\* Stopping and escalating are always permitted; a mandate retry is not subject
\* to quiet hours or message caps.
CheckGuardrails(c, p, now) ==
  IF p.action \notin ExecutingActions THEN {}
  ELSE RevenueViolations(c, now) \cup FlowViolations(c, p)
         \cup (IF p.action = "send_payment_link" THEN MessageViolations(c, p, now) ELSE {})
=============================================================================
