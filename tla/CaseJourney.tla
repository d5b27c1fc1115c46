----------------------------- MODULE CaseJourney ----------------------------
(***************************************************************************)
(* The life of one case.  A live case is born from a failure webhook at    *)
(* the current instant.  A synthetic case is born in the past: run_batch   *)
(* (app/simulation/batch.py) first replays its history on a simulated      *)
(* clock up to what it takes for the wall clock, and what is still open    *)
(* then is left to the maintenance scheduler, like a live case.  Between   *)
(* the commit of the batch and the observation of a case the scheduler,    *)
(* people and payments may already have reached it.  The retry cycle is    *)
(* exercised by the replay and finished by maintenance.                    *)
(***************************************************************************)
EXTENDS CasePipeline

CONSTANTS
  Profiles,      \* the kinds of case considered
  Births,        \* instants at which the failure may have happened
  ReplayAges,    \* how long before the wall clock a replayed failure may lie; the
                 \* generator places the last ones after it, by a negative age
  PayDelays,     \* delays after which a replayed customer may pay
  HoldStep,      \* the replay's observation step once the policy is exhausted
  MaxWakes,      \* _MAX_LOOP_GUARD
  MaxWait,       \* bound on a case's wait for its observation
  HostOffset,    \* the host's local time minus UTC
  Horizon,       \* bound on the wall clock
  MaxEffects     \* bound on real gateway objects before an approval

ASSUME JourneyAssumption ==
  /\ Profiles \subseteq Profile
  /\ Births \subseteq Nat /\ ReplayAges \subseteq Int /\ PayDelays \subseteq Nat
  /\ HoldStep \in Nat /\ MaxWakes \in Nat /\ Horizon \in Nat /\ MaxEffects \in Nat
  /\ HostOffset \in Nat /\ MaxWait \in Nat
  /\ \A born \in Births, age \in ReplayAges : born + age >= HostOffset

VARIABLES
  cs,       \* the case row
  phase,    \* who drives the case: "ingest", "queued" and the replay's phases, then "live"
  realNow,  \* real_now of the batch, read once when it starts
  simNow,   \* sim_now of the replay loop
  clock,    \* the wall clock, in UTC
  wakes,    \* loop_guard
  effects   \* links and charges made at the real gateway for this case

vars == <<cs, phase, realNow, simNow, clock, wakes, effects>>

\* Slip: the replay looks one unit ahead.
RealNowAhead == clock + HostOffset + 1

\* real_now is the host's local time, compared with instants in UTC.
RealNow == clock + HostOffset

Init ==
  \E profile \in Profiles, born \in Births :
    /\ cs = NewCase(profile, born)
    /\ simNow = born
    /\ IF profile.synthetic THEN \E age \in ReplayAges : clock = born + age - HostOffset
                            ELSE clock = born
    /\ realNow = RealNow
    /\ phase = "ingest"
    /\ wakes = 0
    /\ effects = 0

Commit(r) ==
  /\ cs' = r.row
  /\ effects' = effects + r.made

Process(now) == \E r \in ProcessResults(cs, now) : Commit(r)

\* The failure event opens the case and the pipeline works it at once.
Ingest ==
  /\ phase = "ingest"
  /\ Process(simNow)
  /\ phase' = IF cs.synthetic THEN "queued" ELSE "live"
  /\ UNCHANGED <<realNow, simNow, clock, wakes>>

-----------------------------------------------------------------------------
(* The replay's observation loop.                                          *)

Open == cs.state = "AWAITING_OUTCOME"

\* Slip: the observation starts at the event, whatever was done since.
ObserveFromBirth ==
  /\ phase = "queued"
  /\ phase' = "replay"
  /\ UNCHANGED <<cs, realNow, simNow, clock, wakes, effects>>

\* The loop's turn of this case; the row is loaded as it is by now.
Observe ==
  /\ phase = "queued"
  /\ simNow' = IF cs.lastAction = None THEN simNow ELSE cs.lastAction
  /\ phase' = "replay"
  /\ UNCHANGED <<cs, realNow, clock, wakes, effects>>

Iterating ==
  /\ phase = "replay"
  /\ Open
  /\ wakes < MaxWakes

\* Blocked before anything reached the customer.
Unreached == cs.deferred # None /\ cs.attempts = 0

Break == phase' = "closing" /\ UNCHANGED <<cs, realNow, simNow, clock, wakes, effects>>

WakeDeferred ==
  /\ Iterating /\ Unreached
  /\ cs.deferred <= realNow
  /\ simNow' = Max({simNow, cs.deferred})
  /\ Process(Max({simNow, cs.deferred}))
  /\ wakes' = wakes + 1
  /\ UNCHANGED <<phase, realNow, clock>>

DeferralAhead ==
  /\ Iterating /\ Unreached
  /\ cs.deferred > realNow
  /\ Break

\* The customer pays, unless that would be past the TTL or past the wall clock.
ReplayPayment ==
  /\ Iterating /\ ~Unreached
  /\ \E delay \in PayDelays :
       IF simNow + delay >= cs.deadline \/ simNow + delay > realNow THEN Break
       ELSE \E p \in Payments :
              /\ cs' = RecordRecovery(cs, p)
              /\ phase' = "closing"
              /\ UNCHANGED <<realNow, simNow, clock, wakes, effects>>

NextWake == simNow + Cooldown

LoseElapsed == IF cs.deadline <= realNow THEN MarkLost(cs) ELSE cs

\* The next wake-up would be past the deadline, or has not happened yet.
ObservationEnds ==
  /\ Iterating /\ ~Unreached
  /\ NextWake >= cs.deadline \/ NextWake > realNow
  /\ cs' = IF NextWake >= cs.deadline THEN LoseElapsed ELSE cs
  /\ phase' = "closing"
  /\ UNCHANGED <<realNow, simNow, clock, wakes, effects>>

\* Slip: only the retry cap ends the retries.
PolicyExhaustedByRetries == cs.attempts >= MaxRetries

PolicyExhausted == cs.attempts >= MaxRetries \/ cs.messages >= MessageCap

StartHold ==
  /\ Iterating /\ ~Unreached
  /\ NextWake < cs.deadline /\ NextWake <= realNow
  /\ PolicyExhausted
  /\ simNow' = NextWake
  /\ phase' = "holding"
  /\ wakes' = wakes + 1
  /\ UNCHANGED <<cs, realNow, clock, effects>>

RetryWake ==
  /\ Iterating /\ ~Unreached
  /\ NextWake < cs.deadline /\ NextWake <= realNow
  /\ ~PolicyExhausted
  /\ simNow' = NextWake
  /\ Process(NextWake)
  /\ wakes' = wakes + 1
  /\ UNCHANGED <<phase, realNow, clock>>

\* Holding: the last link stays live and is observed until it is paid, the
\* deadline passes or the wall clock is reached.
Hold ==
  LET at == simNow + HoldStep
  IN  /\ phase = "holding"
      /\ UNCHANGED <<realNow, clock, wakes, effects>>
      /\ \/ /\ at >= cs.deadline \/ at > realNow
            /\ cs' = IF at >= cs.deadline THEN LoseElapsed ELSE cs
            /\ phase' = "closing"
            /\ UNCHANGED simNow
         \/ /\ at < cs.deadline /\ at <= realNow
            /\ \E p \in Payments : cs' = RecordRecovery(cs, p)
            /\ phase' = "closing"
            /\ UNCHANGED simNow
         \/ /\ at < cs.deadline /\ at <= realNow
            /\ simNow' = at
            /\ UNCHANGED <<cs, phase>>

\* The replay's own sweep; its locals are gone and the scheduler takes over.
ReplayClose ==
  /\ phase = "closing" \/ (phase = "replay" /\ ~Iterating)
  /\ cs' = IF Open THEN LoseElapsed ELSE cs
  /\ phase' = "live"
  /\ realNow' = 0 /\ simNow' = 0 /\ wakes' = 0
  /\ UNCHANGED <<clock, effects>>

Replay ==
  \/ Observe \/ WakeDeferred \/ DeferralAhead \/ ReplayPayment \/ ObservationEnds
  \/ StartHold \/ RetryWake \/ Hold \/ ReplayClose

-----------------------------------------------------------------------------
(* Live operation.                                                         *)

\* Nothing but the row itself tells a case of a running batch from others.
Unattended == phase \in {"queued", "live"}

Tick ==
  /\ Unattended
  /\ clock < Horizon
  /\ phase = "queued" => RealNow < realNow + MaxWait
  /\ clock' = clock + 1
  /\ UNCHANGED <<cs, phase, realNow, simNow, wakes, effects>>

Maintain ==
  /\ Unattended
  /\ \E r \in MaintainResults(cs, clock) : Commit(r)
  /\ UNCHANGED <<phase, realNow, simNow, clock, wakes>>

\* A person approves the escalated case; when is up to them.
Approve ==
  /\ Unattended
  /\ effects <= MaxEffects
  /\ \E r \in ApproveResults(cs, clock) : Commit(r)
  /\ UNCHANGED <<phase, realNow, simNow, clock, wakes>>

Credited == {cs.outcomes[i].payment : i \in DOMAIN cs.outcomes} \ {None}

\* A success webhook for this case; repeated deliveries are LiveRecovery's.
Pay ==
  /\ Unattended
  /\ cs.state \in {"AWAITING_OUTCOME", "LOST"}
  /\ \E p \in Payments \ Credited : cs' = RecordRecovery(cs, p)
  /\ UNCHANGED <<phase, realNow, simNow, clock, wakes, effects>>

Next == Ingest \/ Replay \/ Tick \/ Maintain \/ Approve \/ Pay

\* The replay is a loop of one thread; the clock advances; the scheduler runs
\* its job again and again.  Nobody obliges a person to approve or to pay.
Fairness ==
  /\ WF_vars(Ingest) /\ WF_vars(Replay)
  /\ WF_vars(Tick) /\ WF_vars(Maintain)

Spec == Init /\ [][Next]_vars /\ Fairness
-----------------------------------------------------------------------------
(* Properties.                                                             *)

TypeOK ==
  /\ cs \in CaseRow
  /\ phase \in {"ingest", "queued", "replay", "holding", "closing", "live"}
  /\ realNow \in Nat /\ simNow \in Nat /\ clock \in Nat /\ wakes \in Nat /\ effects \in Nat

\* One approval is pending exactly while the case waits for a person.
PendingIffEscalated == PendingMatchesState(cs)

\* attempts, messages and last_action_at are those of the action ledger.
LedgerCounted == CountersMatchLedger(cs)

\* Every automatic action respected the whole policy when it was taken.
AgentStaysWithinPolicy == AgentWithinPolicy(cs)

\* An open case always waits for something that exists: an action already sent,
\* or a deferral that maintenance will pick up.
AwaitingHasACause == Open /\ phase # "ingest" => cs.deferred # None \/ cs.actions # <<>>

\* RECOVERED means one payment in time, and late payments are only on LOST.
CreditIffRecovered == CreditMatchesState(cs)

\* Every deferral lasts until the gate would let the agent act: at the resume
\* instant the merchant is out of quiet hours and the cooldown is over.
DeferralClearsTiming ==
  Open /\ cs.deferred # None =>
    /\ ~Quiet(cs.deferred)
    /\ ~CooldownActive(cs, cs.deferred)

\* A deadline that passes closes the case as LOST, never as STOPPED by a
\* pipeline run that finds it elapsed: the sweep comes before the requeue.
TtlClosesAsLost == cs.state = "STOPPED_UNRECOVERABLE" => cs.reason # "ttl"

\* Routine non-response never forces a human review: neither the retry cap nor
\* a gate refusal escalates a case, unless it names no order.
NoReviewForRoutine ==
  cs.state = "ESCALATED_TO_HUMAN" =>
    /\ cs.reason \notin {"retry_cap", "timing_block"}
    /\ cs.reason = "guardrail_block" => ~cs.orderRef

Closed(c) == AllowedTransitions[c.state] = {}

\* Nothing moves a closed case, and nothing is sent or charged for it any more.
ClosedIsFinal ==
  [][Closed(cs) => /\ cs'.state = cs.state
                   /\ cs'.actions = cs.actions
                   /\ cs'.pending = cs.pending
                   /\ effects' = effects]_vars

Birth == cs.deadline - CaseTtl

\* The replay goes on no further than the wall clock: its clock, its actions and
\* its closings lie in the past, so that maintenance continues a consistent
\* history.  Only what is done at the failure's own instant may lie ahead, as
\* the generator may place that instant later than now.
ReplayEndsAtNow ==
  /\ simNow <= clock \/ simNow = Birth
  /\ \A i \in DOMAIN cs.actions : cs.actions[i].at <= clock \/ cs.actions[i].at = Birth
  /\ cs.state = "LOST" => cs.deadline <= clock

\* The replay observes only what was done before: no payment is recorded on a
\* simulated instant that precedes the link it pays for, also when maintenance
\* or a person acted on the case while it was waiting for its turn.
ObservedAfterActing ==
  phase \in {"replay", "holding", "closing"} =>
    cs.lastAction = None \/ cs.lastAction <= simNow

\* An open case does not stay open: it is paid, lost, stopped or escalated.
OpenCaseCloses == (phase = "live" /\ Open) ~> ~Open

\* The journey of one case is an execution of the abstract life cycle.
Lifecycle == INSTANCE CaseLifecycle WITH
  Cases  <- {"case"},
  state  <- [c \in {"case"} |-> IF phase = "ingest" THEN "ABSENT" ELSE cs.state],
  credit <- [c \in {"case"} |-> {cs.outcomes[i].payment : i \in InTime(cs)}],
  late   <- [c \in {"case"} |-> {cs.outcomes[i].payment : i \in Late(cs)}]

LifecycleSpec == Lifecycle!Spec
=============================================================================
