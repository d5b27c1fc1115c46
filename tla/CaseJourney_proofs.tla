------------------------- MODULE CaseJourney_proofs -------------------------
(***************************************************************************)
(* The row invariants of CaseJourney, for every policy, profile and bound. *)
(* The inductive invariant says that the row is good at every step and     *)
(* that only an open case is held.                                         *)
(***************************************************************************)
EXTENDS CaseJourney, CasePipeline_proofs

Types ==
  /\ phase \in {"ingest", "queued", "replay", "holding", "closing", "live"}
  /\ realNow \in Nat /\ simNow \in Nat /\ clock \in Nat /\ wakes \in Nat /\ effects \in Nat

IInv ==
  /\ Types
  /\ RowOK(cs)
  /\ phase = "holding" => Open

\* Committing what a handler on a good row answers keeps the row good.
LEMMA CommitOK ==
  ASSUME effects \in Nat, NEW r, RowOK(r.row), r.made \in Nat, Commit(r)
  PROVE  RowOK(cs)' /\ effects' \in Nat
BY DEF Commit

LEMMA ProcessCommitOK ==
  ASSUME IInv, NEW now \in Nat, Process(now)
  PROVE  RowOK(cs)' /\ effects' \in Nat /\ cs.state \in {"NEW", "AWAITING_OUTCOME"}
<1>1. PICK r \in ProcessResults(cs, now) : Commit(r) BY DEF Process
<1>2. Handled(r) /\ cs.state \in {"NEW", "AWAITING_OUTCOME"} BY ProcessOK DEF IInv
<1> QED BY <1>1, <1>2, CommitOK DEF Handled, IInv, Types

\* The instant WakeDeferred works at.
LEMMA WakeInstant ==
  ASSUME IInv, Iterating, Unreached
  PROVE  Max({simNow, cs.deferred}) \in Nat
<1>1. cs.deferred \in Nat BY DEF IInv, RowOK, CaseRow, Unreached
<1> QED BY <1>1, MaxOfPair DEF IInv, Types

\* A sweep of an open case leaves a good row.
LEMMA LoseElapsedOK ==
  ASSUME RowOK(cs), Open
  PROVE  RowOK(LoseElapsed)
BY MarkLostOK DEF Open, LoseElapsed

\* A payment on an open or lost case leaves a good row.
LEMMA CreditOK ==
  ASSUME RowOK(cs), cs.state \in {"AWAITING_OUTCOME", "LOST"}, NEW p \in Payments,
         cs' = RecordRecovery(cs, p)
  PROVE  RowOK(cs)'
BY RecordRecoveryOK

LEMMA InitInvariant == Init => IInv
<1> SUFFICES ASSUME Init PROVE IInv
  OBVIOUS
<1>1. PICK profile \in Profiles, born \in Births :
        /\ cs = NewCase(profile, born) /\ simNow = born
        /\ IF profile.synthetic THEN \E age \in ReplayAges : clock = born + age - HostOffset
                                ELSE clock = born
  BY DEF Init
<1>2. profile \in Profile /\ born \in Nat BY JourneyAssumption
<1>3. clock \in Nat
  <2>1. ASSUME NEW age \in ReplayAges PROVE born + age - HostOffset \in Nat
    BY <1>2, JourneyAssumption
  <2> QED BY <1>1, <1>2, <2>1
<1>4. realNow \in Nat BY <1>3, JourneyAssumption DEF Init, RealNow
<1> QED BY <1>1, <1>2, <1>3, <1>4, NewCaseOK DEF Init, IInv, Types

LEMMA ReplayInvariant == IInv /\ Replay => IInv'
<1> SUFFICES ASSUME IInv, Replay PROVE IInv'
  OBVIOUS
<1> USE DEF IInv, Types
<1>1. CASE WakeDeferred
  <2>1. Max({simNow, cs.deferred}) \in Nat BY <1>1, WakeInstant DEF WakeDeferred
  <2>2. RowOK(cs)' /\ effects' \in Nat BY <1>1, <2>1, ProcessCommitOK DEF WakeDeferred
  <2> QED BY <1>1, <2>1, <2>2 DEF WakeDeferred, Iterating
<1>2. CASE DeferralAhead
  BY <1>2 DEF DeferralAhead, Break
<1>3. CASE ReplayPayment
  <2>1. Open BY <1>3 DEF ReplayPayment, Iterating
  <2>2. CASE Break BY <2>2 DEF Break
  <2>3. CASE \E p \in Payments :
               /\ cs' = RecordRecovery(cs, p)
               /\ phase' = "closing"
               /\ UNCHANGED <<realNow, simNow, clock, wakes, effects>>
    BY <2>1, <2>3, CreditOK DEF Open
  <2> QED BY <1>3, <2>2, <2>3 DEF ReplayPayment
<1>4. CASE ObservationEnds
  BY <1>4, LoseElapsedOK DEF ObservationEnds, Iterating
<1>5. CASE StartHold
  BY <1>5, PolicyAssumption DEF StartHold, Iterating, Open, NextWake
<1>6. CASE RetryWake
  <2>1. NextWake \in Nat BY PolicyAssumption DEF NextWake
  <2>2. RowOK(cs)' /\ effects' \in Nat BY <1>6, <2>1, ProcessCommitOK DEF RetryWake
  <2> QED BY <1>6, <2>1, <2>2 DEF RetryWake, Iterating
<1>7. CASE Hold
  <2>1. Open BY <1>7 DEF Hold
  <2>2. simNow + HoldStep \in Nat BY JourneyAssumption
  <2>3. RowOK(cs)'
    <3>1. CASE cs' = cs BY <3>1
    <3>2. CASE cs' = LoseElapsed BY <2>1, <3>2, LoseElapsedOK
    <3>3. CASE \E p \in Payments : cs' = RecordRecovery(cs, p)
      BY <2>1, <3>3, CreditOK DEF Open
    <3> QED BY <1>7, <3>1, <3>2, <3>3 DEF Hold
  <2> QED BY <1>7, <2>1, <2>2, <2>3 DEF Hold, Open
<1>8. CASE ReplayClose
  BY <1>8, LoseElapsedOK DEF ReplayClose
<1>9. CASE Observe
  BY <1>9 DEF Observe, RowOK, CaseRow
<1> QED BY <1>1, <1>2, <1>3, <1>4, <1>5, <1>6, <1>7, <1>8, <1>9 DEF Replay

LEMMA NextInvariant == IInv /\ [Next]_vars => IInv'
<1> SUFFICES ASSUME IInv, [Next]_vars PROVE IInv'
  OBVIOUS
<1> USE DEF IInv, Types
<1>1. CASE Ingest
  <2>1. RowOK(cs)' /\ effects' \in Nat BY <1>1, ProcessCommitOK DEF Ingest
  <2> QED BY <1>1, <2>1 DEF Ingest
<1>2. CASE Replay
  BY <1>2, ReplayInvariant
<1>3. CASE Tick
  BY <1>3 DEF Tick, Unattended
<1>4. CASE Maintain
  <2>1. PICK r \in MaintainResults(cs, clock) : Commit(r) BY <1>4 DEF Maintain
  <2>2. RowOK(r.row) /\ r.made \in Nat BY MaintainOK
  <2> QED BY <1>4, <2>1, <2>2, CommitOK DEF Maintain, Unattended
<1>5. CASE Approve
  <2>1. PICK r \in ApproveResults(cs, clock) : Commit(r) BY <1>5 DEF Approve
  <2>2. RowOK(r.row) /\ r.made \in Nat BY ApproveOK
  <2> QED BY <1>5, <2>1, <2>2, CommitOK DEF Approve, Unattended
<1>6. CASE Pay
  BY <1>6, CreditOK DEF Pay, Unattended
<1>7. CASE UNCHANGED vars
  BY <1>7 DEF vars, Open
<1> QED BY <1>1, <1>2, <1>3, <1>4, <1>5, <1>6, <1>7 DEF Next

LEMMA Invariance == Spec => []IInv
BY InitInvariant, NextInvariant, PTL DEF Spec

-----------------------------------------------------------------------------

\* The row is always a row: every handler writes values of the schema only.
THEOREM TypeCorrect == Spec => []TypeOK
<1>1. IInv => TypeOK BY DEF IInv, Types, RowOK, TypeOK
<1> QED BY <1>1, Invariance, PTL

\* One approval is pending exactly while the case waits for a person.
THEOREM PendingInvariant == Spec => []PendingIffEscalated
<1>1. IInv => PendingIffEscalated BY DEF IInv, RowOK, PendingIffEscalated
<1> QED BY <1>1, Invariance, PTL

\* The counters the gate reads are those of the action ledger.
THEOREM LedgerInvariant == Spec => []LedgerCounted
<1>1. IInv => LedgerCounted BY DEF IInv, RowOK, LedgerCounted
<1> QED BY <1>1, Invariance, PTL

\* Whatever the policy, no automatic action of replay, deferral or maintenance
\* ever broke it.
THEOREM PolicyInvariant == Spec => []AgentStaysWithinPolicy
<1>1. IInv => AgentStaysWithinPolicy BY DEF IInv, RowOK, AgentStaysWithinPolicy
<1> QED BY <1>1, Invariance, PTL

\* RECOVERED means one payment in time; late payments are only on LOST cases.
THEOREM CreditInvariant == Spec => []CreditIffRecovered
<1>1. IInv => CreditIffRecovered BY DEF IInv, RowOK, CreditIffRecovered
<1> QED BY <1>1, Invariance, PTL

-----------------------------------------------------------------------------
(* Closed cases.                                                           *)

Untouched ==
  cs'.state = cs.state /\ cs'.actions = cs.actions /\ cs'.pending = cs.pending
    /\ effects' = effects

\* Only a lost case accepts a payment once closed, and only as an outcome row.
LEMMA ClosedStep ==
  ASSUME IInv, Closed(cs), [Next]_vars
  PROVE  Untouched
<1>1. cs \in CaseRow /\ cs.state \in {"RECOVERED", "LOST", "STOPPED_UNRECOVERABLE"}
  <2>1. cs \in CaseRow BY DEF IInv, RowOK
  <2>2. cs.state \in CaseState BY <2>1 DEF CaseRow
  <2>3. AllowedTransitions[cs.state] = {} BY DEF Closed
  <2>4. cs.state \notin {"NEW", "PROCESSING", "AWAITING_OUTCOME", "ESCALATED_TO_HUMAN"}
    BY <2>3 DEF AllowedTransitions
  <2> QED BY <2>1, <2>2, <2>4 DEF CaseState
<1>2. ~Open /\ ~Iterating BY <1>1 DEF Open, Iterating
<1>3. ASSUME NEW now \in Nat PROVE ~Process(now)
  BY <1>1, <1>3, ProcessCommitOK
<1>4. CASE Ingest
  BY <1>3, <1>4 DEF Ingest, IInv, Types
<1>5. CASE Replay
  <2>1. ~Hold BY <1>2 DEF Hold, IInv
  <2>2. Observe \/ ReplayClose
    BY <1>2, <1>5, <2>1
    DEF Replay, WakeDeferred, DeferralAhead, ReplayPayment, ObservationEnds, StartHold, RetryWake
  <2> QED BY <1>2, <2>2 DEF Observe, ReplayClose, Untouched
<1>6. CASE Tick
  BY <1>6 DEF Tick, Untouched
<1>7. CASE Maintain
  <2>1. Commit(Result(cs, 0)) BY <1>1, <1>7 DEF Maintain, MaintainResults
  <2> QED BY <2>1 DEF Commit, Result, Untouched, IInv, Types
<1>8. CASE Approve
  BY <1>1, <1>8 DEF Approve, ApproveResults
<1>9. CASE Pay
  <2>1. cs.state = "LOST" /\ effects' = effects BY <1>1, <1>9 DEF Pay
  <2>2. PICK p \in Payments : cs' = RecordRecovery(cs, p) BY <1>9 DEF Pay
  <2>3. cs' = [cs EXCEPT !.outcomes = Append(cs.outcomes, Outcome("RECOVERED", p, TRUE))]
    BY <2>1, <2>2 DEF RecordRecovery
  <2> QED BY <1>1, <2>1, <2>3 DEF Untouched, CaseRow
<1>10. CASE UNCHANGED vars
  BY <1>10 DEF vars, Untouched
<1> QED BY <1>4, <1>5, <1>6, <1>7, <1>8, <1>9, <1>10 DEF Next

\* No handler moves a closed case, approves anything on it, or sends or charges
\* anything for it.
THEOREM ClosedForGood == Spec => ClosedIsFinal
<1>1. IInv /\ [Next]_vars =>
        [Closed(cs) => /\ cs'.state = cs.state /\ cs'.actions = cs.actions
                       /\ cs'.pending = cs.pending /\ effects' = effects]_vars
  BY ClosedStep DEF Untouched
<1> QED BY <1>1, Invariance, PTL DEF Spec, ClosedIsFinal

-----------------------------------------------------------------------------
(* When the pipeline works on the case.                                    *)
(*                                                                         *)
(* The row invariants above say nothing about instants.  What follows adds *)
(* which instants the handlers are called at: the second invariant says    *)
(* why each call comes when the cooldown is over, and what a call may      *)
(* therefore leave.  It needs no hypothesis on the policy; the theorems    *)
(* that do need one state it.                                              *)

\* Before its event is handled a case is as NewCase made it; afterwards it is
\* never left half processed.
Fresh ==
  IF phase = "ingest"
  THEN /\ cs.state = "NEW" /\ cs.deferred = None /\ cs.lastAction = None
       /\ cs.attempts = 0 /\ cs.messages = 0 /\ cs.actions = <<>> /\ cs.outcomes = <<>>
       /\ cs.deadline = simNow + CaseTtl
  ELSE cs.state \notin {"NEW", "PROCESSING"}

\* Only an open case is put off, and to an instant that is out of cooldown and,
\* in the timezone the deferral reads, out of quiet hours.
Waiting ==
  /\ cs.state = "ESCALATED_TO_HUMAN" => cs.deferred = None
  /\ cs.deferred # None =>
       /\ ~InQuietHours(cs.deferred, QuietStart, QuietEnd, SettingsOffset)
       /\ ~CooldownActive(cs, cs.deferred)

JInv ==
  /\ IInv
  /\ Fresh
  /\ Waiting
  /\ AwaitingHasACause
  /\ ObservedAfterActing

\* The instants the pipeline is called at: out of cooldown; with attempts and
\* messages left, with none used, or where it was already put off once; before
\* the deadline, at the event, or where the replay wakes the case; never later
\* than the clocks that drive it.
Entry(now) ==
  /\ ~CooldownActive(cs, now)
  /\ cs.deferred # None \/ ~PolicyExhausted \/ (cs.attempts = 0 /\ cs.messages = 0)
  /\ \/ now < cs.deadline
     \/ cs.deadline = now + CaseTtl
     \/ phase = "replay" /\ Unreached /\ cs.deferred <= realNow /\ now = Max({simNow, cs.deferred})
  /\ now = simNow \/ now <= realNow \/ now <= clock

Passes == \E now \in Nat : Entry(now) /\ PassResult(cs, now, cs')

Closes ==
  \/ Open /\ (cs.deadline <= realNow \/ cs.deadline <= clock) /\ cs' = MarkLost(cs)
  \/ /\ cs.state \in {"AWAITING_OUTCOME", "LOST"}
     /\ \E p \in Payments : cs' = RecordRecovery(cs, p)

Approves == cs.state = "ESCALATED_TO_HUMAN" /\ ApproveLeaves(cs, clock, cs')

\* A call in cooldown-free time does what a pass may do.
LEMMA ProcessPasses ==
  ASSUME IInv, NEW now \in Nat, Process(now), ~CooldownActive(cs, now)
  PROVE  PassResult(cs, now, cs')
<1>1. PICK r \in ProcessResults(cs, now) : cs' = r.row BY DEF Process, Commit
<1> QED BY <1>1, ProcessOutOfCooldown DEF IInv

\* The replay wakes a deferred case at an instant it takes for past.
LEMMA WakeEntry ==
  ASSUME JInv, WakeDeferred
  PROVE  /\ Max({simNow, cs.deferred}) \in Nat
         /\ Entry(Max({simNow, cs.deferred}))
<1> DEFINE now == Max({simNow, cs.deferred})
<1>1. /\ cs.deferred \in Nat /\ simNow \in Nat /\ cs.attempts = 0 /\ phase = "replay" /\ Unreached
      /\ cs.deferred <= realNow
  BY DEF JInv, IInv, RowOK, CaseRow, WakeDeferred, Iterating, Unreached, Types
<1>2. now \in {simNow, cs.deferred} /\ now \in Nat BY <1>1, MaxOfPair
<1> HIDE DEF now
<1>3. cs.lastAction = None
  <2>1. cs.actions \in Seq(ExecutedAction) /\ Len(cs.actions) = 0
    BY <1>1 DEF JInv, IInv, RowOK, CaseRow, CountersMatchLedger
  <2> QED BY <2>1 DEF JInv, IInv, RowOK, CountersMatchLedger
<1>4. now = simNow \/ now <= realNow BY <1>1, <1>2
<1> QED BY <1>1, <1>2, <1>3, <1>4 DEF Entry, CooldownActive, Unreached, now

\* So does a retry, at the next wake-up of the replay.
LEMMA RetryEntry ==
  ASSUME JInv, RetryWake
  PROVE  NextWake \in Nat /\ Entry(NextWake)
<1>1. simNow \in Nat /\ cs.lastAction \in Nat \cup {None} /\ NextWake \in Nat
  BY PolicyAssumption DEF JInv, IInv, Types, RowOK, CaseRow, NextWake
<1>2. cs.lastAction = None \/ cs.lastAction <= simNow
  BY DEF JInv, ObservedAfterActing, RetryWake, Iterating
<1>3. ~CooldownActive(cs, NextWake)
  BY <1>1, <1>2, PolicyAssumption DEF CooldownActive, NextWake
<1> QED BY <1>1, <1>3 DEF Entry, RetryWake

LEMMA IngestEntry ==
  ASSUME JInv, Ingest
  PROVE  simNow \in Nat /\ Entry(simNow)
BY DEF JInv, IInv, Types, Fresh, Ingest, Entry, CooldownActive

\* Maintenance works on a case when its deferral is over and its deadline is not.
LEMMA MaintainEntry ==
  ASSUME JInv, cs.deferred # None, cs.deferred <= clock, ~(cs.deadline <= clock)
  PROVE  clock \in Nat /\ Entry(clock)
<1>1. /\ clock \in Nat /\ cs.deferred \in Nat /\ cs.deadline \in Nat
      /\ cs.lastAction \in Nat \cup {None}
  BY DEF JInv, IInv, Types, RowOK, CaseRow
<1>2. ~CooldownActive(cs, cs.deferred) BY DEF JInv, Waiting
<1>3. ~CooldownActive(cs, clock) BY <1>1, <1>2, PolicyAssumption DEF CooldownActive
<1> QED BY <1>1, <1>3 DEF Entry

\* What any step does to the row.
LEMMA RowStep ==
  ASSUME JInv, [Next]_vars
  PROVE  \/ cs' = cs /\ (phase' = "ingest" <=> phase = "ingest")
                     /\ (phase' = "ingest" => simNow' = simNow)
         \/ phase' # "ingest" /\ Passes
         \/ phase # "ingest" /\ phase' # "ingest" /\ (Closes \/ Approves)
<1> DEFINE Stays == cs' = cs /\ (phase' = "ingest" <=> phase = "ingest")
                             /\ (phase' = "ingest" => simNow' = simNow)
           Moves == phase # "ingest" /\ phase' # "ingest"
<1>1. IInv /\ cs \in CaseRow BY DEF JInv, IInv, RowOK
<1>2. LoseElapsed = cs \/ (cs.deadline <= realNow /\ LoseElapsed = MarkLost(cs))
  BY DEF LoseElapsed
<1>3. CASE Ingest
  <2>1. phase' # "ingest" BY <1>3 DEF Ingest
  <2> QED BY <1>1, <1>3, <2>1, IngestEntry, ProcessPasses DEF Ingest, Passes, Entry
<1>4. CASE Observe
  BY <1>4 DEF Observe
<1>5. CASE WakeDeferred
  <2>1. phase' # "ingest" BY <1>5 DEF WakeDeferred, Iterating
  <2> QED BY <1>1, <1>5, <2>1, WakeEntry, ProcessPasses DEF WakeDeferred, Passes, Entry
<1>6. CASE DeferralAhead
  BY <1>6 DEF DeferralAhead, Break, Iterating
<1>7. CASE ReplayPayment
  BY <1>7 DEF ReplayPayment, Break, Iterating, Open, Closes
<1>8. CASE ObservationEnds
  BY <1>2, <1>8 DEF ObservationEnds, Iterating, Closes
<1>9. CASE StartHold
  BY <1>9 DEF StartHold, Iterating
<1>10. CASE RetryWake
  <2>1. phase' # "ingest" BY <1>10 DEF RetryWake, Iterating
  <2> QED BY <1>1, <1>10, <2>1, RetryEntry, ProcessPasses DEF RetryWake, Passes, Entry
<1>11. CASE Hold
  <2>1. Open BY <1>1, <1>11 DEF Hold, IInv
  <2>2. phase # "ingest" /\ phase' # "ingest" BY <1>11 DEF Hold
  <2>3. cs' = cs \/ Closes
    <3>1. cs' \in {cs, LoseElapsed} \/ \E p \in Payments : cs' = RecordRecovery(cs, p)
      BY <1>11 DEF Hold
    <3> QED BY <1>2, <2>1, <3>1 DEF Closes, Open
  <2> QED BY <2>2, <2>3
<1>12. CASE ReplayClose
  BY <1>2, <1>12 DEF ReplayClose, Closes
<1>13. CASE Tick
  BY <1>13 DEF Tick, Unattended
<1>14. CASE Maintain
  <2>1. PICK r \in MaintainResults(cs, clock) : cs' = r.row BY <1>14 DEF Maintain, Commit
  <2>2. Moves BY <1>14 DEF Maintain, Unattended
  <2>3. CASE r = Result(cs, 0) BY <2>1, <2>2, <2>3 DEF Result
  <2>4. CASE Open /\ cs.deadline <= clock /\ r = Result(MarkLost(cs), 0)
    BY <2>1, <2>2, <2>4 DEF Result, Closes
  <2>5. CASE /\ ~(cs.deadline <= clock) /\ cs.deferred # None /\ cs.deferred <= clock
             /\ r \in ProcessResults(cs, clock)
    <3>1. clock \in Nat /\ Entry(clock) BY <2>5, MaintainEntry
    <3>2. PassResult(cs, clock, r.row)
      BY <1>1, <2>5, <3>1, ProcessOutOfCooldown DEF Entry, IInv
    <3> QED BY <2>1, <2>2, <3>1, <3>2 DEF Passes
  <2> QED BY <2>1, <2>3, <2>4, <2>5 DEF MaintainResults, Open
<1>15. CASE Approve
  <2>1. PICK r \in ApproveResults(cs, clock) : cs' = r.row BY <1>15 DEF Approve, Commit
  <2>2. Moves BY <1>15 DEF Approve, Unattended
  <2>3. clock \in Nat BY <1>1 DEF IInv, Types
  <2> QED BY <1>1, <2>1, <2>2, <2>3, ApproveShape DEF Approves
<1>16. CASE Pay
  BY <1>16 DEF Pay, Unattended, Closes
<1>17. CASE UNCHANGED vars
  BY <1>17 DEF vars
<1> QED
  BY <1>3, <1>4, <1>5, <1>6, <1>7, <1>8, <1>9, <1>10, <1>11, <1>12, <1>13, <1>14, <1>15,
     <1>16, <1>17
  DEF Next, Replay

\* A row that is closed keeps its ledger and its deferral.
LEMMA ClosesShape ==
  ASSUME cs \in CaseRow, Closes
  PROVE  /\ Keeps(cs, cs') /\ SameLedger(cs, cs') /\ cs'.deferred = cs.deferred
         /\ cs'.state \in {"LOST", "RECOVERED"}
<1>1. CASE cs' = MarkLost(cs) BY <1>1, MarkLostShape
<1>2. CASE \E p \in Payments : cs' = RecordRecovery(cs, p)
  BY <1>2, RecordRecoveryShape
<1> QED BY <1>1, <1>2 DEF Closes

LEMMA JInit == Init => JInv
<1> SUFFICES ASSUME Init PROVE JInv
  OBVIOUS
<1>1. IInv BY InitInvariant
<1>2. PICK profile \in Profiles, born \in Births : cs = NewCase(profile, born) /\ simNow = born
  BY DEF Init
<1>3. phase = "ingest" BY DEF Init
<1>4. /\ cs.state = "NEW" /\ cs.deferred = None /\ cs.lastAction = None
      /\ cs.attempts = 0 /\ cs.messages = 0 /\ cs.actions = <<>> /\ cs.outcomes = <<>>
      /\ cs.deadline = simNow + CaseTtl
  BY <1>2 DEF NewCase
<1> QED BY <1>1, <1>3, <1>4 DEF JInv, Fresh, Waiting, AwaitingHasACause, ObservedAfterActing

\* Once the event is handled the case is never half processed.
LEMMA FreshStep ==
  ASSUME JInv, [Next]_vars
  PROVE  Fresh'
<1>0. cs \in CaseRow BY DEF JInv, IInv, RowOK
<1>1. CASE /\ cs' = cs /\ (phase' = "ingest" <=> phase = "ingest")
           /\ (phase' = "ingest" => simNow' = simNow)
  BY <1>1 DEF JInv, Fresh
<1>2. CASE phase' # "ingest" /\ Passes
  BY <1>2
  DEF Passes, PassResult, PassLeaves, StopLeaves, EscalateLeaves, DeferLeaves, ActLeaves, Fresh
<1>3. CASE phase' # "ingest" /\ Closes
  BY <1>0, <1>3, ClosesShape DEF Fresh
<1>4. CASE phase' # "ingest" /\ Approves
  BY <1>4 DEF Approves, ApproveLeaves, Fresh
<1> QED BY <1>1, <1>2, <1>3, <1>4, RowStep

\* A deferral is made once, for quiet hours, and outlives neither its escalation
\* nor its cooldown.
LEMMA WaitingStep ==
  ASSUME JInv, [Next]_vars
  PROVE  Waiting'
<1>0. cs \in CaseRow BY DEF JInv, IInv, RowOK
<1>1. CASE cs' = cs BY <1>1 DEF JInv, Waiting, CooldownActive
<1>2. CASE Passes
  <2>1. PICK now \in Nat : PassResult(cs, now, cs') BY <1>2 DEF Passes
  <2>2. cs'.deferred # None =>
          /\ ~InQuietHours(cs'.deferred, QuietStart, QuietEnd, SettingsOffset)
          /\ ~CooldownActive(cs', cs'.deferred)
    BY <2>1 DEF PassResult, Postponed
  <2>3. cs'.state = "ESCALATED_TO_HUMAN" => cs'.deferred = None
    BY <2>1 DEF PassResult, PassLeaves, StopLeaves, EscalateLeaves, DeferLeaves, ActLeaves
  <2> QED BY <2>2, <2>3 DEF Waiting
<1>3. CASE Closes
  BY <1>0, <1>3, ClosesShape DEF JInv, Waiting, CooldownActive, SameLedger
<1>4. CASE Approves
  BY <1>4 DEF Approves, ApproveLeaves, JInv, Waiting
<1> QED BY <1>1, <1>2, <1>3, <1>4, RowStep

LEMMA CauseStep ==
  ASSUME JInv, [Next]_vars
  PROVE  AwaitingHasACause'
<1>0. cs \in CaseRow BY DEF JInv, IInv, RowOK
<1>1. CASE cs' = cs /\ (phase' = "ingest" <=> phase = "ingest")
  BY <1>1 DEF JInv, AwaitingHasACause, Open
<1>2. CASE Passes
  BY <1>2 DEF Passes, PassResult, AwaitingHasACause, Open
<1>3. CASE Closes
  BY <1>0, <1>3, ClosesShape DEF AwaitingHasACause, Open
<1>4. CASE Approves
  BY <1>4 DEF Approves, ApproveLeaves, AwaitingHasACause, Open
<1> QED BY <1>1, <1>2, <1>3, <1>4, RowStep

\* The ledger's last instant after a pass is the one before or that of the pass.
LEMMA PassLastAction ==
  ASSUME NEW now, PassResult(cs, now, cs')
  PROVE  cs'.lastAction \in {cs.lastAction, now}
BY DEF PassResult, PassLeaves, StopLeaves, EscalateLeaves, DeferLeaves, ActLeaves, SameLedger

\* While the replay holds the case only the replay acts on it, at its own clock.
LEMMA ObservedStep ==
  ASSUME JInv, [Next]_vars
  PROVE  ObservedAfterActing'
<1> DEFINE Replayed == phase \in {"replay", "holding", "closing"}
           Seen == cs.lastAction = None \/ cs.lastAction <= simNow
<1>1. /\ IInv /\ cs \in CaseRow /\ simNow \in Nat /\ cs.lastAction \in Nat \cup {None}
      /\ Replayed => Seen
  BY DEF JInv, IInv, RowOK, CaseRow, Types, ObservedAfterActing
<1>2. /\ SameLedger(cs, MarkLost(cs))
      /\ \A p \in Payments : SameLedger(cs, RecordRecovery(cs, p))
  BY <1>1, MarkLostShape, RecordRecoveryShape
<1>3. LoseElapsed.lastAction = cs.lastAction BY <1>2 DEF LoseElapsed, SameLedger
<1>4. CASE Ingest
  BY <1>4 DEF Ingest, ObservedAfterActing
<1>5. CASE Observe
  BY <1>1, <1>5, PolicyAssumption DEF Observe, ObservedAfterActing
<1>6. CASE WakeDeferred
  <2>1. /\ Max({simNow, cs.deferred}) \in Nat /\ Process(Max({simNow, cs.deferred}))
        /\ ~CooldownActive(cs, Max({simNow, cs.deferred})) /\ simNow' = Max({simNow, cs.deferred})
    BY <1>6, WakeEntry DEF WakeDeferred, Entry
  <2>2. cs'.lastAction \in {cs.lastAction, simNow'}
    BY <1>1, <2>1, ProcessPasses, PassLastAction
  <2>3. cs.deferred \in Nat BY <1>1, <1>6 DEF WakeDeferred, Unreached, CaseRow
  <2>4. simNow' >= simNow /\ simNow' \in Nat BY <1>1, <2>1, <2>3, MaxOfPair
  <2>5. Seen BY <1>1, <1>6 DEF WakeDeferred, Iterating
  <2> QED BY <1>1, <2>2, <2>4, <2>5 DEF ObservedAfterActing
<1>7. CASE DeferralAhead
  BY <1>1, <1>7 DEF DeferralAhead, Break, Iterating, ObservedAfterActing
<1>8. CASE ReplayPayment
  <2>1. Seen BY <1>1, <1>8 DEF ReplayPayment, Iterating
  <2>2. cs'.lastAction = cs.lastAction /\ simNow' = simNow
    BY <1>2, <1>8 DEF ReplayPayment, Break, SameLedger
  <2> QED BY <2>1, <2>2 DEF ObservedAfterActing
<1>9. CASE ObservationEnds
  BY <1>1, <1>3, <1>9 DEF ObservationEnds, Iterating, ObservedAfterActing
<1>10. CASE StartHold
  <2>1. simNow' \in Nat /\ simNow' >= simNow /\ cs' = cs
    BY <1>1, <1>10, PolicyAssumption DEF StartHold, NextWake
  <2>2. Seen BY <1>1, <1>10 DEF StartHold, Iterating
  <2> QED BY <1>1, <2>1, <2>2 DEF ObservedAfterActing
<1>11. CASE RetryWake
  <2>1. NextWake \in Nat /\ Process(NextWake) /\ ~CooldownActive(cs, NextWake) /\ simNow' = NextWake
    BY <1>11, RetryEntry DEF RetryWake, Entry
  <2>2. cs'.lastAction \in {cs.lastAction, simNow'}
    BY <1>1, <2>1, ProcessPasses, PassLastAction
  <2>3. simNow' >= simNow /\ simNow' \in Nat BY <1>1, <2>1, PolicyAssumption DEF NextWake
  <2>4. Seen BY <1>1, <1>11 DEF RetryWake, Iterating
  <2> QED BY <1>1, <2>2, <2>3, <2>4 DEF ObservedAfterActing
<1>12. CASE Hold
  <2>1. cs'.lastAction = cs.lastAction
    BY <1>2, <1>3, <1>12 DEF Hold, SameLedger
  <2>2. simNow' >= simNow /\ simNow' \in Nat
    BY <1>1, <1>12, JourneyAssumption DEF Hold
  <2>3. Seen BY <1>1, <1>12 DEF Hold
  <2> QED BY <1>1, <2>1, <2>2, <2>3 DEF ObservedAfterActing
<1>13. CASE ReplayClose
  BY <1>13 DEF ReplayClose, ObservedAfterActing
<1>14. CASE Tick \/ Maintain \/ Approve \/ Pay
  BY <1>14 DEF Tick, Maintain, Approve, Pay, Unattended, ObservedAfterActing
<1>15. CASE UNCHANGED vars
  BY <1>1, <1>15 DEF vars, ObservedAfterActing
<1> QED
  BY <1>4, <1>5, <1>6, <1>7, <1>8, <1>9, <1>10, <1>11, <1>12, <1>13, <1>14, <1>15
  DEF Next, Replay

LEMMA JNext == JInv /\ [Next]_vars => JInv'
BY NextInvariant, FreshStep, WaitingStep, CauseStep, ObservedStep DEF JInv

LEMMA JInvariance == Spec => []JInv
BY JInit, JNext, PTL DEF Spec

-----------------------------------------------------------------------------

\* Whatever the policy, an open case waits for something that exists: an action
\* that was sent, or a deferral.
THEOREM CauseInvariant == Spec => []AwaitingHasACause
<1>1. JInv => AwaitingHasACause BY DEF JInv
<1> QED BY <1>1, JInvariance, PTL

\* The replay's clock has passed every action before a payment is observed, also
\* when maintenance or a person acted while the case was waiting for its turn.
THEOREM ObservedInvariant == Spec => []ObservedAfterActing
<1>1. JInv => ObservedAfterActing BY DEF JInv
<1> QED BY <1>1, JInvariance, PTL

\* Where the gate and the deferral read one timezone, every deferral ends when
\* the gate would let the agent act.
THEOREM DeferralInvariant ==
  ASSUME SettingsOffset = MerchantOffset
  PROVE  Spec => []DeferralClearsTiming
<1>1. JInv => DeferralClearsTiming BY DEF JInv, Waiting, DeferralClearsTiming, Quiet
<1> QED BY <1>1, JInvariance, PTL

-----------------------------------------------------------------------------
(* The replay and the wall clock.                                          *)

\* An instant of the past, or that of the failure.
Past(t) == t <= clock \/ t = Birth

PastInv == realNow <= clock /\ ReplayEndsAtNow

LEMMA PastInit ==
  ASSUME HostOffset = 0, Init
  PROVE  PastInv
<1>1. PICK profile \in Profiles, born \in Births : cs = NewCase(profile, born) /\ simNow = born
  BY DEF Init
<1>2. born \in Nat /\ CaseTtl \in Nat BY JourneyAssumption, PolicyAssumption
<1>3. clock \in Nat /\ realNow = clock BY InitInvariant DEF Init, RealNow, IInv, Types
<1>4. cs.actions = <<>> /\ cs.state = "NEW" /\ cs.deadline = born + CaseTtl BY <1>1 DEF NewCase
<1>5. simNow = Birth BY <1>1, <1>2, <1>4 DEF Birth
<1> QED BY <1>3, <1>4, <1>5 DEF PastInv, ReplayEndsAtNow

\* No step changes the instant of the failure.
LEMMA BirthKept ==
  ASSUME JInv, [Next]_vars
  PROVE  Birth' = Birth
<1>1. cs \in CaseRow BY DEF JInv, IInv, RowOK
<1>2. cs'.deadline = cs.deadline
  <2>1. CASE cs' = cs BY <2>1
  <2>2. CASE Passes BY <2>2 DEF Passes, PassResult, PassLeaves, Keeps
  <2>3. CASE Closes BY <1>1, <2>3, ClosesShape DEF Keeps
  <2>4. CASE Approves BY <2>4 DEF Approves, ApproveLeaves, Keeps
  <2> QED BY <2>1, <2>2, <2>3, <2>4, RowStep
<1> QED BY <1>2 DEF Birth

\* A longer ledger whose new action lies in the past.
LEMMA LedgerStaysInPast ==
  ASSUME JInv, ReplayEndsAtNow, NEW now \in Nat, Past(now),
         NEW type, NEW by,
         cs'.actions = cs.actions \/ cs'.actions = Append(cs.actions, Action(type, now, by)),
         type \in ExecutingActions, by \in {"agent", "human"}
  PROVE  \A i \in DOMAIN cs'.actions : Past(cs'.actions[i].at)
<1>1. cs.actions \in Seq(ExecutedAction) BY DEF JInv, IInv, RowOK, CaseRow
<1>2. \A i \in DOMAIN cs.actions : Past(cs.actions[i].at) BY DEF ReplayEndsAtNow, Past
<1>3. CASE cs'.actions = cs.actions BY <1>2, <1>3
<1>4. CASE cs'.actions = Append(cs.actions, Action(type, now, by))
  <2> DEFINE a == Action(type, now, by)
  <2>1. a \in ExecutedAction /\ a.at = now BY DEF Action, ExecutedAction
  <2> HIDE DEF a
  <2>2. SUFFICES ASSUME NEW i \in DOMAIN cs'.actions PROVE Past(cs'.actions[i].at)
    OBVIOUS
  <2>3. cs'.actions = Append(cs.actions, a) BY <1>4 DEF a
  <2>4. \/ i \in DOMAIN cs.actions /\ cs'.actions[i] = cs.actions[i]
        \/ cs'.actions[i] = a
    BY <1>1, <2>1, <2>3
  <2> QED BY <1>2, <2>1, <2>4
<1> QED BY <1>3, <1>4

\* A closing as LOST comes after the deadline, by whichever clock it is taken.
LEMMA LostAfterDeadline ==
  ASSUME JInv, PastInv, [Next]_vars, clock' \in Nat, clock' >= clock
  PROVE  cs'.state = "LOST" => cs'.deadline <= clock'
<1>1. /\ cs \in CaseRow /\ cs.deadline \in Nat /\ realNow \in Nat /\ clock \in Nat
      /\ realNow <= clock /\ (cs.state = "LOST" => cs.deadline <= clock)
  BY DEF JInv, IInv, Types, RowOK, CaseRow, PastInv, ReplayEndsAtNow
<1>2. CASE cs' = cs BY <1>1, <1>2
<1>3. CASE Passes
  BY <1>3
  DEF Passes, PassResult, PassLeaves, StopLeaves, EscalateLeaves, DeferLeaves, ActLeaves
<1>4. CASE Closes
  <2>1. cs'.deadline = cs.deadline BY <1>1, <1>4, ClosesShape DEF Keeps
  <2>2. CASE cs.deadline <= realNow \/ cs.deadline <= clock BY <1>1, <2>1, <2>2
  <2>3. CASE \E p \in Payments : cs' = RecordRecovery(cs, p)
    <3>1. cs'.state = "LOST" => cs.state = "LOST" BY <1>1, <2>3 DEF RecordRecovery, CaseRow
    <3> QED BY <1>1, <2>1, <3>1
  <2> QED BY <1>4, <2>2, <2>3 DEF Closes
<1>5. CASE Approves BY <1>5 DEF Approves, ApproveLeaves
<1> QED BY <1>2, <1>3, <1>4, <1>5, RowStep

LEMMA PastNext ==
  ASSUME JInv, PastInv, [Next]_vars
  PROVE  PastInv'
<1>1. /\ IInv /\ cs \in CaseRow /\ simNow \in Nat /\ realNow \in Nat /\ clock \in Nat
      /\ realNow <= clock /\ Past(simNow) /\ ReplayEndsAtNow
  BY DEF JInv, IInv, RowOK, Types, PastInv, ReplayEndsAtNow, Past
<1>2. clock' \in Nat /\ clock' >= clock /\ (clock' # clock => cs' = cs)
  BY <1>1
  DEF Next, Replay, Ingest, Observe, WakeDeferred, DeferralAhead, Break, ReplayPayment,
      ObservationEnds, StartHold, RetryWake, Hold, ReplayClose, Tick, Maintain, Approve, Pay, vars
<1>3. realNow' \in {0, realNow}
  BY DEF Next, Replay, Ingest, Observe, WakeDeferred, DeferralAhead, Break, ReplayPayment,
      ObservationEnds, StartHold, RetryWake, Hold, ReplayClose, Tick, Maintain, Approve, Pay, vars
<1>4. realNow' <= clock' BY <1>1, <1>2, <1>3
<1>0. Birth' = Birth BY BirthKept
<1>5. \A i \in DOMAIN cs'.actions :
        cs'.actions[i].at <= clock' \/ cs'.actions[i].at = Birth'
  <2>1. CASE cs'.actions = cs.actions
    <3>1. \A i \in DOMAIN cs.actions : cs.actions[i] \in ExecutedAction
      BY <1>1 DEF CaseRow
    <3>2. \A i \in DOMAIN cs.actions :
            cs.actions[i].at \in Nat /\ (cs.actions[i].at <= clock \/ cs.actions[i].at = Birth)
      BY <1>1, <3>1 DEF ExecutedAction, ReplayEndsAtNow
    <3> QED BY <1>0, <1>1, <1>2, <2>1, <3>2
  <2>2. CASE cs' # cs /\ Passes
    <3>1. PICK now \in Nat : Entry(now) /\ PassResult(cs, now, cs') BY <2>2 DEF Passes
    <3>2. Past(now) BY <1>1, <3>1 DEF Entry, Past
    <3>3. \E type \in ExecutingActions :
            cs'.actions = cs.actions \/ cs'.actions = Append(cs.actions, Action(type, now, "agent"))
      BY <3>1
      DEF PassResult, PassLeaves, StopLeaves, EscalateLeaves, DeferLeaves, ActLeaves, SameLedger,
          ExecutingActions
    <3>4. clock' = clock BY <1>2, <2>2
    <3>5. \A i \in DOMAIN cs'.actions : Past(cs'.actions[i].at)
      BY <1>1, <3>2, <3>3, LedgerStaysInPast
    <3> QED BY <1>0, <3>4, <3>5 DEF Past
  <2>3. CASE Closes
    BY <1>1, <2>1, <2>3, ClosesShape DEF SameLedger
  <2>4. CASE cs' # cs /\ Approves
    <3>1. PICK type \in ExecutingActions : cs'.actions = Append(cs.actions, Action(type, clock, "human"))
      BY <2>4 DEF Approves, ApproveLeaves
    <3>2. clock' = clock BY <1>2, <2>4
    <3>3. Past(clock) BY <1>1 DEF Past
    <3>4. \A i \in DOMAIN cs'.actions : Past(cs'.actions[i].at)
      BY <1>1, <3>1, <3>3, LedgerStaysInPast DEF ExecutingActions
    <3> QED BY <1>0, <3>2, <3>4 DEF Past
  <2> QED BY <2>1, <2>2, <2>3, <2>4, RowStep
<1>6. simNow' <= clock' \/ simNow' = Birth'
  <2>1. CASE simNow' = simNow BY <1>0, <1>1, <1>2, <2>1 DEF Past
  <2>2. CASE simNow' = 0 BY <1>2, <2>2
  <2>3. CASE Observe
    <3>1. clock' = clock BY <2>3 DEF Observe
    <3>2. CASE cs.lastAction = None BY <2>1, <2>3, <3>2 DEF Observe
    <3>3. CASE cs.lastAction # None
      <4>1. cs.actions # <<>> /\ cs.lastAction = cs.actions[Len(cs.actions)].at
        BY <1>1, <3>3 DEF IInv, RowOK, CountersMatchLedger
      <4>2. Len(cs.actions) \in DOMAIN cs.actions
        BY <1>1, <4>1 DEF CaseRow
      <4> QED BY <1>0, <1>1, <2>3, <3>1, <3>3, <4>1, <4>2 DEF Observe, ReplayEndsAtNow
    <3> QED BY <3>2, <3>3
  <2>4. CASE WakeDeferred
    <3>1. /\ simNow' = Max({simNow, cs.deferred}) /\ cs.deferred <= realNow /\ clock' = clock
      BY <2>4 DEF WakeDeferred
    <3>2. cs.deferred \in Nat BY <1>1, <2>4 DEF WakeDeferred, Unreached, CaseRow
    <3>3. Max({simNow, cs.deferred}) \in {simNow, cs.deferred} BY <1>1, <3>2, MaxOfPair
    <3> QED BY <1>1, <2>1, <3>1, <3>2, <3>3
  <2>5. CASE StartHold \/ RetryWake
    BY <1>1, <2>5, PolicyAssumption DEF StartHold, RetryWake, NextWake
  <2>6. CASE Hold
    BY <1>1, <2>1, <2>6, JourneyAssumption DEF Hold
  <2> QED
    BY <2>1, <2>2, <2>3, <2>4, <2>5, <2>6
    DEF Next, Replay, Ingest, DeferralAhead, Break, ReplayPayment, ObservationEnds, ReplayClose,
        Tick, Maintain, Approve, Pay, vars
<1>7. cs'.state = "LOST" => cs'.deadline <= clock' BY <1>2, LostAfterDeadline
<1> QED BY <1>4, <1>5, <1>6, <1>7 DEF PastInv, ReplayEndsAtNow

\* On a host whose local time is UTC nothing of the replay but the failure's own
\* step lies ahead of the wall clock, and no case is lost before its deadline.
THEOREM PastInvariant ==
  ASSUME HostOffset = 0
  PROVE  Spec => []ReplayEndsAtNow
<1>1. Init => PastInv BY PastInit
<1>2. JInv /\ PastInv /\ [Next]_vars => PastInv' BY PastNext
<1>3. PastInv => ReplayEndsAtNow BY DEF PastInv
<1> QED BY <1>1, <1>2, <1>3, JInvariance, PTL DEF Spec

-----------------------------------------------------------------------------
(* Routine non-response.                                                   *)

\* A case is put off only while it has attempts and messages left.
RoomInv ==
  /\ cs.deferred # None => ~PolicyExhausted
  /\ NoReviewForRoutine

LEMMA RoomInit ==
  ASSUME Init
  PROVE  RoomInv
<1>1. JInv /\ phase = "ingest" BY JInit DEF Init
<1>2. cs.state = "NEW" /\ cs.deferred = None BY <1>1 DEF JInv, Fresh
<1> QED BY <1>2 DEF RoomInv, NoReviewForRoutine

\* The gate refuses no message of a case below the cap that names its order.
LEMMA RefusedForOrder ==
  ASSUME IInv, NEW now, ~PolicyExhausted, MessageRefused(cs, now)
  PROVE  ~cs.orderRef
<1>1. cs \in CaseRow /\ CountersMatchLedger(cs) /\ cs.messages \in Nat
  BY DEF IInv, RowOK, CaseRow
<1>2. cs.flow # "subscription_mandate" BY DEF MessageRefused
<1>3. /\ Cardinality(RecentMessages(cs, now)) \in Nat
      /\ Cardinality(RecentMessages(cs, now)) <= cs.messages
  BY <1>1, <1>2, RecentMessagesBound
<1>4. ~(Cardinality(RecentMessages(cs, now)) >= MessageCap)
  BY <1>1, <1>3, PolicyAssumption DEF PolicyExhausted
<1> QED BY <1>4 DEF MessageRefused

LEMMA RoomNext ==
  ASSUME SettingsOffset = MerchantOffset, MaxRetries > 0, MessageCap > 0,
         JInv, RoomInv, [Next]_vars
  PROVE  RoomInv'
<1>0. IInv /\ cs \in CaseRow /\ cs.attempts \in Nat /\ cs.messages \in Nat
  BY DEF JInv, IInv, RowOK, CaseRow
<1>1. CASE cs' = cs
  BY <1>1 DEF RoomInv, NoReviewForRoutine, PolicyExhausted
<1>2. CASE Passes
  <2>1. PICK now \in Nat : Entry(now) /\ PassResult(cs, now, cs') BY <1>2 DEF Passes
  <2>2. ~PolicyExhausted
    BY <1>0, <2>1, PolicyAssumption DEF Entry, RoomInv, PolicyExhausted
  <2>3. cs'.deferred # None => ~PolicyExhausted'
    BY <2>1, <2>2 DEF PassResult, Postponed, SameLedger, PolicyExhausted
  <2>4. CASE EscalateLeaves(cs, now, cs')
    <3>1. cs'.orderRef = cs.orderRef BY <2>1 DEF PassResult, PassLeaves, Keeps
    <3>2. cs'.reason # "retry_cap"
      BY <2>2, <2>4 DEF EscalateLeaves, RetriesExhausted, PolicyExhausted
    <3>3. cs'.reason = "guardrail_block" => ~cs'.orderRef
      BY <1>0, <2>2, <2>4, <3>1, RefusedForOrder DEF EscalateLeaves
    <3>4. cs'.reason # "timing_block"
      <4> SUFFICES ASSUME Quiet(now), ResumeCandidates(cs, now) = {} PROVE FALSE
        BY <2>4 DEF EscalateLeaves
      <4>1. InQuietHours(now, QuietStart, QuietEnd, SettingsOffset) BY DEF Quiet
      <4>2. QuietHoursResume(now, QuietStart, QuietEnd, SettingsOffset) = {}
        BY DEF ResumeCandidates
      <4> QED BY <4>1, <4>2 DEF QuietHoursResume
    <3> QED BY <2>3, <3>2, <3>3, <3>4 DEF RoomInv, NoReviewForRoutine
  <2>5. CASE ~EscalateLeaves(cs, now, cs')
    <3>1. cs'.state # "ESCALATED_TO_HUMAN"
      BY <2>1, <2>5 DEF PassResult, PassLeaves, StopLeaves, DeferLeaves, ActLeaves
    <3> QED BY <2>3, <3>1 DEF RoomInv, NoReviewForRoutine
  <2> QED BY <2>4, <2>5
<1>3. CASE Closes
  BY <1>0, <1>3, ClosesShape DEF RoomInv, NoReviewForRoutine, PolicyExhausted, SameLedger
<1>4. CASE Approves
  BY <1>4 DEF Approves, ApproveLeaves, JInv, Waiting, RoomInv, NoReviewForRoutine
<1> QED BY <1>1, <1>2, <1>3, <1>4, RowStep

\* With one timezone and a policy that allows an action at all, neither the retry
\* cap nor a gate refusal escalates a case, unless it names no order.
THEOREM NoReviewInvariant ==
  ASSUME SettingsOffset = MerchantOffset, MaxRetries > 0, MessageCap > 0
  PROVE  Spec => []NoReviewForRoutine
<1>1. Init => RoomInv BY RoomInit
<1>2. JInv /\ RoomInv /\ [Next]_vars => RoomInv' BY RoomNext
<1>3. RoomInv => NoReviewForRoutine BY DEF RoomInv
<1> QED BY <1>1, <1>2, <1>3, JInvariance, PTL DEF Spec

-----------------------------------------------------------------------------
(* The deadline.                                                           *)

\* What the replay may wake a deferred case to lies before its deadline; a later
\* deferral is one that maintenance made meanwhile, and ends after real_now.
OnTime ==
  phase \in {"queued", "replay"} /\ Unreached =>
    /\ simNow <= cs.deferred
    /\ cs.deferred < cs.deadline \/ cs.deferred > realNow

TtlInv == OnTime /\ TtlClosesAsLost

LEMMA TtlInit ==
  ASSUME Init
  PROVE  TtlInv
<1>1. JInv /\ phase = "ingest" BY JInit DEF Init
<1>2. cs.state = "NEW" BY <1>1 DEF JInv, Fresh
<1> QED BY <1>1, <1>2 DEF TtlInv, OnTime, TtlClosesAsLost

\* A case that is neither deferred nor open for the first time was acted on.
LEMMA ActedOrDeferred ==
  ASSUME JInv, Iterating, ~Unreached
  PROVE  cs.attempts # 0
<1>1. cs.actions \in Seq(ExecutedAction) /\ cs.attempts = Len(cs.actions)
  BY DEF JInv, IInv, RowOK, CaseRow, CountersMatchLedger
<1>2. cs.deferred # None \/ cs.actions # <<>> BY DEF JInv, AwaitingHasACause, Iterating
<1> QED BY <1>1, <1>2 DEF Unreached

\* A pass stops a case for its deadline only when the deadline has passed, and
\* none of the passes happens then.
LEMMA TtlStep ==
  ASSUME CaseTtl >= DayLength, JInv, TtlInv, [Next]_vars
  PROVE  TtlClosesAsLost'
<1>0. /\ cs \in CaseRow /\ cs.deadline \in Nat /\ simNow \in Nat /\ realNow \in Nat
      /\ cs.deferred \in Nat \cup {None} /\ CaseTtl \in Nat /\ CaseTtl > 0
  BY PolicyAssumption, DayLengthAssumption DEF JInv, IInv, Types, RowOK, CaseRow
<1>1. CASE cs' = cs BY <1>1 DEF TtlInv, TtlClosesAsLost
<1>2. CASE Passes
  <2>1. PICK now \in Nat : Entry(now) /\ PassResult(cs, now, cs') BY <1>2 DEF Passes
  <2>2. now < cs.deadline
    <3>1. CASE cs.deadline = now + CaseTtl BY <1>0, <3>1
    <3>2. CASE /\ phase = "replay" /\ Unreached /\ cs.deferred <= realNow
               /\ now = Max({simNow, cs.deferred})
      <4>1. /\ cs.deferred \in Nat /\ simNow <= cs.deferred
            /\ cs.deferred < cs.deadline \/ cs.deferred > realNow
        BY <1>0, <3>2 DEF TtlInv, OnTime, Unreached
      <4>2. now \in {simNow, cs.deferred} /\ now >= cs.deferred BY <1>0, <3>2, <4>1, MaxOfPair
      <4> QED BY <1>0, <3>2, <4>1, <4>2
    <3> QED BY <2>1, <3>1, <3>2 DEF Entry
  <2>3. ~TtlElapsed(cs, now) BY <1>0, <2>2 DEF TtlElapsed
  <2> QED
    BY <2>1, <2>3
    DEF PassResult, PassLeaves, StopLeaves, EscalateLeaves, DeferLeaves, ActLeaves, TtlClosesAsLost
<1>3. CASE Closes
  BY <1>0, <1>3, ClosesShape DEF TtlClosesAsLost
<1>4. CASE Approves
  BY <1>4 DEF Approves, ApproveLeaves, TtlClosesAsLost
<1> QED BY <1>1, <1>2, <1>3, <1>4, RowStep

LEMMA OnTimeStep ==
  ASSUME CaseTtl >= DayLength, JInv, PastInv, TtlInv, [Next]_vars
  PROVE  OnTime'
<1>0. /\ IInv /\ cs \in CaseRow /\ cs.deadline \in Nat
      /\ simNow \in Nat /\ realNow \in Nat /\ clock \in Nat
      /\ cs.deferred \in Nat \cup {None} /\ CaseTtl \in Nat /\ DayLength \in Nat
      /\ realNow <= clock
  BY PolicyAssumption, DayLengthAssumption
  DEF JInv, IInv, Types, RowOK, CaseRow, PastInv
<1>1. CASE phase' \notin {"queued", "replay"} BY <1>1 DEF OnTime
<1>2. CASE Ingest
  <2>1. PassResult(cs, simNow, cs') BY <1>0, <1>2, IngestEntry, ProcessPasses DEF Ingest, Entry
  <2>2. cs.deadline = simNow + CaseTtl /\ cs'.deadline = cs.deadline /\ simNow' = simNow
    BY <1>2, <2>1 DEF Ingest, JInv, Fresh, PassResult, PassLeaves, Keeps
  <2>3. cs'.deferred # None =>
          cs'.deferred \in Nat /\ cs'.deferred > simNow /\ cs'.deferred < simNow + DayLength
    BY <2>1 DEF PassResult, Postponed
  <2>4. cs'.deferred # None => simNow' <= cs'.deferred /\ cs'.deferred < cs'.deadline
    BY <1>0, <2>2, <2>3
  <2> QED BY <2>4 DEF OnTime, Unreached
<1>3. CASE Observe
  <2>1. cs' = cs /\ realNow' = realNow /\ phase = "queued" BY <1>3 DEF Observe
  <2>2. Unreached => simNow' = simNow
    <3>1. cs.attempts = 0 => cs.lastAction = None
      <4>1. cs.actions \in Seq(ExecutedAction) /\ cs.attempts = Len(cs.actions)
        BY <1>0 DEF CaseRow, IInv, RowOK, CountersMatchLedger
      <4>2. cs.actions # <<>> => cs.attempts # 0 BY <4>1
      <4> QED BY <1>0, <4>2 DEF IInv, RowOK, CountersMatchLedger
    <3> QED BY <1>3, <3>1 DEF Observe, Unreached
  <2> QED BY <2>1, <2>2 DEF TtlInv, OnTime, Unreached
<1>4. CASE WakeDeferred
  <2> DEFINE now == Max({simNow, cs.deferred})
  <2>1. /\ now \in Nat /\ PassResult(cs, now, cs')
    BY <1>0, <1>4, WakeEntry, ProcessPasses DEF WakeDeferred, Entry
  <2>2. cs.deferred \in Nat /\ simNow <= cs.deferred
    BY <1>0, <1>4 DEF WakeDeferred, Iterating, Unreached, TtlInv, OnTime
  <2>3. now \in {simNow, cs.deferred} /\ now >= cs.deferred BY <1>0, <2>2, MaxOfPair
  <2>4. now = cs.deferred BY <1>0, <2>2, <2>3
  <2> HIDE DEF now
  <2>5. ~InQuietHours(now, QuietStart, QuietEnd, SettingsOffset)
    BY <1>4, <2>4 DEF JInv, Waiting, WakeDeferred, Unreached
  <2>6. cs'.deferred = None BY <2>1, <2>5 DEF PassResult, Postponed
  <2> QED BY <2>6 DEF OnTime, Unreached
<1>5. CASE RetryWake
  <2>1. cs.attempts # 0 BY <1>5, ActedOrDeferred DEF RetryWake
  <2>2. PassResult(cs, NextWake, cs') BY <1>0, <1>5, RetryEntry, ProcessPasses DEF RetryWake, Entry
  <2>3. cs.attempts \in Nat BY <1>0 DEF CaseRow
  <2>4. cs'.deferred # None => cs'.attempts = cs.attempts
    BY <2>2 DEF PassResult, Postponed, SameLedger
  <2> QED BY <2>1, <2>4 DEF OnTime, Unreached
<1>6. CASE UNCHANGED vars \/ Tick
  BY <1>6 DEF vars, Tick, TtlInv, OnTime, Unreached
<1>7. CASE Maintain /\ phase = "queued"
  <2>1. PICK r \in MaintainResults(cs, clock) : cs' = r.row BY <1>7 DEF Maintain, Commit
  <2>2. UNCHANGED <<phase, realNow, simNow, clock>> BY <1>7 DEF Maintain
  <2>3. CASE r = Result(cs, 0)
    BY <1>7, <2>1, <2>2, <2>3 DEF Result, TtlInv, OnTime, Unreached
  <2>4. CASE r = Result(MarkLost(cs), 0)
    <3>1. cs' = MarkLost(cs) BY <2>1, <2>4 DEF Result
    <3>2. cs'.deferred = cs.deferred /\ cs'.attempts = cs.attempts /\ cs'.deadline = cs.deadline
      BY <1>0, <3>1, MarkLostShape DEF SameLedger, Keeps
    <3> QED BY <1>7, <2>2, <3>2 DEF TtlInv, OnTime, Unreached
  <2>5. CASE /\ ~(cs.deadline <= clock) /\ cs.deferred # None /\ cs.deferred <= clock
             /\ r \in ProcessResults(cs, clock)
    <3>1. PassResult(cs, clock, cs')
      BY <1>0, <2>1, <2>5, MaintainEntry, ProcessOutOfCooldown DEF Entry, IInv
    <3>2. cs'.deferred # None =>
            cs'.deferred \in Nat /\ cs'.deferred > clock /\ cs'.attempts = cs.attempts
      BY <3>1 DEF PassResult, Postponed, SameLedger
    <3>3. cs.attempts = 0 => simNow <= cs.deferred
      BY <1>7, <2>5 DEF TtlInv, OnTime, Unreached
    <3> QED BY <1>0, <2>2, <2>5, <3>2, <3>3 DEF OnTime, Unreached
  <2> QED BY <2>1, <2>3, <2>4, <2>5 DEF MaintainResults
<1>8. CASE Approve /\ phase = "queued"
  <2>1. PICK r \in ApproveResults(cs, clock) : cs' = r.row BY <1>8 DEF Approve, Commit
  <2>2. UNCHANGED <<phase, realNow, simNow, clock>> BY <1>8 DEF Approve
  <2>3. cs.state = "ESCALATED_TO_HUMAN" /\ cs'.deferred = cs.deferred
    BY <1>0, <2>1, ApproveShape DEF ApproveLeaves
  <2>4. cs'.deferred = None BY <2>3 DEF JInv, Waiting
  <2> QED BY <2>4 DEF OnTime, Unreached
<1>9. CASE Pay
  <2>1. PICK p \in Payments : cs' = RecordRecovery(cs, p) BY <1>9 DEF Pay
  <2>2. UNCHANGED <<phase, realNow, simNow, clock>> BY <1>9 DEF Pay
  <2>3. cs'.deferred = cs.deferred /\ cs'.attempts = cs.attempts /\ cs'.deadline = cs.deadline
    BY <1>0, <2>1, RecordRecoveryShape DEF SameLedger, Keeps
  <2> QED BY <2>2, <2>3 DEF TtlInv, OnTime, Unreached
<1> QED
  BY <1>1, <1>2, <1>3, <1>4, <1>5, <1>6, <1>7, <1>8, <1>9
  DEF Next, Replay, DeferralAhead, ReplayPayment, Break, ObservationEnds, StartHold, Hold,
      ReplayClose, Maintain, Approve, Unattended

\* Where the host's clock is in UTC and the deadline leaves a day for the first
\* deferral, a deadline that passes closes the case as LOST.
THEOREM TtlInvariant ==
  ASSUME HostOffset = 0, CaseTtl >= DayLength
  PROVE  Spec => []TtlClosesAsLost
<1>1. Init => PastInv /\ TtlInv BY PastInit, TtlInit
<1>2. JInv /\ PastInv /\ TtlInv /\ [Next]_vars => PastInv' /\ TtlInv'
  BY PastNext, TtlStep, OnTimeStep DEF TtlInv
<1>3. TtlInv => TtlClosesAsLost BY DEF TtlInv
<1> QED BY <1>1, <1>2, <1>3, JInvariance, PTL DEF Spec

-----------------------------------------------------------------------------
(* The abstract life cycle.                                                *)

StateNow == IF phase = "ingest" THEN "ABSENT" ELSE cs.state

\* Only payments of customers are credited.
CreditInv == CreditIn(cs) \subseteq Payments /\ LateIn(cs) \subseteq Payments

\* What one step may do to the case's state and credit.
Abstract ==
  \/ /\ StateNow' = StateNow
     /\ CreditIn(cs') = CreditIn(cs) /\ LateIn(cs') = LateIn(cs)
  \/ /\ StateNow \in {"ABSENT", "AWAITING_OUTCOME"}
     /\ StateNow' \in AllowedTransitions["PROCESSING"]
     /\ CreditIn(cs') = CreditIn(cs) /\ LateIn(cs') = LateIn(cs)
  \/ /\ StateNow = "ESCALATED_TO_HUMAN" /\ StateNow' = "AWAITING_OUTCOME"
     /\ CreditIn(cs') = CreditIn(cs) /\ LateIn(cs') = LateIn(cs)
  \/ /\ StateNow = "AWAITING_OUTCOME" /\ StateNow' = "RECOVERED"
     /\ (\E p \in Payments : CreditIn(cs') = {p}) /\ LateIn(cs') = LateIn(cs)
  \/ /\ StateNow = "AWAITING_OUTCOME" /\ StateNow' = "LOST"
     /\ CreditIn(cs') = CreditIn(cs) /\ LateIn(cs') = LateIn(cs)
  \/ /\ StateNow = "LOST" /\ StateNow' = "LOST"
     /\ (\E p \in Payments : LateIn(cs') = LateIn(cs) \cup {p}) /\ CreditIn(cs') = CreditIn(cs)

\* No handler but a success webhook credits anything.
LEMMA PassCredits ==
  ASSUME cs \in CaseRow, NEW now, PassResult(cs, now, cs')
  PROVE  /\ cs'.state \in AllowedTransitions["PROCESSING"]
         /\ CreditIn(cs') = CreditIn(cs) /\ LateIn(cs') = LateIn(cs)
<1>1. cs'.state \in AllowedTransitions["PROCESSING"]
  BY DEF PassResult, PassLeaves, StopLeaves, EscalateLeaves, DeferLeaves, ActLeaves,
         AllowedTransitions
<1>2. CASE cs'.outcomes = cs.outcomes
  BY <1>1, <1>2 DEF CreditIn, LateIn, InTime, Late
<1>3. ASSUME NEW type \in {"STOPPED", "ESCALATED"},
             cs'.outcomes = Append(cs.outcomes, Outcome(type, None, FALSE))
      PROVE  CreditIn(cs') = CreditIn(cs) /\ LateIn(cs') = LateIn(cs)
  <2> DEFINE o == Outcome(type, None, FALSE)
  <2>1. o \in OutcomeRow /\ o.type # "RECOVERED" /\ ~o.late BY DEF Outcome, OutcomeRow
  <2> HIDE DEF o
  <2> QED BY <1>3, <2>1, OutcomeCredits DEF o
<1> QED
  BY <1>1, <1>2, <1>3
  DEF PassResult, PassLeaves, StopLeaves, EscalateLeaves, DeferLeaves, ActLeaves

LEMMA AbstractStep ==
  ASSUME JInv, [Next]_vars
  PROVE  Abstract
<1>0. cs \in CaseRow /\ CreditMatchesState(cs) BY DEF JInv, IInv, RowOK
<1>1. CASE cs' = cs /\ (phase' = "ingest" <=> phase = "ingest")
  BY <1>1 DEF Abstract, StateNow
<1>2. CASE phase' # "ingest" /\ Passes
  <2>1. PICK now \in Nat : PassResult(cs, now, cs') BY <1>2 DEF Passes
  <2>2. StateNow \in {"ABSENT", "AWAITING_OUTCOME"}
    BY <2>1 DEF PassResult, StateNow, JInv, Fresh
  <2>3. StateNow' = cs'.state BY <1>2 DEF StateNow
  <2> QED BY <1>0, <2>1, <2>2, <2>3, PassCredits DEF Abstract
<1>3. CASE phase # "ingest" /\ phase' # "ingest" /\ Closes
  <2>0. StateNow = cs.state /\ StateNow' = cs'.state BY <1>3 DEF StateNow
  <2>1. CASE Open /\ cs' = MarkLost(cs)
    <3> DEFINE o == Outcome("LOST", None, FALSE)
    <3>1. o \in OutcomeRow /\ o.type # "RECOVERED" /\ ~o.late BY DEF Outcome, OutcomeRow
    <3>2. cs'.outcomes = Append(cs.outcomes, o) /\ cs'.state = "LOST"
      BY <1>0, <2>1, MarkLostShape
    <3> HIDE DEF o
    <3>3. CreditIn(cs') = CreditIn(cs) /\ LateIn(cs') = LateIn(cs)
      BY <1>0, <3>1, <3>2, OutcomeCredits
    <3> QED BY <2>0, <2>1, <3>2, <3>3 DEF Abstract, Open
  <2>2. ASSUME NEW p \in Payments, cs.state \in {"AWAITING_OUTCOME", "LOST"},
               cs' = RecordRecovery(cs, p)
        PROVE  Abstract
    <3> DEFINE o == Outcome("RECOVERED", p, cs.state = "LOST")
    <3>1. /\ o \in OutcomeRow /\ o.type = "RECOVERED" /\ o.payment = p
          /\ (cs.state = "LOST" => o.late) /\ (cs.state # "LOST" => ~o.late)
      BY DEF Outcome, OutcomeRow
    <3>2. /\ cs'.outcomes = Append(cs.outcomes, o)
          /\ cs'.state = IF cs.state = "LOST" THEN "LOST" ELSE "RECOVERED"
      BY <1>0, <2>2, RecordRecoveryShape
    <3>3. InTime(cs) = {} BY <1>0, <2>2 DEF CreditMatchesState
    <3>4. CreditIn(cs) = {} BY <3>3 DEF CreditIn
    <3> HIDE DEF o
    <3>5. CASE cs.state = "LOST"
      <4>1. CreditIn(cs') = CreditIn(cs) /\ LateIn(cs') = LateIn(cs) \cup {p}
        BY <1>0, <3>1, <3>2, <3>5, OutcomeCredits
      <4> QED BY <2>0, <3>2, <3>5, <4>1 DEF Abstract
    <3>6. CASE cs.state = "AWAITING_OUTCOME"
      <4>1. CreditIn(cs') = {p} /\ LateIn(cs') = LateIn(cs)
        BY <1>0, <3>1, <3>2, <3>4, <3>6, OutcomeCredits
      <4> QED BY <2>0, <3>2, <3>6, <4>1 DEF Abstract
    <3> QED BY <2>2, <3>5, <3>6
  <2> QED BY <1>3, <2>1, <2>2 DEF Closes
<1>4. CASE phase # "ingest" /\ phase' # "ingest" /\ Approves
  <2>1. CreditIn(cs') = CreditIn(cs) /\ LateIn(cs') = LateIn(cs)
    BY <1>4 DEF Approves, ApproveLeaves, CreditIn, LateIn, InTime, Late
  <2> QED BY <1>4, <2>1 DEF Approves, ApproveLeaves, Abstract, StateNow
<1> QED BY <1>1, <1>2, <1>3, <1>4, RowStep

LEMMA CreditNext ==
  ASSUME JInv, CreditInv, [Next]_vars
  PROVE  CreditInv'
BY AbstractStep DEF Abstract, CreditInv

\* Every behaviour of replay, maintenance, approvals and payments is a life of
\* the case along the transition table, with its credit; that an open case
\* closes is left to the run.
THEOREM LifecycleSafety == Spec => Lifecycle!Init /\ [][Lifecycle!Next]_(Lifecycle!vars)
<1>1. ASSUME Init PROVE Lifecycle!Init /\ CreditInv
  <2>1. JInv /\ phase = "ingest" BY <1>1, JInit DEF Init
  <2>2. cs.outcomes = <<>> BY <2>1 DEF JInv, Fresh
  <2>3. CreditIn(cs) = {} /\ LateIn(cs) = {} BY <2>2 DEF CreditIn, LateIn, InTime, Late
  <2> QED BY <2>1, <2>3 DEF Lifecycle!Init, CreditInv, CreditIn, LateIn
<1>2. JInv /\ CreditInv /\ [Next]_vars => CreditInv' BY CreditNext
<1>3. JInv /\ CreditInv /\ [Next]_vars => [Lifecycle!Next]_(Lifecycle!vars)
  <2> SUFFICES ASSUME JInv, CreditInv, [Next]_vars PROVE Lifecycle!Next
    OBVIOUS
  <2>1. ASSUME NEW c \in {"case"}
        PROVE  \/ Lifecycle!Stay(c) \/ Lifecycle!Work(c) \/ Lifecycle!Approve(c)
               \/ Lifecycle!Recover(c) \/ Lifecycle!Lose(c) \/ Lifecycle!CreditLate(c)
    <3>1. Abstract BY AbstractStep
    <3> QED
      BY <3>1
      DEF Abstract, StateNow, CreditIn, LateIn, Lifecycle!Stay, Lifecycle!Work,
          Lifecycle!Approve, Lifecycle!Recover, Lifecycle!Lose, Lifecycle!CreditLate,
          Lifecycle!Moves, Lifecycle!AllowedTransitions, AllowedTransitions
  <2>2. JInv' /\ CreditInv' BY JNext, CreditNext
  <2>3. StateNow' \in (CaseState \ {"NEW", "PROCESSING"}) \cup {"ABSENT"}
    BY <2>2 DEF JInv, IInv, RowOK, CaseRow, Fresh, StateNow
  <2>4. CreditIn(cs') \subseteq Payments /\ LateIn(cs') \subseteq Payments
    BY <2>2 DEF CreditInv
  <2>5. Lifecycle!TypeOK'
    BY <2>3, <2>4
    DEF Lifecycle!TypeOK, Lifecycle!CommittedState, Lifecycle!CaseState, CaseState,
        StateNow, CreditIn, LateIn
  <2> QED BY <2>1, <2>5 DEF Lifecycle!Next
<1> QED BY <1>1, <1>2, <1>3, JInvariance, PTL DEF Spec
=============================================================================
