---------------------------- MODULE CaseSessions ----------------------------
(***************************************************************************)
(* Concurrent requests on one case.  A handler reads the row into its ORM  *)
(* session, works on that copy, and writes at the end the columns it       *)
(* changed; nothing compares versions and nothing is locked for the read.  *)
(* An UPDATE flushed before the commit holds the row until the commit.     *)
(* The gateway is called before the commit: what it has done stays when    *)
(* the commit does not come.                                               *)
(* Webhooks are coroutines of the one event loop (app/api/webhooks.py):    *)
(* all their code but process_case runs on it.  Approvals run in the       *)
(* thread pool, maintenance passes in the scheduler's thread.  The races   *)
(* take one instant; time does not advance here.                           *)
(***************************************************************************)
EXTENDS CasePipeline

CONSTANTS
  Approvals,    \* requests to approve the case
  Passes,       \* maintenance passes, of the scheduler and of /maintenance
  Successes,    \* deliveries of success events of the case
  Failures,     \* deliveries of other failure events of the same order
  Scenarios,    \* which of these requests overlap
  PaymentOf,    \* the payment each success delivery is about
  InitialRows,  \* committed rows the requests may find
  Instant       \* now

Sessions == Approvals \cup Passes \cup Successes \cup Failures

ASSUME SessionAssumption ==
  /\ InitialRows \subseteq {c \in CaseRow : PendingMatchesState(c) /\ CountersMatchLedger(c)}
  /\ Instant \in Nat
  /\ PaymentOf \in [Successes -> Payments]
  /\ None \notin Sessions
  /\ IsFiniteSet(Sessions)
  /\ Approvals \cap (Passes \cup Successes) = {} /\ Passes \cap Successes = {}
  /\ Scenarios \subseteq SUBSET Sessions

VARIABLES
  row,       \* the committed case row
  effects,   \* links and charges made for the case
  copy,      \* the row as each session loaded it
  work,      \* the row as its handler left it, not yet committed
  pc,        \* how far each session is
  rowLock,   \* the session whose UPDATE of the case row is not committed, or None
  approvalLock, \* likewise for the pending approval's row
  loop       \* the session whose code occupies the event loop, or None

vars == <<row, effects, copy, work, pc, rowLock, approvalLock, loop>>

Init ==
  /\ row \in InitialRows
  /\ effects = Len(row.actions)
  /\ copy = [s \in Sessions |-> row] /\ work = copy
  /\ \E scenario \in Scenarios :
       pc = [s \in Sessions |-> IF s \in scenario THEN "waiting" ELSE "absent"]
  /\ rowLock = None /\ approvalLock = None /\ loop = None

-----------------------------------------------------------------------------

\* New ledger rows are inserted, also those that wait for approval.  A column is
\* written only if it changed or was already flushed under way, whatever another
\* session has committed to it.  Approving one row twice takes it once: pending
\* never counts more rows than there are, though it may count fewer.
Merge(committed, read, written, flushed) ==
  [f \in DOMAIN committed |->
     CASE f \in {"actions", "outcomes"} ->
            committed[f] \o SubSeq(written[f], Len(read[f]) + 1, Len(written[f]))
       [] f = "pending" -> Max({0, committed[f] + written[f] - read[f]})
       [] OTHER -> IF written[f] # read[f] \/ f \in flushed THEN written[f] ELSE committed[f]]

Goto(s, label) == pc' = [pc EXCEPT ![s] = label]

Load(s) == copy' = [copy EXCEPT ![s] = row] /\ UNCHANGED work

\* The handler on the session's copy; what it makes at the gateway exists.
Handle(s, results) ==
  /\ \E r \in results :
       /\ work' = [work EXCEPT ![s] = r.row]
       /\ effects' = effects + r.made
  /\ UNCHANGED <<row, copy, rowLock, approvalLock, loop>>


Release(s) ==
  /\ rowLock' = IF rowLock = s THEN None ELSE rowLock
  /\ approvalLock' = IF approvalLock = s THEN None ELSE approvalLock

\* Write, commit, release what is held.
CommitWork(s, written, flushed) ==
  /\ row' = Merge(row, copy[s], written, flushed)
  /\ Release(s)
  /\ Goto(s, "done")
  /\ UNCHANGED <<effects, copy, work>>

\* The request's own exception, that of another case of the pass, or the death
\* of the process.
RollBack(s) ==
  /\ pc[s] \in {"loaded", "due", "calling", "called"}
  /\ Release(s)
  /\ Goto(s, "done")
  /\ UNCHANGED <<row, effects, copy, work, loop>>

-----------------------------------------------------------------------------

\* POST /cases/{id}/approve: dispatched to a pool thread by the event loop.
ApproveLoads(s) ==
  /\ pc[s] = "waiting" /\ loop = None
  /\ Load(s)
  /\ Goto(s, IF ApproveResults(row, Instant) # {} THEN "loaded" ELSE "done")
  /\ UNCHANGED <<row, effects, rowLock, approvalLock, loop>>

\* The flush of the approval's new status, before the gateway is called.
ApproveFlushes(s) ==
  /\ pc[s] = "loaded"
  /\ approvalLock = None
  /\ approvalLock' = s
  /\ Goto(s, "calling")
  /\ UNCHANGED <<row, effects, copy, work, rowLock, loop>>

ApproveCalls(s) ==
  /\ pc[s] = "calling"
  /\ Handle(s, ApproveResults(copy[s], Instant))
  /\ Goto(s, "called")

\* The UPDATE of the case waits for the row; a failed call has nothing to commit.
ApproveCommits(s) ==
  /\ pc[s] = "called" /\ work[s] # copy[s]
  /\ rowLock = None
  /\ CommitWork(s, work[s], {})
  /\ UNCHANGED loop

-----------------------------------------------------------------------------

Overdue(c) == c.state = "AWAITING_OUTCOME" /\ c.deadline <= Instant

\* The sweep's SELECT of every case.
PassLoads(s) ==
  /\ pc[s] = "waiting"
  /\ Load(s)
  /\ Goto(s, IF Overdue(row) THEN "due" ELSE "loaded")
  /\ UNCHANGED <<row, effects, rowLock, approvalLock, loop>>

\* The requeue's SELECT filters the committed rows, but a case the session
\* already holds keeps the values it was loaded with.  Of a held case that does
\* not wait for its outcome the transition is illegal, and the pass rolls back.
PassSelects(s) ==
  /\ pc[s] = "loaded"
  /\ Goto(s, IF /\ row.state = "AWAITING_OUTCOME" /\ row.deferred # None
                /\ copy[s].deferred # None /\ copy[s].deferred <= Instant
                /\ copy[s].state = "AWAITING_OUTCOME"
             THEN "due" ELSE "done")
  /\ UNCHANGED <<row, effects, copy, work, rowLock, approvalLock, loop>>

\* Other cases of the pass may come first, and the model may be slow; the row
\* is flushed before the gateway is called.
PassFlushes(s) ==
  /\ pc[s] = "due"
  /\ rowLock = None
  /\ rowLock' = s
  /\ Goto(s, "calling")
  /\ UNCHANGED <<row, effects, copy, work, approvalLock, loop>>

PassCalls(s) ==
  /\ pc[s] = "calling"
  /\ Handle(s, MaintainResults(copy[s], Instant))
  /\ Goto(s, "called")

\* One commit for all cases, after the last of them.
PassCommits(s) ==
  /\ pc[s] = "called"
  /\ CommitWork(s, work[s], IF Overdue(copy[s]) THEN {} ELSE {"state", "deferred"})
  /\ UNCHANGED loop

-----------------------------------------------------------------------------

MatchedStates == {"AWAITING_OUTCOME", "LOST"}

\* Slip: the match is handed to a pool thread.
SuccessMatchesInThread(s) ==
  /\ pc[s] = "waiting" /\ loop = None
  /\ IF row.state \in MatchedStates
     THEN Load(s) /\ Goto(s, "matched")
     ELSE UNCHANGED <<copy, work>> /\ Goto(s, "done")
  /\ UNCHANGED <<row, effects, rowLock, approvalLock, loop>>

\* A success webhook never leaves the event loop: it holds it from the match
\* to the commit, while it waits for the row's lock too.
SuccessMatches(s) ==
  /\ pc[s] = "waiting" /\ loop = None
  /\ IF row.state \in MatchedStates
     THEN Load(s) /\ Goto(s, "matched") /\ loop' = s
     ELSE UNCHANGED <<copy, work, loop>> /\ Goto(s, "done")
  /\ UNCHANGED <<row, effects, rowLock, approvalLock>>

SuccessCommits(s) ==
  /\ pc[s] = "matched"
  /\ copy[s].state # "LOST" => rowLock = None
  /\ CommitWork(s, RecordRecovery(copy[s], PaymentOf[s]), {})
  /\ loop' = None

\* A failure webhook links its new case with this one: an UPDATE of this row,
\* flushed in the pool thread that runs process_case and held while the model
\* and the gateway answer.
FailureLinks(s) ==
  /\ pc[s] = "waiting" /\ loop = None
  /\ Goto(s, "linked")
  /\ UNCHANGED <<row, effects, copy, work, rowLock, approvalLock, loop>>

FailureFlushes(s) ==
  /\ pc[s] = "linked"
  /\ rowLock = None
  /\ rowLock' = s
  /\ Goto(s, "processing")
  /\ UNCHANGED <<row, effects, copy, work, approvalLock, loop>>

\* Back on the event loop for the commit.
FailureCommits(s) ==
  /\ pc[s] = "processing" /\ loop = None
  /\ Release(s)
  /\ Goto(s, "done")
  /\ UNCHANGED <<row, effects, copy, work, loop>>

-----------------------------------------------------------------------------

Approving(s) ==
  ApproveLoads(s) \/ ApproveFlushes(s) \/ ApproveCalls(s) \/ ApproveCommits(s) \/ RollBack(s)
Maintaining(s) ==
  \/ PassLoads(s) \/ PassSelects(s) \/ PassFlushes(s) \/ PassCalls(s) \/ PassCommits(s)
  \/ RollBack(s)
Succeeding(s) == SuccessMatches(s) \/ SuccessCommits(s)
Failing(s) == FailureLinks(s) \/ FailureFlushes(s) \/ FailureCommits(s)

Served == (\A s \in Sessions : pc[s] \in {"done", "absent"}) /\ UNCHANGED vars

Next ==
  \/ \E s \in Approvals : Approving(s)
  \/ \E s \in Passes : Maintaining(s)
  \/ \E s \in Successes : Succeeding(s)
  \/ \E s \in Failures : Failing(s)
  \/ Served

\* Threads and coroutines that can run do run.
Fairness ==
  /\ \A s \in Approvals : WF_vars(Approving(s))
  /\ \A s \in Passes : WF_vars(Maintaining(s))
  /\ \A s \in Successes : WF_vars(Succeeding(s))
  /\ \A s \in Failures : WF_vars(Failing(s))

Spec == Init /\ [][Next]_vars /\ Fairness
-----------------------------------------------------------------------------
(* Properties.                                                             *)

Labels ==
  {"waiting", "loaded", "due", "calling", "called", "matched", "linked", "processing", "done",
   "absent"}

TypeOK ==
  /\ row \in CaseRow
  /\ effects \in Nat
  /\ copy \in [Sessions -> CaseRow]
  /\ work \in [Sessions -> CaseRow]
  /\ pc \in [Sessions -> Labels]
  /\ {rowLock, approvalLock, loop} \subseteq Sessions \cup {None}

\* However stale the copies that requests write over each other, what counts
\* against the caps was done: every attempt counted is an action on record, and
\* every action on record a link or charge of its own.  An overlap can only lose
\* counts; that it does is not excluded.
CountedActionsExist == row.attempts <= Len(row.actions) /\ Len(row.actions) <= effects

\* A case that waits for a person has something to approve, also when a request
\* with an older copy escalates it again or an approval of it is half done.
EscalatedIsApprovable == row.state = "ESCALATED_TO_HUMAN" => row.pending > 0

\* A case whose payment is committed is credited with no other: two success
\* deliveries never both take the case for unpaid, as each holds the event loop
\* from its match to its commit.
PaidCaseTakesNoPayment ==
  [][row.state = "RECOVERED" => InTime(row') = InTime(row) /\ Late(row') = Late(row)]_vars

\* RECOVERED is truly terminal: nothing exits it, ever.
RecoveredIsFinal == [][row.state = "RECOVERED" => row'.state = "RECOVERED"]_vars

\* No request freezes another: each one is answered.
EveryRequestAnswered == \A s \in Sessions : <>(pc[s] \in {"done", "absent"})
=============================================================================
