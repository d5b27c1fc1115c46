--------------------------- MODULE RequestThreads ---------------------------
(***************************************************************************)
(* What one process does at the same time: webhooks, approvals and the     *)
(* scheduler's passes, each with a database connection of its own, most of *)
(* them asking the model and calling the gateway.  They share the event    *)
(* loop, the connection pool and the model's cache.  What they do to a     *)
(* case is CasePipeline's and CaseSessions' matter.                        *)
(***************************************************************************)
EXTENDS ModelClient, PaymentClient, Sequences

CONSTANTS
  Webhooks,       \* deliveries of failure events
  Approvals,      \* approvals of escalated cases
  Passes,         \* passes of the scheduler, each with one case to requeue
  PromptsOf,      \* what a request may have to ask: diagnosis, then decision
  Scenarios,      \* which of these requests overlap
  MaxLostReplies, \* gateway requests of one call that take effect but error
  MaxRestarts     \* bound on restarts of the process

ASSUME ThreadAssumption ==
  /\ Requests = Webhooks \cup Approvals \cup Passes
  /\ Webhooks \cap Approvals = {} /\ Webhooks \cap Passes = {} /\ Approvals \cap Passes = {}
  /\ PromptsOf \in [Requests -> Seq(Prompts)]
  /\ \A r \in Approvals : PromptsOf[r] = <<>>
  /\ MaxLostReplies \in Nat /\ MaxRestarts \in Nat
  /\ None \notin Requests
  /\ Scenarios \subseteq SUBSET Requests

VARIABLES
  at,        \* how far each request is
  answers,   \* what the model gave it so far
  gateway,   \* its call of the payment client
  committed, \* the requests whose transaction is committed
  loop,      \* the request whose code occupies the event loop, or None
  restarts

threadVars == <<at, answers, gateway, committed, loop, restarts>>
vars == <<holders, modelVars, threadVars>>

Init ==
  /\ holders = {}
  /\ ModelInit
  /\ \E scenario \in Scenarios :
       at = [r \in Requests |-> IF r \in scenario THEN "idle" ELSE "absent"]
  /\ answers = [r \in Requests |-> <<>>]
  /\ gateway = [r \in Requests |-> NewCall]
  /\ committed = {} /\ loop = None /\ restarts = 0

-----------------------------------------------------------------------------

Goto(r, label) == at' = [at EXCEPT ![r] = label]

\* Code on the event loop keeps it until it awaits or returns.
LeaveLoop(r) == loop' = IF loop = r THEN None ELSE loop

\* A webhook starts on the event loop, an approval is passed to a pool thread
\* by it, the scheduler has a thread of its own.  The engine is there before
\* either: startup() makes it before it starts the scheduler.
Arrive(r) ==
  /\ at[r] = "idle"
  /\ r \notin Passes => loop = None
  /\ loop' = IF r \in Webhooks THEN r ELSE loop
  /\ Goto(r, "connecting")
  /\ UNCHANGED <<holders, modelVars, answers, gateway, committed, restarts>>

\* The first statement; a webhook goes on to a pool thread, in process_case.
Connect(r) ==
  /\ at[r] = "connecting"
  /\ Acquire(r, "request")
  /\ LeaveLoop(r)
  /\ Goto(r, "working")
  /\ UNCHANGED <<modelVars, answers, gateway, committed, restarts>>

\* The wait for a connection is over, or the database refuses.
Refuse(r) ==
  /\ at[r] = "connecting"
  /\ LeaveLoop(r)
  /\ Goto(r, "done")
  /\ UNCHANGED <<holders, modelVars, answers, gateway, committed, restarts>>

Ask(r) ==
  /\ at[r] = "working"
  /\ Len(answers[r]) < Len(PromptsOf[r])
  /\ Classify(r, PromptsOf[r][Len(answers[r]) + 1])
  /\ UNCHANGED threadVars

\* A failure of the client's own two kinds escalates the case, an exception of
\* another kind ends the request.
Answered(r) ==
  LET answer == calls[r].answer
  IN  /\ at[r] = "working"
      /\ calls[r].step = "returned"
      /\ Advance(r, Idle)
      /\ answers' = [answers EXCEPT ![r] = Append(@, answer)]
      /\ Goto(r, CASE answer = "unavailable" -> "committing"
                   [] answer = "raised" -> "closing"
                   [] OTHER -> "working")
      /\ UNCHANGED <<holders, memory, table, gateway, committed, loop, restarts>>

\* Everything asked is answered; after a diagnosis a single candidate needs no
\* second question.  The gate or the choice may leave nothing to execute.
Act(r) ==
  /\ at[r] = "working"
  /\ calls[r].step = "idle"
  /\ answers[r] # <<>> \/ PromptsOf[r] = <<>>
  /\ \/ Goto(r, "acting")
     \/ r \notin Approvals /\ Goto(r, "committing")
  /\ UNCHANGED <<holders, modelVars, answers, gateway, committed, loop, restarts>>

\* A failed call escalates the case, but an approval has no handler for it.
CallGateway(r) ==
  /\ at[r] = "acting"
  /\ \E call \in Attempts(gateway[r], MaxLostReplies) :
       /\ gateway' = [gateway EXCEPT ![r] = call]
       /\ Goto(r, CASE call.reply = "pending" -> "acting"
                    [] call.reply = "failed" /\ r \in Approvals -> "closing"
                    [] OTHER -> "committing")
  /\ UNCHANGED <<holders, modelVars, answers, committed, loop, restarts>>

\* A webhook commits on the event loop.  The connection goes back; the reply
\* quotes the case, which has to be read again.
Commit(r) ==
  /\ at[r] = "committing"
  /\ r \in Webhooks => loop = None
  /\ Release(r, "request")
  /\ committed' = committed \cup {r}
  /\ loop' = IF r \in Webhooks THEN r ELSE loop
  /\ Goto(r, IF r \in Passes THEN "done" ELSE "refreshing")
  /\ UNCHANGED <<modelVars, answers, gateway, restarts>>

\* The reply's own connection, or an error in place of the reply.
Refresh(r) ==
  /\ at[r] = "refreshing"
  /\ \/ Acquire(r, "request") /\ Goto(r, "closing")
     \/ UNCHANGED holders /\ Goto(r, "done")
  /\ LeaveLoop(r)
  /\ UNCHANGED <<modelVars, answers, gateway, committed, restarts>>

\* Slip: only a request that went well gives its connection back.
CloseCommitted(r) ==
  /\ at[r] = "closing"
  /\ r \notin Passes => loop = None
  /\ IF r \in committed THEN Release(r, "request") ELSE UNCHANGED holders
  /\ Goto(r, "done")
  /\ UNCHANGED <<modelVars, answers, gateway, committed, loop, restarts>>

\* The exit of get_session, or of the pass's own session: whatever is not
\* committed is rolled back.
Close(r) ==
  /\ at[r] = "closing"
  /\ r \notin Passes => loop = None
  /\ Release(r, "request")
  /\ Goto(r, "done")
  /\ UNCHANGED <<modelVars, answers, gateway, committed, loop, restarts>>

\* The process dies and is started again: requests under way end without a
\* commit, the memory is gone, the table and the gateway's objects stay.
Crash ==
  /\ restarts < MaxRestarts
  /\ restarts' = restarts + 1
  /\ at' = [r \in Requests |-> IF at[r] \in {"idle", "absent"} THEN at[r] ELSE "done"]
  /\ calls' = [r \in Requests |-> Idle]
  /\ memory' = [p \in Prompts |-> "none"]
  /\ holders' = {} /\ loop' = None
  /\ UNCHANGED <<table, answers, gateway, committed>>

\* What a thread or the event loop does by itself, or after a wait of limited
\* time.  The gateway's SDK is called without a time limit.
Proceed(r) ==
  \/ Connect(r) \/ Refuse(r) \/ Ask(r) \/ Answered(r) \/ Act(r)
  \/ Commit(r) \/ Refresh(r) \/ Close(r)
  \/ ModelStep(r) /\ UNCHANGED threadVars

Step(r) == Proceed(r) \/ CallGateway(r)

Served == (\A r \in Requests : at[r] \in {"done", "absent"}) /\ UNCHANGED vars

Next == (\E r \in Requests : Arrive(r) \/ Step(r)) \/ Crash \/ Served

\* Threads and the event loop run, and their waits for connections and for the
\* model end.  Nobody obliges the gateway to answer, a request to arrive or the
\* process to die.
Fairness == \A r \in Requests : WF_vars(Proceed(r))

Spec == Init /\ [][Next]_vars /\ Fairness
-----------------------------------------------------------------------------
(* Properties.                                                             *)

Labels == {"absent", "idle", "connecting", "working", "acting", "committing", "refreshing", "closing", "done"}

TypeOK ==
  /\ holders \subseteq Requests \X Uses
  /\ memory \in [Prompts -> Cached] /\ table \in [Prompts -> Cached]
  /\ calls \in [Requests -> ModelCall]
  /\ at \in [Requests -> Labels]
  /\ answers \in [Requests -> Seq({"fits", "stale", "unavailable", "raised"})]
  /\ gateway \in [Requests -> Call]
  /\ committed \subseteq Requests
  /\ loop \in Requests \cup {None}
  /\ restarts \in Nat

\* The agent reaches the gateway only on answers of the model that fit their
\* schema: neither a failed call nor an outdated cache row becomes an action,
\* whatever other threads and earlier processes left in the cache.
ActsOnlyOnFittingAnswers ==
  \A r \in Requests : gateway[r].attempt > 0 =>
    \A i \in DOMAIN answers[r] : answers[r][i] = "fits"

\* A good answer in memory stays: identical requests cost nothing from then
\* on, unless the process restarts or a reader still holds an outdated row it
\* fetched before.
CachedAnswerStays ==
  [][\A p \in Prompts :
       memory[p] = "fits" /\ memory'[p] # "fits" =>
         \/ restarts' # restarts
         \/ \E r \in Requests : /\ calls[r].step = "caching" /\ calls[r].prompt = p
                                /\ calls[r].answer = "stale"]_vars

\* Exactly the requests under way have a connection, one for themselves and
\* one for a cache row they are reading: no way through a request leaks one.
PoolConserved ==
  holders = {r \in Requests : at[r] \in {"working", "acting", "committing", "closing"}} \X {"request"}
              \cup {r \in Requests : calls[r].step = "caching"} \X {"cache"}

\* Requests that hold connections and want another, or want the event loop
\* while one on the loop wants a connection, do not wait for ever.  A gateway
\* that never answers keeps the requests that call it, with the connections
\* they hold, but no others.
EveryRequestEnds ==
  \A r \in Requests :
    (at[r] = "connecting" ~> at[r] = "done") \/ <>[](at[r] = "acting")

\* Attempts, waits and lost replies of a payment client's call look like one
\* step to its caller, with at least one object made if it succeeded, whatever
\* others do at the same time; an interrupted call has not returned.  More than
\* one object is allowed for: client.py:31-32 excludes it, its retries do not.
Gateway == INSTANCE GatewayCall WITH
  Callers <- Requests,
  made  <- [r \in Requests |-> IF gateway[r].reply = "pending" THEN 0 ELSE gateway[r].made],
  reply <- [r \in Requests |-> gateway[r].reply]

GatewaySpec == Gateway!Spec

\* A failing model escalates the case to a person: the request that met the
\* failure commits.
ModelFailuresEscalate ==
  \A r \in Requests :
    at[r] = "done" /\ (\E i \in DOMAIN answers[r] : answers[r][i] \in {"unavailable", "raised"})
      => r \in committed
=============================================================================
