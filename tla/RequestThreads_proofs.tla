----------------------- MODULE RequestThreads_proofs ------------------------
(***************************************************************************)
(* Theorems about RequestThreads, for any number of requests, prompts,     *)
(* connections, lost replies and restarts.  The inductive invariant is     *)
(* about each request by itself, beside what the pool has given out.       *)
(***************************************************************************)
EXTENDS RequestThreads, TLAPS

\* A request that has not called the gateway yet, or is calling it.
Early == {"absent", "idle", "connecting", "working", "acting"}

\* A call under way has made what was lost of it and has an attempt left.
GatewayOK(call) ==
  /\ call \in Call
  /\ call.lost <= MaxLostReplies
  /\ call.reply = "pending" => call.made = call.lost /\ call.attempt < StopAfterAttempt
  /\ call.reply = "failed" => call.made = call.lost
  /\ call.reply = "ok" => call.made = call.lost + 1

ModelCallOK(call) ==
  /\ call \in ModelCall
  /\ call.step # "idle" => call.prompt \in Prompts
  /\ call.step = "caching" => call.answer \in Cached
  /\ call.step = "returned" => call.answer \in {"fits", "unavailable", "raised"}

RequestOK(r) ==
  /\ ModelCallOK(calls[r])
  /\ GatewayOK(gateway[r])
  /\ at[r] \in Early => gateway[r].reply = "pending" /\ answers[r] \in Seq({"fits"})
  /\ at[r] \in Early \ {"acting"} => gateway[r].attempt = 0
  /\ gateway[r].attempt > 0 => answers[r] \in Seq({"fits"})

IInv == TypeOK /\ \A r \in Requests : RequestOK(r)

LEMMA InitInvariant == Init => IInv
<1> SUFFICES ASSUME Init PROVE IInv
  OBVIOUS
<1> USE ModelAssumption, ThreadAssumption
<1>1. Idle \in ModelCall /\ ModelCallOK(Idle)
  BY DEF Idle, ModelCall, ModelCallOK, RateLimitAttempts, Cached
<1>2. NewCall \in Call /\ GatewayOK(NewCall)
  BY DEF NewCall, Call, GatewayOK, Replies, StopAfterAttempt
<1>3. calls = [r \in Requests |-> Idle] /\ gateway = [r \in Requests |-> NewCall]
      /\ answers = [r \in Requests |-> <<>>]
  BY DEF Init, ModelInit
<1>4. at \in [Requests -> {"absent", "idle"}]
  BY DEF Init
<1>5. TypeOK
  <2>1. holders \subseteq Requests \X Uses BY DEF Init
  <2>2. memory \in [Prompts -> Cached] /\ table \in [Prompts -> Cached]
    BY DEF Init, ModelInit, Cached
  <2>3. calls \in [Requests -> ModelCall] /\ gateway \in [Requests -> Call]
    BY <1>1, <1>2, <1>3
  <2>4. answers \in [Requests -> Seq({"fits", "stale", "unavailable", "raised"})]
    BY <1>3
  <2>5. at \in [Requests -> Labels] BY <1>4 DEF Labels
  <2>6. /\ committed \subseteq Requests /\ loop \in Requests \cup {None}
        /\ restarts \in Nat
    BY DEF Init
  <2> QED BY <2>1, <2>2, <2>3, <2>4, <2>5, <2>6 DEF TypeOK
<1>6. ASSUME NEW r \in Requests PROVE RequestOK(r)
  BY <1>1, <1>2, <1>3, <1>4 DEF RequestOK, Early, NewCall
<1> QED BY <1>5, <1>6 DEF IInv

-----------------------------------------------------------------------------
(* The model's calls.                                                      *)

\* The locals of a good call, advanced, are those of a good call.
LEMMA JudgedOK ==
  ASSUME NEW call, call \in ModelCall, call.prompt \in Prompts, NEW cached
  PROVE  ModelCallOK(Judged(call, cached))
BY DEF ModelCall, ModelCallOK, Judged, Returned, Posting, RateLimitAttempts, Cached

\* A step that only advances a request's call, to a good one, within the
\* types, preserves the invariant.
LEMMA AdvanceOK ==
  ASSUME IInv, NEW r \in Requests, NEW call, ModelCallOK(call), Advance(r, call),
         UNCHANGED threadVars,
         holders' \subseteq Requests \X Uses,
         memory' \in [Prompts -> Cached], table' \in [Prompts -> Cached]
  PROVE  IInv'
<1>1. calls' = [calls EXCEPT ![r] = call] /\ call \in ModelCall
  BY DEF Advance, ModelCallOK
<1>2. TypeOK'
  BY <1>1 DEF IInv, TypeOK, threadVars
<1>3. ASSUME NEW q \in Requests PROVE RequestOK(q)'
  <2>1. ModelCallOK(calls'[q])
    BY <1>1 DEF IInv, TypeOK, RequestOK
  <2>2. RequestOK(q) BY DEF IInv
  <2> QED BY <2>1, <2>2 DEF RequestOK, threadVars
<1> QED BY <1>2, <1>3 DEF IInv

LEMMA ModelStepInvariant ==
  ASSUME IInv, NEW r \in Requests, ModelStep(r), UNCHANGED threadVars
  PROVE  IInv'
<1> DEFINE call == calls[r]
<1>1. /\ call \in ModelCall /\ ModelCallOK(call)
      /\ memory \in [Prompts -> Cached] /\ table \in [Prompts -> Cached]
      /\ holders \subseteq Requests \X Uses
  BY DEF IInv, TypeOK, RequestOK
<1>2. ASSUME call.step # "idle" PROVE call.prompt \in Prompts
  BY <1>1, <1>2 DEF ModelCallOK
<1> USE DEF Cached
<1>3. CASE Fetch(r)
  <2>1. Advance(r, [call EXCEPT !.step = "caching", !.answer = table[call.prompt]])
    BY <1>3 DEF Fetch
  <2>2. ModelCallOK([call EXCEPT !.step = "caching", !.answer = table[call.prompt]])
    BY <1>1, <1>2, <1>3 DEF Fetch, ModelCallOK, ModelCall
  <2>3. holders' \subseteq Requests \X Uses
    BY <1>1, <1>3 DEF Fetch, Acquire, Uses
  <2> QED BY <1>1, <1>3, <2>1, <2>2, <2>3, AdvanceOK DEF Fetch
<1>4. CASE FetchFails(r)
  <2>1. ModelCallOK(Posting(call))
    BY <1>1, <1>2, <1>4 DEF FetchFails, ModelCallOK, ModelCall, Posting, RateLimitAttempts
  <2> QED BY <1>1, <1>4, <2>1, AdvanceOK DEF FetchFails
<1>5. CASE Cache(r)
  <2>1. ModelCallOK(Judged(call, call.answer))
    BY <1>1, <1>2, <1>5, JudgedOK DEF Cache
  <2>2. call.answer \in Cached
    BY <1>1, <1>5 DEF Cache, ModelCallOK
  <2>3. memory' \in [Prompts -> Cached]
    BY <1>1, <1>5, <2>2 DEF Cache
  <2>4. holders' \subseteq Requests \X Uses
    BY <1>1, <1>5 DEF Cache, Release
  <2> QED BY <1>1, <1>5, <2>1, <2>3, <2>4, AdvanceOK DEF Cache
<1>6. CASE Reply(r)
  <2>1. ModelCallOK(Storing(call))
    BY <1>1, <1>2, <1>6 DEF Reply, ModelCallOK, ModelCall, Storing, RateLimitAttempts
  <2>2. memory' \in [Prompts -> Cached]
    BY <1>1, <1>6 DEF Reply
  <2> QED BY <1>1, <1>6, <2>1, <2>2, AdvanceOK DEF Reply
<1>7. CASE RateLimited(r)
  <2> DEFINE next == IF call.attempt < RateLimitAttempts
                     THEN [call EXCEPT !.attempt = @ + 1]
                     ELSE Returned(call, "unavailable")
  <2>1. ModelCallOK(next)
    BY <1>1, <1>2, <1>7 DEF RateLimited, ModelCallOK, ModelCall, Returned, RateLimitAttempts
  <2>2. Advance(r, next) BY <1>7 DEF RateLimited
  <2> HIDE DEF next
  <2> QED BY <1>1, <1>7, <2>1, <2>2, AdvanceOK DEF RateLimited
<1>8. CASE Unanswered(r)
  <2>1. ModelCallOK(Returned(call, "unavailable"))
    BY <1>1, <1>2, <1>8 DEF Unanswered, ModelCallOK, ModelCall, Returned, RateLimitAttempts
  <2> QED BY <1>1, <1>8, <2>1, AdvanceOK DEF Unanswered
<1>9. CASE Escapes(r)
  <2>1. ModelCallOK(Returned(call, "raised"))
    BY <1>1, <1>2, <1>9 DEF Escapes, ModelCallOK, ModelCall, Returned, RateLimitAttempts
  <2> QED BY <1>1, <1>9, <2>1, AdvanceOK DEF Escapes
<1>10. CASE Store(r)
  <2>1. ModelCallOK(Returned(call, "fits"))
    BY <1>1, <1>2, <1>10 DEF Store, ModelCallOK, ModelCall, Returned, RateLimitAttempts
  <2>2. table' \in [Prompts -> Cached]
    BY <1>1, <1>10 DEF Store
  <2> QED BY <1>1, <1>10, <2>1, <2>2, AdvanceOK DEF Store
<1> QED BY <1>3, <1>4, <1>5, <1>6, <1>7, <1>8, <1>9, <1>10 DEF ModelStep

LEMMA AskInvariant ==
  ASSUME IInv, NEW r \in Requests, Ask(r)
  PROVE  IInv'
<1> DEFINE p == PromptsOf[r][Len(answers[r]) + 1]
           call == [Idle EXCEPT !.prompt = p]
<1>1. p \in Prompts
  BY ThreadAssumption DEF Ask, IInv, TypeOK
<1>2. call = [step |-> "idle", prompt |-> p, attempt |-> 0, answer |-> "none"]
  BY DEF Idle
<1> HIDE DEF call, p
<1>3. call \in ModelCall /\ call.prompt \in Prompts
  BY <1>1, <1>2 DEF ModelCall, RateLimitAttempts, Cached
<1>4. ModelCallOK([call EXCEPT !.step = "looking"])
  BY <1>3 DEF ModelCall, ModelCallOK
<1>5. \E next : ModelCallOK(next) /\ Advance(r, next)
  <2>1. Advance(r, IF memory[p] = "none" THEN [call EXCEPT !.step = "looking"]
                                         ELSE Judged(call, memory[p]))
    BY DEF Ask, Classify, call, p
  <2> QED BY <1>3, <1>4, <2>1, JudgedOK
<1> QED BY <1>5, AdvanceOK DEF Ask, Classify, IInv, TypeOK

-----------------------------------------------------------------------------
(* The requests' own steps.                                                *)

\* Only the request that takes the step has to be looked at.
LEMMA OneRequest ==
  ASSUME IInv, NEW r \in Requests, TypeOK', RequestOK(r)',
         \A q \in Requests \ {r} :
           /\ at'[q] = at[q] /\ answers'[q] = answers[q]
           /\ gateway'[q] = gateway[q] /\ calls'[q] = calls[q]
  PROVE  IInv'
<1>1. ASSUME NEW q \in Requests \ {r} PROVE RequestOK(q)'
  <2>1. RequestOK(q) BY DEF IInv
  <2> QED BY <2>1 DEF RequestOK
<1> QED BY <1>1 DEF IInv

\* A step that moves a request and leaves its call, its answers and the
\* gateway alone.
LEMMA MoveOK ==
  ASSUME IInv, NEW r \in Requests, NEW label \in Labels, Goto(r, label),
         label \in Early => at[r] \in Early,
         label \in Early \ {"acting"} => at[r] \in Early \ {"acting"},
         UNCHANGED <<modelVars, answers, gateway, restarts>>,
         holders' \subseteq Requests \X Uses,
         committed' \subseteq Requests,
         loop' \in Requests \cup {None}
  PROVE  IInv'
<1>1. at' = [at EXCEPT ![r] = label] /\ at \in [Requests -> Labels]
  BY DEF Goto, IInv, TypeOK
<1>2. TypeOK' BY <1>1 DEF IInv, TypeOK, modelVars
<1>3. at'[r] = label /\ \A q \in Requests \ {r} : at'[q] = at[q] BY <1>1
<1>4. RequestOK(r)'
  <2>1. RequestOK(r) BY DEF IInv
  <2> QED BY <1>3, <2>1 DEF RequestOK, modelVars
<1> QED BY <1>2, <1>3, <1>4, OneRequest DEF modelVars

LEMMA AnsweredInvariant ==
  ASSUME IInv, NEW r \in Requests, Answered(r)
  PROVE  IInv'
<1> DEFINE answer == calls[r].answer
           label == CASE answer = "unavailable" -> "committing"
                      [] answer = "raised" -> "closing"
                      [] OTHER -> "working"
<1>1. /\ at[r] = "working" /\ calls[r].step = "returned"
      /\ calls' = [calls EXCEPT ![r] = Idle]
      /\ answers' = [answers EXCEPT ![r] = Append(@, answer)]
      /\ at' = [at EXCEPT ![r] = label]
      /\ UNCHANGED <<holders, memory, table, gateway, committed, loop, restarts>>
  BY DEF Answered, Advance, Goto
<1>2. answer \in {"fits", "unavailable", "raised"} BY <1>1 DEF IInv, RequestOK, ModelCallOK
<1>3. label \in {"committing", "closing", "working"} /\ (label = "working" => answer = "fits")
  BY <1>2
<1> HIDE DEF answer, label
<1>4. Idle \in ModelCall /\ ModelCallOK(Idle)
  BY DEF Idle, ModelCall, ModelCallOK, RateLimitAttempts, Cached
<1>5. RequestOK(r) /\ answers[r] \in Seq({"fits"}) /\ gateway[r].attempt = 0
      /\ gateway[r].reply = "pending"
  BY <1>1 DEF IInv, RequestOK, Early
<1>6. answers'[r] = Append(answers[r], answer) /\ at'[r] = label /\ calls'[r] = Idle
  BY <1>1 DEF IInv, TypeOK
<1>7. answer = "fits" => answers'[r] \in Seq({"fits"})
  BY <1>5, <1>6
<1>8. RequestOK(r)'
  BY <1>1, <1>3, <1>4, <1>5, <1>6, <1>7 DEF RequestOK, Early
<1>9. TypeOK'
  <2>1. at' \in [Requests -> Labels] BY <1>1, <1>3 DEF IInv, TypeOK, Labels
  <2>2. answers' \in [Requests -> Seq({"fits", "stale", "unavailable", "raised"})]
    <3>1. Append(answers[r], answer) \in Seq({"fits", "stale", "unavailable", "raised"})
      BY <1>2 DEF IInv, TypeOK
    <3> QED BY <1>1, <3>1 DEF IInv, TypeOK
  <2>3. calls' \in [Requests -> ModelCall] BY <1>1, <1>4 DEF IInv, TypeOK
  <2> QED BY <1>1, <2>1, <2>2, <2>3 DEF IInv, TypeOK
<1> QED BY <1>1, <1>8, <1>9, OneRequest DEF IInv, TypeOK

\* One attempt keeps the books of a call.
LEMMA AttemptOK ==
  ASSUME NEW call, GatewayOK(call), call.reply = "pending",
         NEW next \in Attempts(call, MaxLostReplies)
  PROVE  GatewayOK(next)
<1>1. /\ call \in Call /\ call.made = call.lost /\ call.attempt < StopAfterAttempt
      /\ call.lost <= MaxLostReplies /\ MaxLostReplies \in Nat
  BY ThreadAssumption DEF GatewayOK
<1>2. call.attempt \in 0 .. StopAfterAttempt /\ call.made \in Nat /\ call.lost \in Nat
  BY <1>1 DEF Call
<1> USE DEF StopAfterAttempt, Replies
<1>3. CASE next \in Succeeded(call)
  BY <1>1, <1>2, <1>3 DEF Succeeded, Tried, GatewayOK, Call
<1>4. CASE next \in Errored(call, MaxLostReplies, "failed")
  BY <1>1, <1>2, <1>4 DEF Errored, Tried, GatewayOK, Call
<1>5. CASE next \in Errored(call, MaxLostReplies,
                             IF call.attempt + 1 < StopAfterAttempt THEN "pending" ELSE "failed")
  <2>1. CASE call.attempt + 1 < StopAfterAttempt
    BY <1>1, <1>2, <1>5, <2>1 DEF Errored, Tried, GatewayOK, Call
  <2>2. CASE ~(call.attempt + 1 < StopAfterAttempt)
    BY <1>1, <1>2, <1>5, <2>2 DEF Errored, Tried, GatewayOK, Call
  <2> QED BY <2>1, <2>2
<1> QED BY <1>3, <1>4, <1>5 DEF Attempts

LEMMA CallGatewayInvariant ==
  ASSUME IInv, NEW r \in Requests, CallGateway(r)
  PROVE  IInv'
<1>1. PICK call \in Attempts(gateway[r], MaxLostReplies) :
        /\ gateway' = [gateway EXCEPT ![r] = call]
        /\ Goto(r, CASE call.reply = "pending" -> "acting"
                     [] call.reply = "failed" /\ r \in Approvals -> "closing"
                     [] OTHER -> "committing")
  BY DEF CallGateway
<1>2. /\ at[r] = "acting"
      /\ UNCHANGED <<holders, modelVars, answers, committed, loop, restarts>>
  BY DEF CallGateway
<1>3. RequestOK(r) /\ gateway[r].reply = "pending" /\ answers[r] \in Seq({"fits"})
  BY <1>2 DEF IInv, RequestOK, Early
<1>4. GatewayOK(call) /\ call \in Call
  BY <1>3, AttemptOK DEF RequestOK, GatewayOK
<1>5. gateway'[r] = call BY <1>1 DEF IInv, TypeOK
<1>6. at'[r] \in {"acting", "closing", "committing"}
      /\ (at'[r] = "acting" => call.reply = "pending")
      /\ \A q \in Requests \ {r} : at'[q] = at[q]
  BY <1>1 DEF Goto, IInv, TypeOK
<1>7. RequestOK(r)'
  BY <1>2, <1>3, <1>4, <1>5, <1>6 DEF RequestOK, Early, modelVars
<1>8. TypeOK'
  <2>1. gateway' \in [Requests -> Call] BY <1>1, <1>4 DEF IInv, TypeOK
  <2>2. at' \in [Requests -> Labels] BY <1>1 DEF Goto, IInv, TypeOK, Labels
  <2> QED BY <1>2, <2>1, <2>2 DEF IInv, TypeOK, modelVars
<1> QED BY <1>1, <1>2, <1>6, <1>7, <1>8, OneRequest DEF modelVars, IInv, TypeOK

LEMMA StepInvariant ==
  ASSUME IInv, NEW r \in Requests, Step(r)
  PROVE  IInv'
<1> USE DEF Labels, Early, Uses
<1>0. TypeOK BY DEF IInv
<1>1. CASE Connect(r)
  <2>1. holders' \subseteq Requests \X Uses BY <1>0, <1>1 DEF Connect, Acquire, TypeOK
  <2>2. loop' \in Requests \cup {None} BY <1>0, <1>1 DEF Connect, LeaveLoop, TypeOK
  <2> QED BY <1>0, <1>1, <2>1, <2>2, MoveOK DEF Connect, TypeOK
<1>2. CASE Refuse(r)
  BY <1>0, <1>2, MoveOK DEF Refuse, LeaveLoop, TypeOK
<1>3. CASE Act(r)
  <2>1. CASE Goto(r, "acting") BY <1>0, <1>3, <2>1, MoveOK DEF Act, TypeOK
  <2>2. CASE Goto(r, "committing") BY <1>0, <1>3, <2>2, MoveOK DEF Act, TypeOK
  <2> QED BY <1>3, <2>1, <2>2 DEF Act
<1>4. CASE Commit(r)
  <2>1. CASE r \in Passes
    BY <1>0, <1>4, <2>1, MoveOK DEF Commit, Release, TypeOK
  <2>2. CASE r \notin Passes
    BY <1>0, <1>4, <2>2, MoveOK DEF Commit, Release, TypeOK
  <2> QED BY <2>1, <2>2
<1>5. CASE Refresh(r)
  <2>1. CASE Acquire(r, "request") /\ Goto(r, "closing")
    <3>1. holders' \subseteq Requests \X Uses BY <1>0, <2>1 DEF Acquire, TypeOK
    <3>2. loop' \in Requests \cup {None} BY <1>0, <1>5 DEF Refresh, LeaveLoop, TypeOK
    <3> QED BY <1>0, <1>5, <2>1, <3>1, <3>2, MoveOK DEF Refresh, TypeOK
  <2>2. CASE UNCHANGED holders /\ Goto(r, "done")
    BY <1>0, <1>5, <2>2, MoveOK DEF Refresh, LeaveLoop, TypeOK
  <2> QED BY <1>5, <2>1, <2>2 DEF Refresh
<1>6. CASE Close(r)
  BY <1>0, <1>6, MoveOK DEF Close, Release, TypeOK
<1>7. CASE ModelStep(r) /\ UNCHANGED threadVars
  BY <1>7, ModelStepInvariant
<1> QED BY <1>1, <1>2, <1>3, <1>4, <1>5, <1>6, <1>7,
           AskInvariant, AnsweredInvariant, CallGatewayInvariant DEF Step, Proceed

LEMMA NextInvariant == IInv /\ [Next]_vars => IInv'
<1> SUFFICES ASSUME IInv, [Next]_vars PROVE IInv'
  OBVIOUS
<1>1. ASSUME NEW r \in Requests, Arrive(r) PROVE IInv'
  BY <1>1, MoveOK DEF Arrive, IInv, TypeOK, Labels, Early
<1>2. CASE Crash
  <2>1. Idle \in ModelCall /\ ModelCallOK(Idle)
    BY DEF Idle, ModelCall, ModelCallOK, RateLimitAttempts, Cached
  <2>2. TypeOK'
    <3>1. at' \in [Requests -> Labels] BY <1>2 DEF Crash, IInv, TypeOK, Labels
    <3>2. calls' \in [Requests -> ModelCall] BY <1>2, <2>1 DEF Crash
    <3>3. memory' \in [Prompts -> Cached] BY <1>2 DEF Crash, Cached
    <3>4. /\ UNCHANGED <<table, answers, gateway, committed>>
          /\ holders' = {} /\ loop' = None /\ restarts' = restarts + 1
      BY <1>2 DEF Crash
    <3>5. TypeOK BY DEF IInv
    <3>6. /\ table' \in [Prompts -> Cached] /\ gateway' \in [Requests -> Call]
          /\ answers' \in [Requests -> Seq({"fits", "stale", "unavailable", "raised"})]
      BY <3>4, <3>5 DEF TypeOK
    <3>7. /\ holders' \subseteq Requests \X Uses /\ committed' \subseteq Requests
          /\ loop' \in Requests \cup {None} /\ restarts' \in Nat
      BY <3>4, <3>5 DEF TypeOK
    <3> QED BY <3>1, <3>2, <3>3, <3>6, <3>7 DEF TypeOK
  <2>3. ASSUME NEW r \in Requests PROVE RequestOK(r)'
    <3>1. RequestOK(r) BY DEF IInv
    <3>2. calls'[r] = Idle /\ at'[r] \in {at[r], "done"} BY <1>2 DEF Crash
    <3> QED BY <1>2, <2>1, <3>1, <3>2 DEF Crash, RequestOK, Early
  <2> QED BY <2>2, <2>3 DEF IInv
<1>3. CASE UNCHANGED vars
  <2>1. TypeOK' BY <1>3 DEF IInv, TypeOK, vars, modelVars, threadVars
  <2>2. ASSUME NEW r \in Requests PROVE RequestOK(r)'
    BY <1>3 DEF IInv, RequestOK, vars, modelVars, threadVars
  <2> QED BY <2>1, <2>2 DEF IInv
<1> QED BY <1>1, <1>2, <1>3, StepInvariant DEF Next, Served

LEMMA Invariance == Spec => []IInv
BY InitInvariant, NextInvariant, PTL DEF Spec

-----------------------------------------------------------------------------

\* Every variable keeps to its values: no request counts a fourth attempt on
\* the model or a fifth on the gateway.
THEOREM TypeCorrect == Spec => []TypeOK
<1>1. IInv => TypeOK BY DEF IInv
<1> QED BY <1>1, Invariance, PTL

\* However requests, restarts and cache rows mix, nobody reaches the gateway on
\* an answer of the model that failed or does not fit its schema.
THEOREM FittingInvariant == Spec => []ActsOnlyOnFittingAnswers
<1>1. IInv => ActsOnlyOnFittingAnswers
  <2> SUFFICES ASSUME IInv, NEW r \in Requests, gateway[r].attempt > 0,
                      NEW i \in DOMAIN answers[r]
               PROVE  answers[r][i] = "fits"
    BY DEF ActsOnlyOnFittingAnswers
  <2>1. answers[r] \in Seq({"fits"}) BY DEF IInv, RequestOK
  <2> QED BY <2>1
<1> QED BY <1>1, Invariance, PTL

-----------------------------------------------------------------------------
(* The cache.                                                              *)

\* Only a reader with an outdated row in hand, or a restart, takes a good
\* answer out of the memory.
LEMMA MemoryStep ==
  ASSUME IInv, [Next]_vars, NEW p \in Prompts, memory[p] = "fits", memory'[p] # "fits"
  PROVE  \/ restarts' # restarts
         \/ \E r \in Requests : /\ calls[r].step = "caching" /\ calls[r].prompt = p
                                /\ calls[r].answer = "stale"
<1>1. CASE Crash
  BY <1>1 DEF Crash, IInv, TypeOK
<1>2. ASSUME NEW r \in Requests, Cache(r)
      PROVE  calls[r].step = "caching" /\ calls[r].prompt = p /\ calls[r].answer = "stale"
  <2>1. calls[r].step = "caching" /\ calls[r].answer \in Cached
    BY <1>2 DEF Cache, IInv, RequestOK, ModelCallOK
  <2>2. calls[r].prompt = p /\ calls[r].answer \notin {"none", "fits"}
    BY <1>2 DEF Cache, IInv, TypeOK
  <2> QED BY <2>1, <2>2 DEF Cached
<1>3. ASSUME NEW r \in Requests, Reply(r) PROVE FALSE
  BY <1>3 DEF Reply, IInv, TypeOK
<1>4. ASSUME NEW r \in Requests, Step(r) PROVE Cache(r) \/ Reply(r)
  BY <1>4 DEF Step, Proceed, ModelStep, modelVars, threadVars,
              Connect, Refuse, Ask, Classify, Answered, Act, CallGateway, Commit, Refresh, Close,
              Fetch, FetchFails, RateLimited, Unanswered, Escapes, Store
<1>5. ASSUME NEW r \in Requests, Arrive(r) PROVE FALSE
  BY <1>5 DEF Arrive, modelVars
<1>6. CASE UNCHANGED vars
  BY <1>6 DEF vars, modelVars
<1> QED BY <1>1, <1>2, <1>3, <1>4, <1>5, <1>6 DEF Next, Served

\* Identical requests are answered from memory once one of them was.
THEOREM CacheInvariant == Spec => CachedAnswerStays
<1>1. IInv /\ [Next]_vars =>
        [\A p \in Prompts :
           memory[p] = "fits" /\ memory'[p] # "fits" =>
             \/ restarts' # restarts
             \/ \E r \in Requests : /\ calls[r].step = "caching" /\ calls[r].prompt = p
                                    /\ calls[r].answer = "stale"]_vars
  BY MemoryStep
<1> QED BY <1>1, Invariance, PTL DEF Spec, CachedAnswerStays

-----------------------------------------------------------------------------
(* The pool.                                                               *)

Connected == {"working", "acting", "committing", "closing"}

\* The pool's books, request by request.
Booked(r) ==
  /\ <<r, "request">> \in holders <=> at[r] \in Connected
  /\ <<r, "cache">> \in holders <=> calls[r].step = "caching"

Books == \A r \in Requests : Booked(r)

LEMMA BooksClose == IInv => (PoolConserved <=> Books)
<1> SUFFICES ASSUME IInv PROVE PoolConserved <=> Books
  OBVIOUS
<1>1. ASSUME PoolConserved, NEW r \in Requests PROVE Booked(r)
  BY <1>1 DEF PoolConserved, Booked, Connected
<1>2. ASSUME Books PROVE PoolConserved
  <2> DEFINE own == {r \in Requests : at[r] \in Connected} \X {"request"}
             cached == {r \in Requests : calls[r].step = "caching"} \X {"cache"}
  <2>1. ASSUME NEW h \in holders PROVE h \in own \cup cached
    <3>1. PICK r \in Requests, use \in Uses : h = <<r, use>> BY DEF IInv, TypeOK
    <3>2. Booked(r) BY <1>2 DEF Books
    <3> QED BY <2>1, <3>1, <3>2 DEF Booked, Uses
  <2>2. ASSUME NEW h \in own PROVE h \in holders
    <3>1. PICK r \in Requests : h = <<r, "request">> /\ at[r] \in Connected OBVIOUS
    <3> QED BY <1>2, <3>1 DEF Books, Booked
  <2>3. ASSUME NEW h \in cached PROVE h \in holders
    <3>1. PICK r \in Requests : h = <<r, "cache">> /\ calls[r].step = "caching" OBVIOUS
    <3> QED BY <1>2, <3>1 DEF Books, Booked
  <2>4. holders = own \cup cached BY <2>1, <2>2, <2>3
  <2> QED BY <2>4 DEF PoolConserved, Connected
<1> QED BY <1>1, <1>2 DEF Books

\* A step of one request keeps the books of every request.
LEMMA StepBooks ==
  ASSUME IInv, Books, NEW r \in Requests, Step(r), NEW q \in Requests
  PROVE  Booked(q)'
<1>1. Booked(q) /\ Booked(r) BY DEF Books
<1>2. TypeOK BY DEF IInv
<1> USE DEF Booked, Connected, TypeOK
<1>3. CASE Connect(r) BY <1>1, <1>2, <1>3 DEF Connect, Acquire, Goto, modelVars
<1>4. CASE Refuse(r) BY <1>1, <1>2, <1>4 DEF Refuse, Goto, modelVars
<1>5. CASE Ask(r)
  <2>1. /\ calls[r].step = "idle" /\ UNCHANGED <<holders, at>>
        /\ \E call : call.step # "caching" /\ calls' = [calls EXCEPT ![r] = call]
    BY <1>5 DEF Ask, Classify, Advance, Judged, Returned, Posting, Idle, threadVars
  <2> QED BY <1>1, <1>2, <2>1
<1>6. CASE Answered(r) BY <1>1, <1>2, <1>6 DEF Answered, Advance, Goto, Idle
<1>7. CASE Act(r) BY <1>1, <1>2, <1>7 DEF Act, Goto, modelVars
<1>8. CASE CallGateway(r) BY <1>1, <1>2, <1>8 DEF CallGateway, Goto, modelVars
<1>9. CASE Commit(r) BY <1>1, <1>2, <1>9 DEF Commit, Release, Goto, modelVars
<1>10. CASE Refresh(r) BY <1>1, <1>2, <1>10 DEF Refresh, Acquire, Goto, modelVars
<1>11. CASE Close(r) BY <1>1, <1>2, <1>11 DEF Close, Release, Goto, modelVars
<1>12. CASE ModelStep(r) /\ UNCHANGED threadVars
  <2>1. at' = at BY <1>12 DEF threadVars
  <2>2. CASE Fetch(r)
    <3>1. holders' = holders \cup {<<r, "cache">>} BY <2>2 DEF Fetch, Acquire
    <3>2. \E call : call.step = "caching" /\ calls' = [calls EXCEPT ![r] = call]
      <4>1. [calls[r] EXCEPT !.step = "caching", !.answer = table[calls[r].prompt]].step = "caching"
        BY <1>2 DEF ModelCall
      <4> QED BY <2>2, <4>1 DEF Fetch, Advance
    <3>3. calls'[r].step = "caching" /\ (q # r => calls'[q] = calls[q]) BY <1>2, <3>2
    <3> QED BY <1>1, <2>1, <3>1, <3>3
  <2>3. CASE Cache(r)
    <3>1. holders' = holders \ {<<r, "cache">>} BY <2>3 DEF Cache, Release
    <3>2. \E call : call.step # "caching" /\ calls' = [calls EXCEPT ![r] = call]
      <4>1. Judged(calls[r], calls[r].answer).step # "caching"
        BY DEF Judged, Returned, Posting
      <4> QED BY <2>3, <4>1 DEF Cache, Advance
    <3>3. calls'[r].step # "caching" /\ (q # r => calls'[q] = calls[q]) BY <1>2, <3>2
    <3> QED BY <1>1, <2>1, <3>1, <3>3
  <2>4. CASE /\ calls[r].step # "caching" /\ UNCHANGED holders
             /\ \E call : call.step # "caching" /\ calls' = [calls EXCEPT ![r] = call]
    BY <1>1, <1>2, <2>1, <2>4
  <2>5. CASE RateLimited(r)
    <3>1. [calls[r] EXCEPT !.attempt = @ + 1].step # "caching"
      BY <1>2, <2>5 DEF RateLimited, ModelCall
    <3> QED BY <2>4, <2>5, <3>1 DEF RateLimited, Advance, Returned
  <2>6. CASE FetchFails(r) \/ Reply(r) \/ Unanswered(r) \/ Escapes(r) \/ Store(r)
    BY <2>4, <2>6
    DEF FetchFails, Reply, Unanswered, Escapes, Store, Advance, Returned, Posting, Storing
  <2> QED BY <1>12, <2>2, <2>3, <2>5, <2>6 DEF ModelStep
<1> QED BY <1>3, <1>4, <1>5, <1>6, <1>7, <1>8, <1>9, <1>10, <1>11, <1>12 DEF Step, Proceed

LEMMA NextBooks == IInv /\ Books /\ [Next]_vars => Books'
<1> SUFFICES ASSUME IInv, Books, [Next]_vars, NEW q \in Requests PROVE Booked(q)'
  BY DEF Books
<1>1. Booked(q) BY DEF Books
<1>2. ASSUME NEW r \in Requests, Step(r) PROVE Booked(q)'
  BY <1>2, StepBooks
<1>3. ASSUME NEW r \in Requests, Arrive(r) PROVE Booked(q)'
  BY <1>1, <1>3 DEF Arrive, Goto, modelVars, Booked, Connected, IInv, TypeOK
<1>4. CASE Crash
  BY <1>4 DEF Crash, Idle, Booked, Connected
<1>5. CASE UNCHANGED vars
  BY <1>1, <1>5 DEF vars, modelVars, threadVars, Booked
<1> QED BY <1>2, <1>3, <1>4, <1>5 DEF Next, Served

\* Whatever way a request takes, the pool gets its connections back.
THEOREM PoolInvariant == Spec => []PoolConserved
<1>1. Init => Books
  BY DEF Init, ModelInit, Books, Booked, Connected, Idle
<1>2. Spec => []Books
  BY <1>1, NextBooks, Invariance, PTL DEF Spec
<1> QED BY <1>2, BooksClose, Invariance, PTL

-----------------------------------------------------------------------------
(* The retried call implements the one-step call.                          *)

Made(r) == IF gateway[r].reply = "pending" THEN 0 ELSE gateway[r].made

\* The last attempt of a call is its return, any other is invisible.
LEMMA CallGatewayReturns ==
  ASSUME IInv, NEW r \in Requests, CallGateway(r)
  PROVE  Gateway!Return(r) \/ UNCHANGED Gateway!vars
<1>1. PICK call \in Attempts(gateway[r], MaxLostReplies) : gateway' = [gateway EXCEPT ![r] = call]
  BY DEF CallGateway
<1>2. GatewayOK(gateway[r]) /\ gateway[r].reply = "pending"
  BY DEF CallGateway, IInv, RequestOK, Early
<1>3. GatewayOK(call) BY <1>2, AttemptOK
<1>4. gateway \in [Requests -> Call] BY DEF IInv, TypeOK
<1>5. CASE call.reply = "pending"
  BY <1>1, <1>2, <1>4, <1>5 DEF Gateway!vars
<1>6. CASE call.reply # "pending"
  <2> DEFINE result == [ok |-> call.reply = "ok", made |-> call.made]
  <2>1. call.reply \in {"ok", "failed"} /\ call.lost \in 0 .. MaxLostReplies
    BY <1>3, <1>6, ThreadAssumption DEF GatewayOK, Call, Replies
  <2>2. result \in Gateway!LiveReplies(MaxLostReplies)
    <3>1. CASE call.reply = "ok"
      <4>1. call.made = 1 + call.lost BY <1>3, <2>1, <3>1 DEF GatewayOK, Call
      <4>2. [ok |-> TRUE, made |-> 1 + call.lost] \in Gateway!LiveReplies(MaxLostReplies)
        BY <2>1 DEF Gateway!LiveReplies
      <4>3. result = [ok |-> TRUE, made |-> 1 + call.lost] BY <3>1, <4>1, Zenon
      <4> QED BY <4>2, <4>3, Zenon
    <3>2. CASE call.reply = "failed"
      <4>1. call.made = call.lost BY <1>3, <3>2 DEF GatewayOK
      <4>2. [ok |-> FALSE, made |-> call.lost] \in Gateway!LiveReplies(MaxLostReplies)
        BY <2>1 DEF Gateway!LiveReplies
      <4>3. (call.reply = "ok") = FALSE BY <3>2
      <4>4. result = [ok |-> FALSE, made |-> call.lost] BY <4>1, <4>3, Zenon
      <4> QED BY <4>2, <4>4, Zenon
    <3> QED BY <2>1, <3>1, <3>2
  <2>3. [q \in Requests |-> Made(q)]' = [[q \in Requests |-> Made(q)] EXCEPT ![r] = result.made]
    BY <1>1, <1>4, <1>6 DEF Made
  <2>4. [q \in Requests |-> gateway[q].reply]'
          = [[q \in Requests |-> gateway[q].reply] EXCEPT ![r] = IF result.ok THEN "ok" ELSE "failed"]
    BY <1>1, <1>4, <2>1
  <2> QED BY <1>2, <2>2, <2>3, <2>4 DEF Gateway!Return, Made
<1> QED BY <1>5, <1>6

\* Every behaviour, with its crashes, lost replies and races, is one in which
\* calls of the payment client are single steps.
THEOREM GatewayImplemented == Spec => GatewaySpec
<1>1. Init => Gateway!Init
  BY DEF Init, Gateway!Init, NewCall
<1>2. IInv /\ [Next]_vars => [Gateway!Next]_Gateway!vars
  <2> SUFFICES ASSUME IInv, [Next]_vars PROVE [Gateway!Next]_Gateway!vars
    OBVIOUS
  <2>1. CASE \E r \in Requests : CallGateway(r)
    BY <2>1, CallGatewayReturns DEF Gateway!Next
  <2>2. CASE UNCHANGED gateway
    BY <2>2 DEF Gateway!vars
  <2> QED
    BY <2>1, <2>2
    DEF Next, Step, Proceed, Served, vars, threadVars, Arrive, Crash,
        Connect, Refuse, Ask, Answered, Act, Commit, Refresh, Close
<1> QED BY <1>1, <1>2, Invariance, PTL DEF Spec, GatewaySpec, Gateway!Spec
=============================================================================
