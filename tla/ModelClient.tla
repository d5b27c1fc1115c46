---------------------------- MODULE ModelClient ----------------------------
(***************************************************************************)
(* LLMClient.classify (app/agents/llm.py): an answer from the memory of    *)
(* the process, from the cache table or from the model itself.  The memory *)
(* is shared by all threads and lost with the process, the table is        *)
(* neither.  The cache works in database sessions of its own and must not  *)
(* break a classification: each of its errors counts as a miss.            *)
(***************************************************************************)
EXTENDS ConnectionPool

CONSTANTS
  Prompts,        \* what may be asked: one cache key each
  InitialTables,  \* what the cache table may hold when the service starts
  None

\* A cached answer fits the schema the caller validates it against, or comes
\* from a version of the schema that has changed since.
Cached == {"none", "fits", "stale"}

ASSUME ModelAssumption ==
  /\ InitialTables \subseteq [Prompts -> Cached]
  /\ None \notin Prompts

RateLimitAttempts == 3

VARIABLES
  memory,  \* _MEMORY_CACHE
  table,   \* llmcacheentry
  calls    \* the call each request has under way

modelVars == <<memory, table, calls>>

\* answer: the row in hand while caching, else what the caller gets.
ModelCall == [step : {"idle", "looking", "caching", "posting", "storing", "returned"},
              prompt : Prompts \cup {None},
              attempt : 0 .. RateLimitAttempts,
              answer : Cached \cup {"unavailable", "raised"}]

Idle == [step |-> "idle", prompt |-> None, attempt |-> 0, answer |-> "none"]

ModelInit ==
  /\ memory = [p \in Prompts |-> "none"]
  /\ table \in InitialTables
  /\ calls = [r \in Requests |-> Idle]

Advance(r, call) == calls' = [calls EXCEPT ![r] = call]

Returned(call, answer) ==
  [step |-> "returned", prompt |-> call.prompt, attempt |-> 0, answer |-> answer]

Posting(call) ==
  [step |-> "posting", prompt |-> call.prompt, attempt |-> 1, answer |-> "none"]

Storing(call) ==
  [step |-> "storing", prompt |-> call.prompt, attempt |-> 0, answer |-> "none"]

\* Slip: whatever was cached is the answer.
JudgedUnseen(call, cached) ==
  IF cached = "none" THEN Posting(call) ELSE Returned(call, cached)

\* A cached answer that does not validate is computed again.
Judged(call, cached) ==
  IF cached = "fits" THEN Returned(call, "fits") ELSE Posting(call)

Classify(r, p) ==
  /\ calls[r].step = "idle"
  /\ LET call == [Idle EXCEPT !.prompt = p]
     IN  Advance(r, IF memory[p] = "none" THEN [call EXCEPT !.step = "looking"]
                                          ELSE Judged(call, memory[p]))
  /\ UNCHANGED <<memory, table, holders>>

\* A second connection, while the request's own is out.
Fetch(r) ==
  /\ calls[r].step = "looking"
  /\ Acquire(r, "cache")
  /\ Advance(r, [calls[r] EXCEPT !.step = "caching", !.answer = table[calls[r].prompt]])
  /\ UNCHANGED <<memory, table>>

\* Slip: without a time limit on the wait only a connection lets the call go on.
FetchFailsConnected(r) ==
  /\ calls[r].step = "looking" /\ Free
  /\ Advance(r, Posting(calls[r]))
  /\ UNCHANGED <<memory, table, holders>>

\* The wait for a connection has a limit, and any error is a miss.
FetchFails(r) ==
  /\ calls[r].step = "looking"
  /\ Advance(r, Posting(calls[r]))
  /\ UNCHANGED <<memory, table, holders>>

\* Slip: the absence of a row is remembered too.
CacheAbsence(r) ==
  /\ calls[r].step = "caching"
  /\ memory' = [memory EXCEPT ![calls[r].prompt] = calls[r].answer]
  /\ Release(r, "cache")
  /\ Advance(r, Judged(calls[r], calls[r].answer))
  /\ UNCHANGED table

\* The row enters the memory before anybody validates it.
Cache(r) ==
  /\ calls[r].step = "caching"
  /\ memory' = IF calls[r].answer = "none" THEN memory
               ELSE [memory EXCEPT ![calls[r].prompt] = calls[r].answer]
  /\ Release(r, "cache")
  /\ Advance(r, Judged(calls[r], calls[r].answer))
  /\ UNCHANGED table

\* The model answered and the answer validates.
Reply(r) ==
  /\ calls[r].step = "posting"
  /\ memory' = [memory EXCEPT ![calls[r].prompt] = "fits"]
  /\ Advance(r, Storing(calls[r]))
  /\ UNCHANGED <<table, holders>>

\* Slip: one attempt too many.
RateLimitedOnceMore(r) ==
  /\ calls[r].step = "posting"
  /\ Advance(r, IF calls[r].attempt <= RateLimitAttempts
                THEN [calls[r] EXCEPT !.attempt = @ + 1]
                ELSE Returned(calls[r], "unavailable"))
  /\ UNCHANGED <<memory, table, holders>>

\* Status 429: wait and try again, at most RateLimitAttempts times in all.
RateLimited(r) ==
  /\ calls[r].step = "posting"
  /\ Advance(r, IF calls[r].attempt < RateLimitAttempts
                THEN [calls[r] EXCEPT !.attempt = @ + 1]
                ELSE Returned(calls[r], "unavailable"))
  /\ UNCHANGED <<memory, table, holders>>

\* LLMTimedOut or LLMError: no connection or no answer in time, another
\* status, an answer that is no JSON or does not validate.
Unanswered(r) ==
  /\ calls[r].step = "posting"
  /\ Advance(r, Returned(calls[r], "unavailable"))
  /\ UNCHANGED <<memory, table, holders>>

\* An exception of another kind, which no caller expects: the connection broke
\* while the answer was read, or the message has no content.
Escapes(r) ==
  /\ calls[r].step = "posting"
  /\ Advance(r, Returned(calls[r], "raised"))
  /\ UNCHANGED <<memory, table, holders>>

\* Written through to the table, if there is a connection and nothing fails.
Store(r) ==
  /\ calls[r].step = "storing"
  /\ \/ Free /\ table' = [table EXCEPT ![calls[r].prompt] = "fits"]
     \/ UNCHANGED table
  /\ Advance(r, Returned(calls[r], "fits"))
  /\ UNCHANGED <<memory, holders>>

ModelStep(r) ==
  \/ Fetch(r) \/ FetchFails(r) \/ Cache(r)
  \/ Reply(r) \/ RateLimited(r) \/ Unanswered(r) \/ Escapes(r)
  \/ Store(r)
=============================================================================
