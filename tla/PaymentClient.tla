--------------------------- MODULE PaymentClient ---------------------------
(***************************************************************************)
(* One call of the payment client (app/payments/client.py): requests to    *)
(* the gateway until one succeeds, an error is not worth retrying or the   *)
(* attempts are used up.  A request may take effect at the gateway and     *)
(* error all the same; the call then sees an error like any other.         *)
(***************************************************************************)
EXTENDS Naturals

StopAfterAttempt == 4

Replies == {"pending", "ok", "failed"}

\* made: links or charges created so far; lost: those whose reply was an error.
Call == [attempt : 0 .. StopAfterAttempt, made : Nat, lost : Nat, reply : Replies]

NewCall == [attempt |-> 0, made |-> 0, lost |-> 0, reply |-> "pending"]

\* One more attempt, which made and lost this many objects.
Tried(call, made, lost, reply) ==
  [attempt |-> call.attempt + 1, made |-> call.made + made, lost |-> call.lost + lost,
   reply |-> reply]

Succeeded(call) == {Tried(call, 1, 0, "ok")}

\* The request errored, without effect or after it.
Errored(call, maxLost, reply) ==
  {Tried(call, lost, lost, reply) : lost \in {n \in {0, 1} : call.lost + n <= maxLost}}

\* Slip: once the attempts are used up the last error is forgotten.
AttemptsSwallowed(call, maxLost) ==
  Succeeded(call)
    \cup Errored(call, maxLost, "failed")
    \cup Errored(call, maxLost, IF call.attempt + 1 < StopAfterAttempt THEN "pending" ELSE "ok")

\* An error of the transient kinds is retried, up to the last attempt; any
\* other ends the call as an ExecutionError.
Attempts(call, maxLost) ==
  Succeeded(call)
    \cup Errored(call, maxLost, "failed")
    \cup Errored(call, maxLost, IF call.attempt + 1 < StopAfterAttempt THEN "pending" ELSE "failed")

\* What a caller of the live client can find done when the call returns.
LiveReplies(maxLost) ==
  {[ok |-> TRUE, made |-> 1 + lost] : lost \in 0 .. maxLost}
    \cup {[ok |-> FALSE, made |-> lost] : lost \in 0 .. maxLost}
=============================================================================
