---------------------------- MODULE GatewayCall ----------------------------
(***************************************************************************)
(* What callers may rely on when they call the payment client: one step,   *)
(* from which a caller learns whether its call succeeded, with at least    *)
(* one object made if it did, and no more than the lost replies besides.   *)
(***************************************************************************)
EXTENDS PaymentClient

CONSTANTS Callers, MaxLostReplies

VARIABLES
  made,   \* objects each caller's finished call has made
  reply   \* how it ended

vars == <<made, reply>>

Init ==
  /\ made = [r \in Callers |-> 0]
  /\ reply = [r \in Callers |-> "pending"]

Return(r) ==
  /\ reply[r] = "pending"
  /\ \E result \in LiveReplies(MaxLostReplies) :
       /\ made' = [made EXCEPT ![r] = result.made]
       /\ reply' = [reply EXCEPT ![r] = IF result.ok THEN "ok" ELSE "failed"]

Next == \E r \in Callers : Return(r)

Spec == Init /\ [][Next]_vars
=============================================================================
