-------------------------- MODULE SubscriptionPool --------------------------
(***************************************************************************)
(* What the subscription routes promise of their cap, without any of the  *)
(* machinery behind it.  A subscribe request is either refused or given a  *)
(* slot it holds until it is released; at most MaxSubscriptions are held   *)
(* at a time; a well-formed request is refused only when the pool is full  *)
(* or the server has stopped accepting; and once it has stopped, no slot   *)
(* is ever given out again.                                                *)
(***************************************************************************)
EXTENDS Integers, FiniteSets

CONSTANTS Requests, Malformed, MaxSubscriptions

VARIABLES
  status,   \* "new", "refused", "held" or "released", per request
  open      \* is the server accepting subscriptions?

vars == <<status, open>>

Held == {r \in Requests : status[r] = "held"}

TypeOK ==
  /\ status \in [Requests -> {"new", "refused", "held", "released"}]
  /\ open \in BOOLEAN

Init ==
  /\ status = [r \in Requests |-> "new"]
  /\ open = TRUE

Accept(r) ==
  /\ status[r] = "new"
  /\ open
  /\ r \notin Malformed
  /\ Cardinality(Held) < MaxSubscriptions
  /\ status' = [status EXCEPT ![r] = "held"]
  /\ UNCHANGED open

Refuse(r) ==
  /\ status[r] = "new"
  /\ r \in Malformed \/ ~open \/ Cardinality(Held) >= MaxSubscriptions
  /\ status' = [status EXCEPT ![r] = "refused"]
  /\ UNCHANGED open

Release(r) ==
  /\ status[r] = "held"
  /\ status' = [status EXCEPT ![r] = "released"]
  /\ UNCHANGED open

Stop ==
  /\ open
  /\ open' = FALSE
  /\ UNCHANGED status

Next ==
  \/ \E r \in Requests : Accept(r) \/ Refuse(r) \/ Release(r)
  \/ Stop

Spec == Init /\ [][Next]_vars
=============================================================================
