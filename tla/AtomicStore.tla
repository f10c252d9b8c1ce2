---------------------------- MODULE AtomicStore ----------------------------
(***************************************************************************)
(* What clients of /multi-exec and /pipeline are promised: Redis executes  *)
(* a transaction as one block and at most once, each command of a pipeline *)
(* at most once and in the order of the body, and every request is told    *)
(* one outcome, where "results" means that the transaction was executed.   *)
(***************************************************************************)
EXTENDS Integers, Sequences

CONSTANTS Txs, Pipes, Size

VARIABLES
  executed,   \* the blocks of commands executed, in order
  told        \* per request, the outcome its client was told

Requests == Txs \cup Pipes
Body(t) == [i \in 1 .. Size |-> <<t, i>>]
Blocks == {executed[k] : k \in DOMAIN executed}

Init ==
  /\ executed = <<>>
  /\ told = [r \in Requests |-> "none"]

ExecuteTransaction(t) ==
  /\ Body(t) \notin Blocks
  /\ executed' = Append(executed, Body(t))
  /\ UNCHANGED told

ExecuteCommand(p, i) ==
  /\ \A j \in i .. Size : << <<p, j>> >> \notin Blocks
  /\ executed' = Append(executed, << <<p, i>> >>)
  /\ UNCHANGED told

Tell(r, outcome) ==
  /\ told[r] = "none"
  /\ outcome = "results" /\ r \in Txs => Body(r) \in Blocks
  /\ told' = [told EXCEPT ![r] = outcome]
  /\ UNCHANGED executed

Next ==
  \/ \E t \in Txs : ExecuteTransaction(t)
  \/ \E p \in Pipes, i \in 1 .. Size : ExecuteCommand(p, i)
  \/ \E r \in Requests, outcome \in {"results", "error", "timeout"} : Tell(r, outcome)

Spec == Init /\ [][Next]_<<executed, told>>
=============================================================================
