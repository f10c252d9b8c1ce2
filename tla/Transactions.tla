---------------------------- MODULE Transactions ----------------------------
(***************************************************************************)
(* POST /multi-exec beside POST /pipeline (and single commands, which are  *)
(* pipelines of one).  A transaction runs MULTI, its commands and EXEC one *)
(* round trip at a time over a connection of its own; a pipeline writes    *)
(* all its commands at once to the connection every request shares.  Redis *)
(* keeps its MULTI state per connection, answers late or never, and may    *)
(* still execute what was written to a connection the server has closed.   *)
(***************************************************************************)
EXTENDS Integers, SequencesExt, Filters

CONSTANTS
  Txs,      \* requests to /multi-exec
  Pipes,    \* requests to /pipeline
  Shared,   \* the shared connection
  Size      \* commands per request

ASSUME RequestsAssumption == Txs \cap Pipes = {} /\ Shared \notin Txs \cup Pipes
ASSUME SizeAssumption == Size \in Nat \ {0}

Requests == Txs \cup Pipes
Conns == Txs \cup {Shared}

\* The round trips of a transaction: MULTI, the commands, EXEC.
MultiStep == 0
ExecStep == Size + 1
Steps == MultiStep .. ExecStep
Commands == 1 .. Size

VARIABLES
  pc,       \* "new", "connecting", "waiting" (on Redis) or "done"
  at,       \* the round trip a transaction awaits
  reply,    \* per request and step: how its promise settled
  answer,   \* what the client was told
  conn,     \* "none", "opening", "up" or "down"
  wire,     \* per connection: commands written and not yet executed
  inbox,    \* per connection: replies on their way back
  multi,    \* Redis, per connection: "no", "open", or "dirty" (EXEC will abort)
  queued,   \* Redis, per connection: the commands queued since MULTI
  log       \* what Redis executed: a sequence of atomic blocks of commands

handlers == <<pc, at, answer>>
redis == <<multi, queued, log>>
vars == <<handlers, reply, conn, wire, inbox, redis>>

Calls == Requests \X Steps

TypeOK ==
  /\ pc \in [Requests -> {"new", "connecting", "waiting", "done"}]
  /\ at \in [Requests -> Steps]
  /\ reply \in [Requests -> [Steps -> {"none", "ok", "error", "invalid"}]]
  /\ answer \in [Requests -> {"none", "results", "error", "timeout"}]
  /\ conn \in [Conns -> {"none", "opening", "up", "down"}]
  /\ wire \in [Conns -> Seq(Calls)]
  /\ inbox \in [Conns -> Seq(Calls \X BOOLEAN)]
  /\ multi \in [Conns -> {"no", "open", "dirty"}]
  /\ queued \in [Conns -> Seq(Calls)]
  /\ log \in Seq(Seq(Calls))

Init ==
  /\ pc = [r \in Requests |-> "new"]
  /\ at = [r \in Requests |-> MultiStep]
  /\ reply = [r \in Requests |-> [s \in Steps |-> "none"]]
  /\ answer = [r \in Requests |-> "none"]
  /\ conn = [c \in Conns |-> IF c = Shared THEN "up" ELSE "none"]
  /\ wire = [c \in Conns |-> <<>>]
  /\ inbox = [c \in Conns |-> <<>>]
  /\ multi = [c \in Conns |-> "no"]
  /\ queued = [c \in Conns |-> <<>>]
  /\ log = <<>>

-----------------------------------------------------------------------------
(* Helpers *)

\* The commands of a request's body, in their order.
Body(r) == [i \in Commands |-> <<r, i>>]

\* The connection a request's commands are written to.
ConnOf(r) == IF r \in Txs THEN r ELSE Shared

\* MUTANT of Write: EXEC follows the last command without waiting for QUEUED.
WritePipelined(t, s, open) ==
  /\ at' = [at EXCEPT ![t] = s]
  /\ IF open
       THEN /\ wire' = [wire EXCEPT ![ConnOf(t)] =
                 @ \o IF s = Size THEN << <<t, s>>, <<t, ExecStep>> >> ELSE << <<t, s>> >>]
            /\ UNCHANGED reply
       ELSE /\ reply' = [reply EXCEPT ![t][s] = "error"]
            /\ UNCHANGED wire

\* tx.send(step s), to be awaited.  There is no offline queue: on a connection
\* that is not open it is rejected at once.
Write(t, s, open) ==
  /\ at' = [at EXCEPT ![t] = s]
  /\ IF open
       THEN wire' = [wire EXCEPT ![ConnOf(t)] = Append(@, <<t, s>>)] /\ UNCHANGED reply
       ELSE reply' = [reply EXCEPT ![t][s] = "error"] /\ UNCHANGED wire

\* The response goes out unless the request timeout has answered already.
Respond(r, a) ==
  /\ pc' = [pc EXCEPT ![r] = "done"]
  /\ answer' = [answer EXCEPT ![r] = IF @ = "none" THEN a ELSE @]

\* The response, and the finally block that closes the connection.
Finish(t, a) ==
  /\ Respond(t, a)
  /\ conn' = [conn EXCEPT ![ConnOf(t)] = "down"]

Waiting(r) == pc[r] = "waiting"

-----------------------------------------------------------------------------
(* POST /multi-exec *)

\* A body that is malformed, too long, or holds a blocked command.
Reject(t) ==
  /\ pc[t] = "new"
  /\ Respond(t, "error")
  /\ UNCHANGED <<at, reply, conn, wire, inbox, redis>>

Connect(t) ==
  /\ pc[t] = "new"
  /\ pc' = [pc EXCEPT ![t] = "connecting"]
  /\ conn' = [conn EXCEPT ![ConnOf(t)] = "opening"]
  /\ UNCHANGED <<at, reply, answer, wire, inbox, redis>>

\* createDedicatedConnection throws: the error handler answers.
ConnectFails(t) ==
  /\ pc[t] = "connecting"
  /\ Finish(t, "error")
  /\ UNCHANGED <<at, reply, wire, inbox, redis>>

Connected(t) ==
  /\ pc[t] = "connecting"
  /\ pc' = [pc EXCEPT ![t] = "waiting"]
  /\ conn' = [conn EXCEPT ![ConnOf(t)] = "up"]
  /\ Write(t, MultiStep, TRUE)
  /\ UNCHANGED <<answer, inbox, redis>>

\* MUTANT of Proceed: the loop does not stop at EXEC.
ProceedPastExec(t) ==
  /\ Waiting(t)
  /\ reply[t][at[t]] = "ok"
  /\ Write(t, at[t] + 1, conn[ConnOf(t)] = "up")
  /\ UNCHANGED <<pc, answer, conn, inbox, redis>>

\* An awaited round trip succeeds, and the next one starts.
Proceed(t) ==
  /\ Waiting(t) /\ at[t] < ExecStep
  /\ reply[t][at[t]] = "ok"
  /\ Write(t, at[t] + 1, conn[ConnOf(t)] = "up")
  /\ UNCHANGED <<pc, answer, conn, inbox, redis>>

\* MUTANT of Complete: the QUEUED replies are taken for the results.
CompleteEarly(t) ==
  /\ Waiting(t) /\ at[t] >= Size
  /\ reply[t][at[t]] = "ok"
  /\ Finish(t, "results")
  /\ UNCHANGED <<at, reply, wire, inbox, redis>>

\* EXEC returns its array of results.
Complete(t) ==
  /\ Waiting(t) /\ at[t] = ExecStep
  /\ reply[t][ExecStep] = "ok"
  /\ Finish(t, "results")
  /\ UNCHANGED <<at, reply, wire, inbox, redis>>

\* An awaited round trip is rejected by Redis or by the loss of the connection.
StepFails(t) ==
  /\ Waiting(t)
  /\ reply[t][at[t]] = "error"
  /\ Finish(t, "error")
  /\ UNCHANGED <<at, reply, wire, inbox, redis>>

\* MUTANT of StepTimesOut: only MULTI is bounded by withTimeout.
StepTimesOutAtMulti(t) ==
  /\ Waiting(t) /\ at[t] = MultiStep
  /\ reply[t][at[t]] = "none"
  /\ Finish(t, "error")
  /\ UNCHANGED <<at, reply, wire, inbox, redis>>

\* COMMAND_TIMEOUT_MS passes without a reply.
StepTimesOut(t) ==
  /\ Waiting(t)
  /\ reply[t][at[t]] = "none"
  /\ Finish(t, "error")
  /\ UNCHANGED <<at, reply, wire, inbox, redis>>

-----------------------------------------------------------------------------
(* POST /pipeline *)

\* MUTANT of Submit: entries that fail validation are sent as well.
SubmitAll(p, invalid) ==
  /\ pc[p] = "new"
  /\ pc' = [pc EXCEPT ![p] = "waiting"]
  /\ reply' = [reply EXCEPT ![p] = [s \in Steps |-> IF s \in invalid THEN "invalid" ELSE "none"]]
  /\ wire' = [wire EXCEPT ![Shared] = @ \o Body(p)]
  /\ UNCHANGED <<at, answer, conn, inbox, redis>>

\* All commands are sent at once; an entry that fails validation is rejected
\* on the spot and takes no part.
Submit(p, invalid) ==
  /\ pc[p] = "new"
  /\ pc' = [pc EXCEPT ![p] = "waiting"]
  /\ reply' = [reply EXCEPT ![p] = [s \in Steps |-> IF s \in invalid THEN "invalid" ELSE "none"]]
  /\ wire' = [wire EXCEPT ![Shared] =
                @ \o Keep(Body(p), {p} \X (Commands \ invalid))]
  /\ UNCHANGED <<at, answer, conn, inbox, redis>>

\* allSettled: every entry has its result or its error.
Settle(p) ==
  /\ Waiting(p)
  /\ \A i \in Commands : reply[p][i] # "none"
  /\ Respond(p, "results")
  /\ UNCHANGED <<at, reply, conn, wire, inbox, redis>>

-----------------------------------------------------------------------------
(* The request timeout *)

\* MUTANT of RequestTimesOut: only an established transaction is timed.
RequestTimesOutOnceWaiting(r) ==
  /\ pc[r] = "waiting" /\ r \in Txs /\ answer[r] = "none"
  /\ answer' = [answer EXCEPT ![r] = "timeout"]
  /\ UNCHANGED <<pc, at, reply, conn, wire, inbox, redis>>

\* 504: the client is answered, and the handler goes on.
RequestTimesOut(r) ==
  /\ pc[r] \in {"connecting", "waiting"} /\ answer[r] = "none"
  /\ answer' = [answer EXCEPT ![r] = "timeout"]
  /\ UNCHANGED <<pc, at, reply, conn, wire, inbox, redis>>

-----------------------------------------------------------------------------
(* The connections *)

\* A reply arrives and settles its promise.
Deliver(c) ==
  /\ conn[c] = "up" /\ inbox[c] # <<>>
  /\ LET call == Head(inbox[c])[1]
         ok == Head(inbox[c])[2]
     IN  reply' = [reply EXCEPT ![call[1]][call[2]] = IF ok THEN "ok" ELSE "error"]
  /\ inbox' = [inbox EXCEPT ![c] = Tail(@)]
  /\ UNCHANGED <<handlers, conn, wire, redis>>

\* The steps of r that are awaited on connection c.
Pending(c, r) ==
  {s \in Steps : /\ ConnOf(r) = c /\ Waiting(r) /\ reply[r][s] = "none"
                 /\ s = at[r] \/ (r \in Pipes /\ s \in Commands)}

\* The client rejects whatever is awaited on connection c.
RejectPending(c) ==
  reply' = [r \in Requests |->
              [s \in Steps |-> IF s \in Pending(c, r) THEN "error" ELSE reply[r][s]]]

\* MUTANT of Drop: a dedicated connection reconnects on its own.
DropReconnecting(c) ==
  /\ conn[c] = "up"
  /\ RejectPending(c)
  /\ inbox' = [inbox EXCEPT ![c] = <<>>]
  /\ wire' = [wire EXCEPT ![c] = <<>>]
  /\ multi' = [multi EXCEPT ![c] = "no"]
  /\ queued' = [queued EXCEPT ![c] = <<>>]
  /\ UNCHANGED <<handlers, conn, log>>

\* The connection is lost: a dedicated one for good, while what was written to
\* it may still be executed; the shared one until it reconnects.
Drop(c) ==
  /\ conn[c] = "up"
  /\ conn' = [conn EXCEPT ![c] = "down"]
  /\ RejectPending(c)
  /\ inbox' = [inbox EXCEPT ![c] = <<>>]
  /\ IF c = Shared
       THEN /\ wire' = [wire EXCEPT ![c] = <<>>]
            /\ multi' = [multi EXCEPT ![c] = "no"]
            /\ queued' = [queued EXCEPT ![c] = <<>>]
       ELSE UNCHANGED <<wire, multi, queued>>
  /\ UNCHANGED <<handlers, log>>

\* The shared client reconnects, and its offline queue is sent.
Reconnect ==
  /\ conn[Shared] = "down"
  /\ conn' = [conn EXCEPT ![Shared] = "up"]
  /\ UNCHANGED <<handlers, reply, wire, inbox, redis>>

\* The shared client gives up a round of retries and rejects its offline queue.
RetriesExhausted ==
  /\ conn[Shared] = "down" /\ wire[Shared] # <<>>
  /\ RejectPending(Shared)
  /\ wire' = [wire EXCEPT ![Shared] = <<>>]
  /\ UNCHANGED <<handlers, conn, inbox, redis>>

-----------------------------------------------------------------------------
(* Redis *)

RedisMulti(c) ==
  /\ multi[c] = "no"
  /\ multi' = [multi EXCEPT ![c] = "open"]
  /\ queued' = [queued EXCEPT ![c] = <<>>]
  /\ UNCHANGED log

\* Within MULTI a command is queued, or rejected and EXEC will abort.
RedisQueues(c, call, ok) ==
  /\ multi[c] # "no"
  /\ IF ok THEN queued' = [queued EXCEPT ![c] = Append(@, call)] /\ UNCHANGED multi
           ELSE multi' = [multi EXCEPT ![c] = "dirty"] /\ UNCHANGED queued
  /\ UNCHANGED log

\* Outside MULTI it is executed, whether it returns a result or an error.
RedisRuns(c, call) ==
  /\ multi[c] = "no"
  /\ log' = Append(log, <<call>>)
  /\ UNCHANGED <<multi, queued>>

\* EXEC runs the queue as one block, or discards it.
RedisExec(c, ok) ==
  /\ ok = (multi[c] = "open")
  /\ log' = IF ok THEN Append(log, queued[c]) ELSE log
  /\ multi' = [multi EXCEPT ![c] = "no"]
  /\ queued' = [queued EXCEPT ![c] = <<>>]

\* Redis executes the next call of connection c and sends the reply.
Redis(c) ==
  /\ wire[c] # <<>> /\ (c = Shared => conn[c] = "up")
  /\ \E ok \in BOOLEAN :
       LET call == Head(wire[c]) IN
       /\ CASE call[1] \in Txs /\ call[2] = MultiStep -> ok /\ RedisMulti(c)
            [] call[1] \in Txs /\ call[2] = ExecStep -> RedisExec(c, ok)
            [] OTHER -> RedisQueues(c, call, ok) \/ RedisRuns(c, call)
       /\ inbox' = [inbox EXCEPT ![c] = IF conn[c] = "up" THEN Append(@, <<call, ok>>) ELSE @]
  /\ wire' = [wire EXCEPT ![c] = Tail(@)]
  /\ UNCHANGED <<handlers, reply, conn>>

\* Redis notices that a dedicated connection is gone.
Forget(t) ==
  /\ conn[t] = "down" /\ <<wire[t], multi[t]>> # <<<<>>, "no">>
  /\ wire' = [wire EXCEPT ![t] = <<>>]
  /\ multi' = [multi EXCEPT ![t] = "no"]
  /\ queued' = [queued EXCEPT ![t] = <<>>]
  /\ inbox' = [inbox EXCEPT ![t] = <<>>]
  /\ UNCHANGED <<handlers, reply, conn, log>>

-----------------------------------------------------------------------------

Transaction(t) ==
  \/ Reject(t) \/ Connect(t) \/ ConnectFails(t) \/ Connected(t)
  \/ Proceed(t) \/ Complete(t) \/ StepFails(t) \/ StepTimesOut(t)

Pipeline(p) ==
  \/ \E invalid \in SUBSET Commands : Submit(p, invalid)
  \/ Settle(p)

Next ==
  \/ \E t \in Txs : Transaction(t) \/ Forget(t)
  \/ \E p \in Pipes : Pipeline(p)
  \/ \E r \in Requests : RequestTimesOut(r)
  \/ \E c \in Conns : Deliver(c) \/ Drop(c) \/ Redis(c)
  \/ Reconnect \/ RetriesExhausted

Spec == Init /\ [][Next]_vars

\* The server's timers fire and its settled promises resume; nothing is
\* assumed of Redis or of the network.
Timers ==
  /\ \A t \in Txs : /\ WF_vars(ConnectFails(t))
                    /\ WF_vars(Proceed(t) \/ Complete(t) \/ StepFails(t))
                    /\ WF_vars(StepTimesOut(t))
  /\ \A r \in Requests : WF_vars(RequestTimesOut(r))

LiveSpec == Spec /\ Timers

-----------------------------------------------------------------------------
(* Properties *)

\* "Dedicated connection per transaction to prevent command interleaving"
\* (multi-exec.ts:73): what Redis executes is, block by block, either exactly
\* one transaction's commands in their order or a single plain command.
Isolated ==
  \A k \in DOMAIN log :
    \/ \E t \in Txs : log[k] = Body(t)
    \/ \E p \in Pipes, i \in Commands : log[k] = << <<p, i>> >>

\* The service keeps AtomicStore's promise: nothing is executed twice, not
\* even after a timeout, a lost reply or a reconnect, a pipeline's commands
\* run in the order of its body, a client is told one outcome, and "results"
\* of a transaction only if it was executed.
Store == INSTANCE AtomicStore WITH executed <- log, told <- answer

Atomic == Store!Spec

Runs(call) == {k \in DOMAIN log : Contains(log[k], call)}

\* A transaction that fails before its EXEC was sent is never executed, also
\* when Redis handles what was written only after the connection was closed.
FailedEarlyNeverRuns ==
  \A t \in Txs : pc[t] = "done" /\ at[t] < ExecStep => Runs(<<t, 1>>) = {}

\* Each entry of a pipeline's response is that entry's own: an entry that was
\* rejected was not executed, one that has a result was.  That a value is in the
\* right entry is RequestPath's Faithful: replies here are their commands' own.
EntriesMatch ==
  \A p \in Pipes, i \in Commands :
    /\ reply[p][i] = "invalid" => Runs(<<p, i>>) = {}
    /\ reply[p][i] = "ok" => Runs(<<p, i>>) # {}

\* A stalled Redis cannot park a transaction's handler (multi-exec.ts:9-13).
TransactionsFinish == \A t \in Txs : pc[t] # "new" ~> pc[t] = "done"

\* With a request timeout every client is answered, although a pipeline on a
\* stalled connection has no timer of its own.
EveryRequestAnswered == \A r \in Requests : pc[r] # "new" ~> answer[r] # "none"
=============================================================================
