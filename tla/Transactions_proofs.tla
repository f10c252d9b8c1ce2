------------------------- MODULE Transactions_proofs -------------------------
(***************************************************************************)
(* Proofs about Transactions, for any number of transactions, pipelines    *)
(* and commands: the types, that blocks are whole, that an early failure   *)
(* is never executed, that a pipeline's entries match, and that AtomicStore*)
(* is implemented.  A transaction's state is proved step by step against   *)
(* what Redis holds on its connection; the pipelines share one connection, *)
(* whose order is proved for all of them at once.                          *)
(***************************************************************************)
EXTENDS Transactions, SequenceLemmas

USE RequestsAssumption, SizeAssumption

-----------------------------------------------------------------------------
(* Types *)

\* The sets the types are built from.
LEMMA Sets ==
  /\ Txs \subseteq Requests /\ Pipes \subseteq Requests /\ Requests \subseteq Txs \cup Pipes
  /\ Txs \subseteq Conns /\ Shared \in Conns /\ \A t \in Txs : t # Shared /\ t \notin Pipes
  /\ \A c \in Conns : c \in Txs \/ c = Shared
  /\ \A r \in Requests : ConnOf(r) \in Conns
  /\ \A t \in Txs : ConnOf(t) = t
  /\ \A p \in Pipes : ConnOf(p) = Shared
  /\ MultiStep \in Steps /\ ExecStep \in Steps /\ Steps \subseteq Int /\ Commands \subseteq Steps
  /\ \A s \in Steps : (s < ExecStep => s + 1 \in Steps) /\ 0 <= s /\ s <= ExecStep
BY DEF Requests, Conns, ConnOf, MultiStep, ExecStep, Steps, Commands

\* The commands of a request, in order, are a sequence of calls.
LEMMA BodyIsSeq ==
  ASSUME NEW r \in Requests
  PROVE  /\ Body(r) \in Seq({r} \X Commands) /\ Body(r) \in Seq(Calls)
         /\ Len(Body(r)) = Size /\ \A i \in Commands : Body(r)[i] = <<r, i>>
<1>1. Commands \subseteq Steps
  BY Sets
<1>2. \A i \in Commands : <<r, i>> \in {r} \X Commands /\ <<r, i>> \in Calls
  BY <1>1 DEF Calls
<1> QED
  BY <1>2 DEF Body, Commands

\* The commands a pipeline sends are calls, too.
LEMMA SubmittedIsSeq ==
  ASSUME NEW p \in Pipes, NEW invalid
  PROVE  /\ Keep(Body(p), {p} \X (Commands \ invalid)) \in Seq(Calls)
         /\ Keep(Body(p), {p} \X (Commands \ invalid)) \in Seq({p} \X (Commands \ invalid))
         /\ InOrder(Keep(Body(p), {p} \X (Commands \ invalid)), Body(p))
<1> DEFINE S == {p} \X (Commands \ invalid)
           T == {p} \X Commands
           k == Keep(Body(p), S)
<1>1. Body(p) \in Seq(T)
  BY BodyIsSeq, Sets
<1>2. k \in Seq(T \cap S) /\ InOrder(k, Body(p))
  BY <1>1, KeepProperties
<1>3. T \cap S \subseteq S /\ T \cap S \subseteq Calls
  BY Sets DEF Calls
<1>4. k \in Seq(S) /\ k \in Seq(Calls)
  <2> HIDE DEF S, T, k
  <2> QED
    BY <1>2, <1>3, SeqMonotonic
<1> QED
  BY <1>2, <1>4

-----------------------------------------------------------------------------
\* A step that is sent, or rejected on a connection that is not open.
LEMMA Writes ==
  ASSUME TypeOK, NEW t \in Txs, NEW s \in Steps, NEW open \in BOOLEAN, Write(t, s, open)
  PROVE  /\ at' \in [Requests -> Steps] /\ at' = [at EXCEPT ![t] = s]
         /\ reply' \in [Requests -> [Steps -> {"none", "ok", "error", "invalid"}]]
         /\ wire' \in [Conns -> Seq(Calls)]
         /\ open => wire' = [wire EXCEPT ![t] = Append(@, <<t, s>>)] /\ reply' = reply
         /\ ~open => reply' = [reply EXCEPT ![t][s] = "error"] /\ wire' = wire
<1>1. at' \in [Requests -> Steps] /\ at' = [at EXCEPT ![t] = s]
  BY Sets DEF TypeOK, Write
<1>2. Append(wire[t], <<t, s>>) \in Seq(Calls)
  <2>1. <<t, s>> \in Calls /\ wire[t] \in Seq(Calls)
    BY Sets DEF Calls, TypeOK
  <2> QED
    BY <2>1
<1>3. CASE open
  <2>1. wire' = [wire EXCEPT ![t] = Append(@, <<t, s>>)] /\ reply' = reply
    BY <1>3, Sets DEF Write
  <2>2. wire' \in [Conns -> Seq(Calls)]
    BY <1>2, <2>1, Sets DEF TypeOK
  <2> QED
    BY <1>1, <1>3, <2>1, <2>2 DEF TypeOK
<1>4. CASE ~open
  <2>1. reply' = [reply EXCEPT ![t][s] = "error"] /\ wire' = wire
    BY <1>4 DEF Write
  <2>2. reply' \in [Requests -> [Steps -> {"none", "ok", "error", "invalid"}]]
    BY <2>1, Sets DEF TypeOK
  <2> QED
    BY <1>1, <1>4, <2>1, <2>2 DEF TypeOK
<1> QED
  BY <1>3, <1>4

\* Each action of a handler, of the client and of Redis keeps the types.
LEMMA TypeStep == TypeOK /\ [Next]_vars => TypeOK'
<1> SUFFICES ASSUME TypeOK, [Next]_vars PROVE TypeOK'
  OBVIOUS
<1> USE Sets DEF TypeOK, handlers, redis
<1>1. ASSUME NEW t \in Txs, Transaction(t) PROVE TypeOK'
  <2> USE DEF Respond, Finish, Waiting
  <2>1. CASE Reject(t)
    BY <2>1 DEF Reject
  <2>2. CASE Connect(t)
    BY <2>2 DEF Connect
  <2>3. CASE ConnectFails(t)
    BY <2>3 DEF ConnectFails
  <2>5. CASE Connected(t)
    <3>1. pc' \in [Requests -> {"new", "connecting", "waiting", "done"}]
          /\ conn' \in [Conns -> {"none", "opening", "up", "down"}]
      BY <2>5 DEF Connected
    <3>2. Write(t, MultiStep, TRUE)
      BY <2>5 DEF Connected
    <3> QED
      BY <2>5, <3>1, <3>2, Writes DEF Connected
  <2>6. CASE Proceed(t)
    <3>1. at[t] + 1 \in Steps
      BY <2>6 DEF Proceed
    <3>2. Write(t, at[t] + 1, conn[t] = "up")
      BY <2>6 DEF Proceed
    <3> QED
      BY <2>6, <3>1, <3>2, Writes DEF Proceed
  <2>7. CASE Complete(t) \/ StepFails(t) \/ StepTimesOut(t)
    <3>1. PICK a \in {"results", "error"} : Finish(t, a)
      BY <2>7 DEF Complete, StepFails, StepTimesOut
    <3>2. pc' \in [Requests -> {"new", "connecting", "waiting", "done"}]
          /\ answer' \in [Requests -> {"none", "results", "error", "timeout"}]
          /\ conn' \in [Conns -> {"none", "opening", "up", "down"}]
      BY <3>1
    <3>3. UNCHANGED <<at, reply, wire, inbox, redis>>
      BY <2>7 DEF Complete, StepFails, StepTimesOut
    <3> QED
      BY <3>2, <3>3
  <2> QED
    BY <1>1, <2>1, <2>2, <2>3, <2>5, <2>6, <2>7 DEF Transaction
<1>2. ASSUME NEW t \in Txs, Forget(t) PROVE TypeOK'
  BY <1>2, EmptyIsSeq DEF Forget
<1>3. ASSUME NEW p \in Pipes, Pipeline(p) PROVE TypeOK'
  <2>1. ASSUME NEW invalid \in SUBSET Commands, Submit(p, invalid) PROVE TypeOK'
    <3> DEFINE sent == Keep(Body(p), {p} \X (Commands \ invalid))
    <3>1. wire[Shared] \o sent \in Seq(Calls)
      <4>1. sent \in Seq(Calls) /\ wire[Shared] \in Seq(Calls)
        BY SubmittedIsSeq
      <4> HIDE DEF sent
      <4> QED
        BY <4>1
    <3> HIDE DEF sent
    <3> QED
      BY <2>1, <3>1 DEF Submit, sent
  <2>2. CASE Settle(p)
    BY <2>2 DEF Settle, Respond
  <2> QED
    BY <1>3, <2>1, <2>2 DEF Pipeline
<1>4. ASSUME NEW r \in Requests, RequestTimesOut(r) PROVE TypeOK'
  BY <1>4 DEF RequestTimesOut
<1>5. ASSUME NEW c \in Conns, Deliver(c) PROVE TypeOK'
  <2>1. /\ Head(inbox[c]) \in Calls \X BOOLEAN
        /\ Tail(inbox[c]) \in Seq(Calls \X BOOLEAN)
    BY <1>5, Shifted DEF Deliver
  <2>2. Head(inbox[c])[1][1] \in Requests /\ Head(inbox[c])[1][2] \in Steps
    BY <2>1 DEF Calls
  <2> QED
    BY <1>5, <2>1, <2>2 DEF Deliver
<1>6. ASSUME NEW c \in Conns, RejectPending(c)
      PROVE  reply' \in [Requests -> [Steps -> {"none", "ok", "error", "invalid"}]]
  BY <1>6 DEF RejectPending
<1>7. ASSUME NEW c \in Conns, Drop(c) PROVE TypeOK'
  <2>1. conn' \in [Conns -> {"none", "opening", "up", "down"}]
        /\ inbox' \in [Conns -> Seq(Calls \X BOOLEAN)]
    BY <1>7, EmptyIsSeq DEF Drop
  <2>2. CASE c = Shared
    <3>1. /\ wire' = [wire EXCEPT ![c] = <<>>] /\ queued' = [queued EXCEPT ![c] = <<>>]
          /\ multi' = [multi EXCEPT ![c] = "no"]
      BY <1>7, <2>2 DEF Drop
    <3>2. wire' \in [Conns -> Seq(Calls)] /\ queued' \in [Conns -> Seq(Calls)]
      BY <3>1, EmptyIsSeq
    <3>3. UNCHANGED <<pc, at, answer, log>>
      BY <1>7 DEF Drop
    <3> QED
      BY <1>6, <1>7, <2>1, <3>1, <3>2, <3>3 DEF Drop
  <2>3. CASE c # Shared
    <3>1. UNCHANGED <<pc, at, answer, log, wire, multi, queued>>
      BY <1>7, <2>3 DEF Drop
    <3> QED
      BY <1>6, <1>7, <2>1, <3>1 DEF Drop
  <2> QED
    BY <2>2, <2>3
<1>8. ASSUME NEW c \in Conns, Redis(c) PROVE TypeOK'
  <2> DEFINE call == Head(wire[c])
  <2>1. /\ call \in Calls /\ Tail(wire[c]) \in Seq(Calls)
        /\ Append(queued[c], call) \in Seq(Calls)
        /\ \A ok \in BOOLEAN : Append(inbox[c], <<call, ok>>) \in Seq(Calls \X BOOLEAN)
        /\ Append(log, <<call>>) \in Seq(Seq(Calls)) /\ Append(log, queued[c]) \in Seq(Seq(Calls))
    <3>1. call \in Calls /\ Tail(wire[c]) \in Seq(Calls)
      BY <1>8, Shifted DEF Redis
    <3>2. <<call>> \in Seq(Calls)
      BY <3>1
    <3> HIDE DEF call
    <3> QED
      BY <3>1, <3>2
  <2> HIDE DEF call
  <2>2. wire' = [wire EXCEPT ![c] = Tail(@)] /\ UNCHANGED <<handlers, reply, conn>>
    BY <1>8 DEF Redis
  <2>3. PICK ok \in BOOLEAN :
          /\ CASE call[1] \in Txs /\ call[2] = MultiStep -> ok /\ RedisMulti(c)
               [] call[1] \in Txs /\ call[2] = ExecStep -> RedisExec(c, ok)
               [] OTHER -> RedisQueues(c, call, ok) \/ RedisRuns(c, call)
          /\ inbox' = [inbox EXCEPT ![c] = IF conn[c] = "up" THEN Append(@, <<call, ok>>) ELSE @]
    BY <1>8 DEF Redis, call
  <2>4. multi' \in [Conns -> {"no", "open", "dirty"}] /\ queued' \in [Conns -> Seq(Calls)]
        /\ log' \in Seq(Seq(Calls))
    <3>1. CASE RedisMulti(c)
      BY <3>1, EmptyIsSeq DEF RedisMulti
    <3>2. CASE RedisExec(c, ok)
      BY <2>1, <3>2, EmptyIsSeq DEF RedisExec
    <3>3. CASE RedisQueues(c, call, ok)
      <4>1. CASE ok
        <5>1. /\ queued' = [queued EXCEPT ![c] = Append(@, call)]
              /\ UNCHANGED multi /\ UNCHANGED log
          BY <3>3, <4>1 DEF RedisQueues
        <5>2. queued' \in [Conns -> Seq(Calls)]
          BY <2>1, <5>1
        <5> QED
          BY <5>1, <5>2
      <4>2. CASE ~ok
        BY <3>3, <4>2 DEF RedisQueues
      <4> QED
        BY <4>1, <4>2
    <3>4. CASE RedisRuns(c, call)
      BY <2>1, <3>4 DEF RedisRuns
    <3> QED
      BY <2>3, <3>1, <3>2, <3>3, <3>4
  <2>5. inbox' \in [Conns -> Seq(Calls \X BOOLEAN)]
    BY <2>1, <2>3
  <2> QED
    BY <2>1, <2>2, <2>4, <2>5
<1>9. CASE Reconnect \/ RetriesExhausted
  <2>1. CASE Reconnect
    BY <2>1 DEF Reconnect
  <2>2. CASE RetriesExhausted
    <3>1. wire' \in [Conns -> Seq(Calls)]
      BY <2>2, EmptyIsSeq DEF RetriesExhausted
    <3> QED
      BY <1>6, <2>2, <3>1 DEF RetriesExhausted
  <2> QED
    BY <1>9, <2>1, <2>2
<1>10. CASE UNCHANGED vars
  BY <1>10 DEF vars
<1> QED
  BY <1>1, <1>2, <1>3, <1>4, <1>5, <1>7, <1>8, <1>9, <1>10 DEF Next
-----------------------------------------------------------------------------
(* The inductive invariant *)

Blocks == {log[k] : k \in DOMAIN log}
Executed(t) == Body(t) \in Blocks
Ran(p, i) == << <<p, i>> >> \in Blocks

\* The first n commands of a transaction.
Prefix(t, n) == [i \in 1 .. n |-> <<t, i>>]

\* What Redis holds on t's connection before it handles the awaited step.
ReadyAt(t) ==
  /\ IF at[t] = MultiStep THEN multi[t] = "no"
     ELSE multi[t] = "open" /\ queued[t] = Prefix(t, at[t] - 1)
  /\ ~Executed(t)

\* What it has done once it answered the awaited step with success.
DoneAt(t) ==
  IF at[t] = ExecStep THEN Executed(t)
  ELSE multi[t] = "open" /\ queued[t] = Prefix(t, at[t])

\* Before its connection is up nothing of a transaction has happened.
Idle(t) ==
  /\ at[t] = MultiStep /\ wire[t] = <<>> /\ inbox[t] = <<>>
  /\ multi[t] = "no" /\ conn[t] # "up"
  /\ \A s \in Steps : reply[t][s] = "none"

\* Only the awaited step can be on its way to Redis ...
Asking(t) ==
  wire[t] # <<>> => /\ wire[t] = << <<t, at[t]>> >> /\ inbox[t] = <<>>
                    /\ reply[t][at[t]] # "ok" /\ ReadyAt(t)

\* ... and only its reply on the way back.
Answered(t) ==
  inbox[t] # <<>> => /\ reply[t][at[t]] # "ok"
                     /\ \E ok \in BOOLEAN :
                          inbox[t] = << << <<t, at[t]>>, ok>> >> /\ (ok => DoneAt(t))

Replied(t) ==
  /\ \A s \in Steps : s > at[t] => reply[t][s] = "none"
  /\ reply[t][at[t]] = "ok" /\ conn[t] = "up" => DoneAt(t)
  /\ reply[t][ExecStep] = "ok" => Executed(t)
  /\ at[t] < ExecStep => ~Executed(t)

TxInv(t) ==
  /\ pc[t] \in {"new", "connecting"} => Idle(t)
  /\ Asking(t) /\ Answered(t) /\ Replied(t)

\* The commands that a pipeline has sent.
Sent == {x \in Pipes \X Commands : pc[x[1]] # "new" /\ reply[x[1]][x[2]] # "invalid"}

\* The shared connection carries commands of pipelines, in their order, and
\* is never in a transaction.
SharedWire ==
  /\ multi[Shared] = "no"
  /\ \A k \in 1 .. Len(wire[Shared]) : wire[Shared][k] \in Sent
  /\ \A j, k \in 1 .. Len(wire[Shared]) :
       j < k /\ wire[Shared][j][1] = wire[Shared][k][1] =>
         wire[Shared][j][2] < wire[Shared][k][2]

\* A reply on the way back, and one that arrived, is of a command that ran.
SharedReplies ==
  /\ \A k \in 1 .. Len(inbox[Shared]) :
       \E p \in Pipes, i \in Commands : inbox[Shared][k][1] = <<p, i>> /\ Ran(p, i)
  /\ \A p \in Pipes, i \in Commands : reply[p][i] = "ok" => Ran(p, i)

\* What ran was sent, and what is still to run comes after it.
SharedOrder ==
  \A p \in Pipes, i \in Commands : Ran(p, i) =>
    /\ <<p, i>> \in Sent
    /\ \A k \in 1 .. Len(wire[Shared]) : wire[Shared][k][1] = p => i < wire[Shared][k][2]

PipeInv == SharedWire /\ SharedReplies /\ SharedOrder

Inv == TypeOK /\ Isolated /\ (\A t \in Txs : TxInv(t)) /\ PipeInv

-----------------------------------------------------------------------------
(* Blocks *)

\* Redis executes one more block.
LEMMA BlocksGrow ==
  ASSUME TypeOK, NEW b \in Seq(Calls), log' = Append(log, b)
  PROVE  Blocks' = Blocks \cup {b}
<1>1. log \in Seq(Seq(Calls)) /\ Len(log) \in Nat
  BY DEF TypeOK
<1>2. /\ Len(log') = Len(log) + 1 /\ log'[Len(log) + 1] = b
      /\ \A k \in 1 .. Len(log) : log'[k] = log[k]
      /\ DOMAIN log = 1 .. Len(log) /\ DOMAIN log' = 1 .. Len(log')
  BY <1>1, Appended
<1> QED
  BY <1>1, <1>2 DEF Blocks

\* A transaction's block is nobody else's, and no plain command.
LEMMA BlocksDiffer ==
  ASSUME NEW t \in Txs, NEW p \in Pipes, NEW i \in Commands
  PROVE  /\ Body(t) # << <<p, i>> >>
         /\ \A u \in Txs : u # t => Body(u) # Body(t)
         /\ \A q \in Pipes, j \in Commands :
              << <<p, i>> >> = << <<q, j>> >> => p = q /\ i = j
<1>1. \A u \in Txs : Body(u)[1] = <<u, 1>>
  BY DEF Body, Commands
<1>2. t # p
  BY Sets
<1> QED
  BY <1>1, <1>2

\* A step that adds at most t's block changes nothing for the others.
LEMMA OneBlockMore ==
  ASSUME TypeOK, NEW t \in Txs, log' = log \/ log' = Append(log, Body(t))
  PROVE  /\ \A u \in Txs : u # t => Executed(u)' = Executed(u)
         /\ \A p \in Pipes, i \in Commands : Ran(p, i)' = Ran(p, i)
         /\ Isolated => Isolated'
         /\ log' = log => Executed(t)' = Executed(t)
         /\ log' # log => Executed(t)'
<1>1. CASE log' = log
  BY <1>1 DEF Executed, Ran, Isolated, Blocks
<1>2. CASE log' = Append(log, Body(t))
  <2>1. Blocks' = Blocks \cup {Body(t)}
    BY <1>2, Sets, BodyIsSeq, BlocksGrow
  <2>2. Isolated => Isolated'
    BY <2>1 DEF Isolated, Blocks
  <2>3. ASSUME NEW p \in Pipes, NEW i \in Commands PROVE Ran(p, i)' = Ran(p, i)
    BY <2>1, BlocksDiffer DEF Ran
  <2>4. ASSUME NEW u \in Txs, u # t PROVE Executed(u)' = Executed(u)
    <3>1. Body(u) # Body(t)
      BY <2>4 DEF Body, Commands
    <3> QED
      BY <2>1, <3>1 DEF Executed
  <2>5. log' = log => Executed(t)' = Executed(t)
    BY DEF Executed, Blocks
  <2> QED
    BY <2>1, <2>2, <2>3, <2>4, <2>5 DEF Executed
<1> QED
  BY <1>1, <1>2

-----------------------------------------------------------------------------
(* What a step leaves alone *)

\* Everything that concerns a transaction.
Local(t) ==
  <<pc[t], at[t], reply[t], conn[t], wire[t], inbox[t], multi[t], queued[t]>>

\* A step that touches neither a transaction nor its block keeps its invariant.
LEMMA Undisturbed ==
  ASSUME NEW t \in Txs, TxInv(t), Local(t)' = Local(t), Executed(t)' = Executed(t)
  PROVE  TxInv(t)'
<1>1. /\ pc'[t] = pc[t] /\ at'[t] = at[t] /\ reply'[t] = reply[t] /\ conn'[t] = conn[t]
      /\ wire'[t] = wire[t] /\ inbox'[t] = inbox[t]
      /\ multi'[t] = multi[t] /\ queued'[t] = queued[t]
  BY DEF Local
<1>2. ReadyAt(t)' = ReadyAt(t) /\ DoneAt(t)' = DoneAt(t)
  BY <1>1 DEF ReadyAt, DoneAt
<1> QED
  BY <1>1, <1>2 DEF TxInv, Idle, Asking, Answered, Replied

\* Everything that concerns the pipelines.
SharedLocal == <<wire[Shared], inbox[Shared], multi[Shared]>>

\* The same for the pipelines.
LEMMA PipesUndisturbed ==
  ASSUME PipeInv, SharedLocal' = SharedLocal,
         \A p \in Pipes : reply'[p] = reply[p] /\ (pc[p] # "new" => pc'[p] # "new"),
         \A p \in Pipes, i \in Commands : Ran(p, i)' = Ran(p, i)
  PROVE  PipeInv'
<1>1. /\ wire'[Shared] = wire[Shared] /\ inbox'[Shared] = inbox[Shared]
      /\ multi'[Shared] = multi[Shared]
  BY DEF SharedLocal
<1>2. Sent \subseteq Sent'
  BY DEF Sent
<1>3. SharedWire'
  BY <1>1, <1>2 DEF PipeInv, SharedWire
<1>4. SharedReplies'
  BY <1>1 DEF PipeInv, SharedReplies
<1>5. SharedOrder'
  BY <1>1, <1>2 DEF PipeInv, SharedOrder
<1> QED
  BY <1>3, <1>4, <1>5 DEF PipeInv

\* A step of transaction t, and of nobody else.
Only(t) ==
  /\ \A r \in Requests : r # t => pc'[r] = pc[r] /\ at'[r] = at[r] /\ reply'[r] = reply[r]
  /\ \A c \in Conns : c # t => /\ conn'[c] = conn[c] /\ wire'[c] = wire[c]
                               /\ inbox'[c] = inbox[c] /\ multi'[c] = multi[c]
                               /\ queued'[c] = queued[c]
  /\ log' = log \/ log' = Append(log, Body(t))

\* Such a step keeps the invariant if it keeps t's part.
LEMMA StepOfOne ==
  ASSUME Inv, TypeOK', NEW t \in Txs, Only(t), TxInv(t)' PROVE Inv'
<1>1. ASSUME NEW u \in Txs, u # t PROVE TxInv(u)'
  <2>1. Local(u)' = Local(u)
    BY <1>1, Sets DEF Only, Local
  <2>2. Executed(u)' = Executed(u)
    BY <1>1, OneBlockMore DEF Only, Inv
  <2> QED
    BY <2>1, <2>2, Undisturbed DEF Inv
<1>2. PipeInv'
  <2>1. SharedLocal' = SharedLocal
    BY Sets DEF Only, SharedLocal
  <2>2. \A p \in Pipes : p \in Requests /\ p # t
    BY Sets
  <2>3. \A p \in Pipes : reply'[p] = reply[p] /\ (pc[p] # "new" => pc'[p] # "new")
    BY <2>2 DEF Only
  <2>4. \A p \in Pipes, i \in Commands : Ran(p, i)' = Ran(p, i)
    BY OneBlockMore DEF Only, Inv
  <2> QED
    BY <2>1, <2>3, <2>4, PipesUndisturbed DEF Inv
<1>3. Isolated'
  BY OneBlockMore DEF Only, Inv
<1> QED
  BY <1>1, <1>2, <1>3 DEF Inv
-----------------------------------------------------------------------------
(* The steps of a transaction's handler *)

\* A rejected body, or a handler that ends: nothing is on its way any more
\* that the handler would wait for.
LEMMA HandlerEnds ==
  ASSUME Inv, TypeOK', NEW t \in Txs,
         Reject(t) \/ ConnectFails(t) \/ Complete(t) \/ StepFails(t) \/ StepTimesOut(t)
  PROVE  Inv'
<1> USE Sets DEF Inv, TypeOK
<1>1. /\ pc'[t] = "done" /\ conn'[t] \in {"down", conn[t]}
      /\ \A r \in Requests : r # t => pc'[r] = pc[r]
      /\ \A c \in Conns : c # t => conn'[c] = conn[c]
  <2>1. CASE Reject(t)
    BY <2>1 DEF Reject, Respond
  <2>2. CASE ~Reject(t)
    <3>1. PICK a \in {"results", "error"} : Finish(t, a)
      BY <2>2 DEF ConnectFails, Complete, StepFails, StepTimesOut
    <3> QED
      BY <3>1 DEF Finish, Respond
  <2> QED
    BY <2>1, <2>2
<1>2. UNCHANGED <<at, reply, wire, inbox, multi, queued, log>>
  BY DEF Reject, ConnectFails, Complete, StepFails, StepTimesOut, redis
<1>3. ReadyAt(t)' = ReadyAt(t) /\ DoneAt(t)' = DoneAt(t) /\ Executed(t)' = Executed(t)
  BY <1>2 DEF ReadyAt, DoneAt, Executed, Blocks
<1>4. TxInv(t)'
  BY <1>1, <1>2, <1>3 DEF TxInv, Asking, Answered, Replied
<1>5. Only(t)
  BY <1>1, <1>2 DEF Only
<1> QED
  BY <1>4, <1>5, StepOfOne

\* The connection is opened.
LEMMA ConnectStep == ASSUME Inv, TypeOK', NEW t \in Txs, Connect(t) PROVE Inv'
<1> USE Sets DEF Inv, TypeOK
<1>1. /\ pc[t] = "new" /\ pc'[t] = "connecting" /\ conn'[t] = "opening"
      /\ \A r \in Requests : r # t => pc'[r] = pc[r]
      /\ \A c \in Conns : c # t => conn'[c] = conn[c]
  BY DEF Connect
<1>2. UNCHANGED <<at, reply, wire, inbox, multi, queued, log>>
  BY DEF Connect, redis
<1>3. ReadyAt(t)' = ReadyAt(t) /\ DoneAt(t)' = DoneAt(t) /\ Executed(t)' = Executed(t)
  BY <1>2 DEF ReadyAt, DoneAt, Executed, Blocks
<1>4. TxInv(t)'
  BY <1>1, <1>2, <1>3 DEF TxInv, Idle, Asking, Answered, Replied
<1>5. Only(t)
  BY <1>1, <1>2 DEF Only
<1> QED
  BY <1>4, <1>5, StepOfOne

\* The connection is up, and MULTI is sent.
LEMMA ConnectedStep == ASSUME Inv, TypeOK', NEW t \in Txs, Connected(t) PROVE Inv'
<1> USE Sets DEF Inv, TypeOK
<1>1. /\ pc[t] = "connecting" /\ pc'[t] = "waiting" /\ conn'[t] = "up"
      /\ \A r \in Requests : r # t => pc'[r] = pc[r]
      /\ \A c \in Conns : c # t => conn'[c] = conn[c]
  BY DEF Connected
<1>2. UNCHANGED <<inbox, multi, queued, log>>
  BY DEF Connected, redis
<1>3. /\ at' = [at EXCEPT ![t] = MultiStep] /\ UNCHANGED reply
      /\ wire' = [wire EXCEPT ![t] = Append(@, <<t, MultiStep>>)]
  BY Writes DEF Connected
<1>4. Idle(t) /\ ~Executed(t)
  BY <1>1 DEF TxInv, Replied, Idle, MultiStep, ExecStep
<1>5. wire'[t] = << <<t, MultiStep>> >> /\ at'[t] = MultiStep
  BY <1>3, <1>4 DEF Idle
<1>6. Executed(t)' = Executed(t)
  BY <1>2 DEF Executed, Blocks
<1>7. ReadyAt(t)'
  BY <1>2, <1>4, <1>5, <1>6 DEF ReadyAt, Idle
<1>8. TxInv(t)'
  BY <1>1, <1>2, <1>3, <1>4, <1>5, <1>6, <1>7 DEF TxInv, Idle, Asking, Answered, Replied
<1>9. Only(t)
  BY <1>1, <1>2, <1>3 DEF Only
<1> QED
  BY <1>8, <1>9, StepOfOne

\* The step after a step.
LEMMA NextStep ==
  ASSUME NEW n \in Steps
  PROVE  /\ n + 1 > n /\ (n + 1) - 1 = n /\ n + 1 # MultiStep
         /\ \A x \in Steps : x > n + 1 => x > n /\ x # n + 1
BY DEF Steps, MultiStep, ExecStep

\* The awaited step succeeded; the next one is sent.
LEMMA ProceedStep == ASSUME Inv, TypeOK', NEW t \in Txs, Proceed(t) PROVE Inv'
<1> USE Sets DEF Inv, TypeOK
<1> DEFINE s == at[t] + 1
<1>1. /\ pc[t] = "waiting" /\ at[t] < ExecStep /\ reply[t][at[t]] = "ok"
      /\ Write(t, s, conn[t] = "up")
      /\ UNCHANGED <<pc, conn, inbox, multi, queued, log>>
  <2>1. ConnOf(t) = t
    OBVIOUS
  <2> QED
    BY <2>1 DEF Proceed, Waiting, redis
<1>7. at[t] \in Steps /\ s \in Steps
  BY <1>1
<1>8. s > at[t] /\ s - 1 = at[t] /\ s # MultiStep /\ \A x \in Steps : x > s => x > at[t] /\ x # s
  <2> HIDE DEF Inv, TypeOK
  <2> QED
    BY <1>7, NextStep
<1> HIDE DEF s
<1>2. wire[t] = <<>> /\ inbox[t] = <<>> /\ ~Executed(t) /\ reply[t][s] = "none"
  BY <1>1, <1>7, <1>8 DEF TxInv, Asking, Answered, Replied
<1>3. Executed(t)' = Executed(t)
  BY <1>1 DEF Executed, Blocks
<1>4. at' = [at EXCEPT ![t] = s] /\ at'[t] = s
  <2>1. at' = [at EXCEPT ![t] = s]
    BY <1>1 DEF Write
  <2> QED
    BY <2>1
<1>5. CASE conn[t] = "up"
  <2>1. wire' = [wire EXCEPT ![t] = Append(@, <<t, s>>)] /\ reply' = reply
    BY <1>1, <1>5, <1>7, Writes
  <2>2. wire'[t] = << <<t, s>> >>
    BY <1>2, <2>1
  <2>3. ReadyAt(t)'
    <3>1. DoneAt(t)
      BY <1>1, <1>5 DEF TxInv, Replied
    <3> QED
      BY <1>1, <1>2, <1>3, <1>4, <1>8, <3>1 DEF ReadyAt, DoneAt
  <2>5. TxInv(t)'
    BY <1>1, <1>2, <1>3, <1>4, <1>7, <1>8, <2>1, <2>2, <2>3 DEF TxInv, Asking, Answered, Replied
  <2>6. Only(t)
    BY <1>1, <1>4, <2>1 DEF Only
  <2> QED
    BY <2>5, <2>6, StepOfOne
<1>6. CASE conn[t] # "up"
  <2>1. reply' = [reply EXCEPT ![t][s] = "error"] /\ wire' = wire
    BY <1>1, <1>6, <1>7, Writes
  <2>2. reply'[t][s] = "error" /\ \A x \in Steps : x # s => reply'[t][x] = reply[t][x]
    BY <1>7, <2>1
  <2>4. TxInv(t)'
    BY <1>1, <1>2, <1>3, <1>4, <1>6, <1>7, <1>8, <2>1, <2>2 DEF TxInv, Asking, Answered, Replied
  <2>5. Only(t)
    BY <1>1, <1>4, <2>1 DEF Only
  <2> QED
    BY <2>4, <2>5, StepOfOne
<1> QED
  BY <1>5, <1>6
-----------------------------------------------------------------------------
(* The connection of a transaction, and what Redis does on it *)

\* The reply of the awaited step arrives.
LEMMA DeliverStep == ASSUME Inv, TypeOK', NEW t \in Txs, Deliver(t) PROVE Inv'
<1>1. /\ conn[t] = "up" /\ inbox[t] # <<>> /\ TxInv(t) /\ at[t] \in Steps
      /\ t \in Conns /\ t \in Requests
      /\ reply \in [Requests -> [Steps -> {"none", "ok", "error", "invalid"}]]
  BY Sets DEF Deliver, Inv, TypeOK
<1>2. PICK ok \in BOOLEAN : inbox[t] = << << <<t, at[t]>>, ok>> >> /\ (ok => DoneAt(t))
  BY <1>1 DEF TxInv, Answered
<1>3. wire[t] = <<>> /\ pc[t] \notin {"new", "connecting"}
  BY <1>1 DEF TxInv, Asking, Idle
<1>4. Head(inbox[t]) = << <<t, at[t]>>, ok>> /\ Tail(inbox[t]) = <<>>
  BY <1>2
<1>5. reply' = [reply EXCEPT ![t][at[t]] = IF ok THEN "ok" ELSE "error"]
  <2>1. Head(inbox[t])[1][1] = t /\ Head(inbox[t])[1][2] = at[t] /\ Head(inbox[t])[2] = ok
    BY <1>4
  <2> QED
    BY <2>1 DEF Deliver
<1>6. /\ reply'[t][at[t]] = "ok" => ok
      /\ \A s \in Steps : s # at[t] => reply'[t][s] = reply[t][s]
      /\ \A r \in Requests : r # t => reply'[r] = reply[r]
  BY <1>1, <1>5
<1>7. UNCHANGED <<pc, at, conn, wire, multi, queued, log>>
  BY DEF Deliver, handlers, redis
<1>8. inbox'[t] = <<>> /\ \A c \in Conns : c # t => inbox'[c] = inbox[c]
  BY <1>1, <1>4 DEF Deliver, Inv, TypeOK
<1>9. Executed(t)' = Executed(t) /\ DoneAt(t)' = DoneAt(t)
  BY <1>7 DEF Executed, Blocks, DoneAt
<1>10. Replied(t)'
  <2>1. \A s \in Steps : s > at[t] => s # at[t]
    BY Sets, <1>1
  <2>2. ExecStep \in Steps /\ (at[t] = ExecStep => (DoneAt(t) => Executed(t)))
    BY Sets DEF DoneAt
  <2> QED
    BY <1>1, <1>2, <1>6, <1>7, <1>9, <2>1, <2>2 DEF TxInv, Replied
<1>11. TxInv(t)'
  BY <1>3, <1>7, <1>8, <1>10 DEF TxInv, Asking, Answered
<1>12. Only(t)
  BY <1>6, <1>7, <1>8 DEF Only
<1> QED
  BY <1>11, <1>12, StepOfOne

\* What the client rejects on connection c is awaited there.
LEMMA Rejects ==
  ASSUME TypeOK, NEW c \in Conns, RejectPending(c)
  PROVE  /\ \A r \in Requests : ConnOf(r) # c => reply'[r] = reply[r]
         /\ \A r \in Requests, s \in Steps :
              \/ reply'[r][s] = reply[r][s]
              \/ /\ reply[r][s] = "none" /\ reply'[r][s] = "error"
                 /\ s = at[r] \/ r \in Pipes
<1>1. ASSUME NEW r \in Requests, ConnOf(r) # c PROVE reply'[r] = reply[r]
  <2>1. Pending(c, r) = {}
    BY <1>1 DEF Pending
  <2>2. reply'[r] = [s \in Steps |-> reply[r][s]]
    BY <2>1 DEF RejectPending
  <2>3. reply[r] \in [Steps -> {"none", "ok", "error", "invalid"}]
    BY DEF TypeOK
  <2> QED
    BY <2>2, <2>3
<1>2. ASSUME NEW r \in Requests, NEW s \in Steps
      PROVE  \/ reply'[r][s] = reply[r][s]
             \/ /\ reply[r][s] = "none" /\ reply'[r][s] = "error"
                /\ s = at[r] \/ r \in Pipes
  <2>1. reply'[r][s] = IF s \in Pending(c, r) THEN "error" ELSE reply[r][s]
    BY DEF RejectPending
  <2> QED
    BY <2>1 DEF Pending
<1> QED
  BY <1>1, <1>2

\* The connection is lost: a reply that was on its way is not delivered.
LEMMA DropStep == ASSUME Inv, TypeOK', NEW t \in Txs, Drop(t) PROVE Inv'
<1>1. /\ TypeOK /\ TxInv(t) /\ at[t] \in Steps /\ ExecStep \in Steps
      /\ t \in Conns /\ t \in Requests /\ t # Shared /\ t \notin Pipes
      /\ conn[t] = "up"
  BY Sets DEF Drop, Inv, TypeOK
<1>2. UNCHANGED <<pc, at, wire, multi, queued, log>>
  BY <1>1 DEF Drop, handlers
<1>3. /\ conn'[t] = "down" /\ inbox'[t] = <<>>
      /\ \A c \in Conns : c # t => conn'[c] = conn[c] /\ inbox'[c] = inbox[c]
  BY <1>1 DEF Drop, TypeOK
<1>4. /\ \A r \in Requests : r # t => reply'[r] = reply[r]
      /\ \A s \in Steps : \/ reply'[t][s] = reply[t][s]
                          \/ s = at[t] /\ reply'[t][s] = "error"
  <2>1. \A r \in Requests : r # t => ConnOf(r) # t
    BY <1>1 DEF ConnOf
  <2>2. RejectPending(t)
    BY DEF Drop
  <2> QED
    BY <1>1, <2>1, <2>2, Rejects
<1>5. ReadyAt(t)' = ReadyAt(t) /\ Executed(t)' = Executed(t)
  BY <1>2 DEF ReadyAt, Executed, Blocks
<1>6. pc[t] \notin {"new", "connecting"}
  BY <1>1 DEF TxInv, Idle
<1>7. \A s \in Steps : s > at[t] => s # at[t]
  BY <1>1, Sets
<1>8. TxInv(t)'
  BY <1>1, <1>2, <1>3, <1>4, <1>5, <1>6, <1>7 DEF TxInv, Asking, Answered, Replied
<1>9. Only(t)
  BY <1>2, <1>3, <1>4 DEF Only
<1> QED
  BY <1>8, <1>9, StepOfOne

\* Redis forgets the connection once it is gone.
LEMMA ForgetStep == ASSUME Inv, TypeOK', NEW t \in Txs, Forget(t) PROVE Inv'
<1>1. TxInv(t) /\ t \in Conns /\ conn[t] = "down"
  BY Sets DEF Forget, Inv
<1>2. UNCHANGED <<pc, at, reply, conn, log>>
  BY DEF Forget, handlers
<1>3. /\ wire'[t] = <<>> /\ inbox'[t] = <<>> /\ multi'[t] = "no"
      /\ \A c \in Conns : c # t => /\ wire'[c] = wire[c] /\ inbox'[c] = inbox[c]
                                   /\ multi'[c] = multi[c] /\ queued'[c] = queued[c]
  BY <1>1 DEF Forget, Inv, TypeOK
<1>4. Executed(t)' = Executed(t)
  BY <1>2 DEF Executed, Blocks
<1>5. TxInv(t)'
  BY <1>1, <1>2, <1>3, <1>4 DEF TxInv, Idle, Asking, Answered, Replied
<1>6. Only(t)
  BY <1>2, <1>3 DEF Only
<1> QED
  BY <1>5, <1>6, StepOfOne
\* One more command of a transaction.
LEMMA PrefixGrows ==
  ASSUME NEW t, NEW n \in Nat
  PROVE  /\ Prefix(t, 0) = <<>>
         /\ Append(Prefix(t, n), <<t, n + 1>>) = Prefix(t, n + 1)
         /\ Prefix(t, Size) = Body(t)
<1>1. Prefix(t, n) \in Seq({t} \X Nat) /\ Len(Prefix(t, n)) = n
  BY DEF Prefix
<1>2. Append(Prefix(t, n), <<t, n + 1>>) = [i \in 1 .. n + 1 |->
        IF i = n + 1 THEN <<t, n + 1>> ELSE Prefix(t, n)[i]]
  BY <1>1
<1>3. \A i \in 1 .. n : Prefix(t, n)[i] = <<t, i>>
  BY DEF Prefix
<1>4. \A i \in 1 .. n + 1 :
        (IF i = n + 1 THEN <<t, n + 1>> ELSE Prefix(t, n)[i]) = <<t, i>>
  BY <1>3
<1>5. Append(Prefix(t, n), <<t, n + 1>>) = Prefix(t, n + 1)
  BY <1>2, <1>4 DEF Prefix
<1> QED
  BY <1>5 DEF Prefix, Body, Commands

\* Redis executes the one command on a transaction's connection.
LEMMA RedisStep ==
  ASSUME Inv, TypeOK', NEW t \in Txs, Redis(t)
  PROVE  Inv' /\ (log' = log \/ (log' = Append(log, Body(t)) /\ ~Executed(t)))
<1> DEFINE s == at[t]
<1>1. /\ TypeOK /\ TxInv(t) /\ s \in Steps /\ ExecStep \in Steps
      /\ t \in Conns /\ t \in Requests /\ t # Shared /\ t \notin Pipes /\ wire[t] # <<>>
  <2>1. TypeOK /\ TxInv(t) /\ t \in Conns /\ t \in Requests /\ t # Shared /\ t \notin Pipes
    BY Sets DEF Inv
  <2>2. at[t] \in Steps /\ ExecStep \in Steps /\ wire[t] # <<>>
    BY <2>1, Sets DEF Redis, TypeOK
  <2> QED
    BY <2>1, <2>2
<1>2. /\ wire[t] = << <<t, s>> >> /\ inbox[t] = <<>> /\ reply[t][s] # "ok" /\ ReadyAt(t)
      /\ pc[t] \notin {"new", "connecting"}
  BY <1>1 DEF TxInv, Asking, Idle
<1>3. Head(wire[t]) = <<t, s>> /\ Tail(wire[t]) = <<>>
  BY <1>2
<1>4. UNCHANGED <<pc, at, reply, conn>>
  BY DEF Redis, handlers
<1>5. wire'[t] = <<>> /\ \A c \in Conns : c # t => wire'[c] = wire[c]
  BY <1>1, <1>3 DEF Redis, TypeOK
<1>6. PICK ok \in BOOLEAN :
        /\ CASE s = MultiStep -> ok /\ RedisMulti(t)
             [] s = ExecStep -> RedisExec(t, ok)
             [] OTHER -> RedisQueues(t, <<t, s>>, ok) \/ RedisRuns(t, <<t, s>>)
        /\ inbox' = [inbox EXCEPT ![t] =
                       IF conn[t] = "up" THEN Append(@, << <<t, s>>, ok>>) ELSE @]
  <2> DEFINE call == Head(wire[t])
  <2>1. call = <<t, s>> /\ call[1] = t /\ call[2] = s
    BY <1>3
  <2>2. PICK ok \in BOOLEAN :
          /\ CASE call[1] \in Txs /\ call[2] = MultiStep -> ok /\ RedisMulti(t)
               [] call[1] \in Txs /\ call[2] = ExecStep -> RedisExec(t, ok)
               [] OTHER -> RedisQueues(t, call, ok) \/ RedisRuns(t, call)
          /\ inbox' = [inbox EXCEPT ![t] = IF conn[t] = "up" THEN Append(@, <<call, ok>>) ELSE @]
    BY DEF Redis
  <2> HIDE DEF call, s
  <2> QED
    BY <2>1, <2>2
<1>7. /\ inbox'[t] \in {<<>>, << << <<t, s>>, ok>> >>}
      /\ \A c \in Conns : c # t => inbox'[c] = inbox[c]
  <2>1. inbox \in [Conns -> Seq(Calls \X BOOLEAN)]
    BY <1>1 DEF TypeOK
  <2>2. Append(<<>>, << <<t, s>>, ok>>) = << << <<t, s>>, ok>> >>
    OBVIOUS
  <2> QED
    BY <1>1, <1>2, <1>6, <2>1, <2>2
<1>8. /\ \A c \in Conns : c # t => multi'[c] = multi[c] /\ queued'[c] = queued[c]
      /\ log' = log \/ (log' = Append(log, Body(t)) /\ s = ExecStep)
      /\ ok => DoneAt(t)'
  <2>1. multi \in [Conns -> {"no", "open", "dirty"}] /\ queued \in [Conns -> Seq(Calls)]
    BY <1>1 DEF TypeOK
  <2>2. MultiStep # ExecStep /\ ExecStep - 1 = Size /\ MultiStep = 0
    BY DEF MultiStep, ExecStep
  <2>3. CASE s = MultiStep
    <3>1. RedisMulti(t)
      BY <1>6, <2>2, <2>3
    <3>2. Prefix(t, at[t]) = <<>>
      BY <2>2, <2>3, PrefixGrows
    <3> QED
      <4>1. /\ multi' = [multi EXCEPT ![t] = "open"] /\ queued' = [queued EXCEPT ![t] = <<>>]
            /\ log' = log
        BY <3>1 DEF RedisMulti
      <4>2. multi'[t] = "open" /\ queued'[t] = Prefix(t, at'[t])
        BY <1>1, <1>4, <2>1, <3>2, <4>1
      <4>3. DoneAt(t)'
        BY <1>4, <2>2, <2>3, <4>2 DEF DoneAt
      <4>4. \A c \in Conns : c # t => multi'[c] = multi[c] /\ queued'[c] = queued[c]
        BY <2>1, <4>1
      <4> QED
        BY <4>1, <4>3, <4>4
  <2>4. CASE s = ExecStep
    <3>1. RedisExec(t, ok)
      BY <1>6, <2>2, <2>4
    <3>2. multi[t] = "open" /\ queued[t] = Body(t)
      BY <1>2, <2>2, <2>4, PrefixGrows DEF ReadyAt
    <3>3. log' = Append(log, Body(t))
      BY <3>1, <3>2 DEF RedisExec
    <3>4. Executed(t)'
      BY <1>1, <3>3, BodyIsSeq, BlocksGrow DEF Executed
    <3> QED
      BY <1>1, <1>4, <2>1, <2>4, <3>1, <3>3, <3>4 DEF RedisExec, DoneAt
  <2>5. CASE s # MultiStep /\ s # ExecStep
    <3>1. multi[t] = "open" /\ queued[t] = Prefix(t, s - 1)
      BY <1>2, <2>5 DEF ReadyAt
    <3>2. RedisQueues(t, <<t, s>>, ok)
      BY <1>6, <2>5, <3>1 DEF RedisRuns
    <3>3. Append(Prefix(t, s - 1), <<t, s>>) = Prefix(t, s)
      <4>1. s - 1 \in Nat /\ (s - 1) + 1 = s
        BY <1>1, <2>5 DEF Steps, MultiStep, ExecStep
      <4> HIDE DEF s
      <4> QED
        BY <4>1, PrefixGrows
    <3> QED
      <4>1. CASE ok
        <5>1. /\ queued' = [queued EXCEPT ![t] = Append(@, <<t, s>>)]
              /\ multi' = multi /\ log' = log
          BY <3>2, <4>1 DEF RedisQueues
        <5>2. multi'[t] = "open" /\ queued'[t] = Prefix(t, at'[t])
          BY <1>1, <1>4, <2>1, <3>1, <3>3, <5>1
        <5>3. DoneAt(t)'
          BY <1>4, <2>5, <5>2 DEF DoneAt
        <5>4. \A c \in Conns : c # t => multi'[c] = multi[c] /\ queued'[c] = queued[c]
          BY <2>1, <5>1
        <5> QED
          BY <5>1, <5>3, <5>4
      <4>2. CASE ~ok
        <5>1. /\ multi' = [multi EXCEPT ![t] = "dirty"]
              /\ queued' = queued /\ log' = log
          BY <3>2, <4>2 DEF RedisQueues
        <5>2. \A c \in Conns : c # t => multi'[c] = multi[c] /\ queued'[c] = queued[c]
          BY <2>1, <5>1
        <5> QED
          BY <4>2, <5>1, <5>2
      <4> QED
        BY <4>1, <4>2
  <2> QED
    BY <2>3, <2>4, <2>5
<1>9. s < ExecStep => ~Executed(t)'
  <2>1. CASE log' = log
    BY <1>2, <2>1 DEF Executed, Blocks, ReadyAt
  <2>2. CASE s = ExecStep
    BY <2>2 DEF ExecStep
  <2> QED
    BY <1>8, <2>1, <2>2
<1>10. TxInv(t)'
  <2>1. reply[t][ExecStep] # "ok"
    BY <1>1, <1>2, Sets DEF TxInv, Replied
  <2>2. Answered(t)'
    BY <1>2, <1>4, <1>7, <1>8 DEF Answered
  <2>3. Replied(t)'
    BY <1>1, <1>2, <1>4, <1>9, <2>1 DEF TxInv, Replied
  <2> QED
    BY <1>2, <1>4, <1>5, <2>2, <2>3 DEF TxInv, Asking
<1>11. Only(t)
  BY <1>4, <1>5, <1>7, <1>8 DEF Only
<1>12. ~Executed(t)
  BY <1>2 DEF ReadyAt
<1> QED
  BY <1>8, <1>10, <1>11, <1>12, StepOfOne
-----------------------------------------------------------------------------
(* The pipelines and the shared connection *)

\* A step that touches no transaction keeps the invariant if it keeps the
\* pipelines' part and runs at most one plain command.
LEMMA StepOfShared ==
  ASSUME Inv, TypeOK', PipeInv', \A t \in Txs : Local(t)' = Local(t),
         \/ log' = log
         \/ \E p \in Pipes, i \in Commands : log' = Append(log, << <<p, i>> >>)
  PROVE  Inv'
<1>1. (\A t \in Txs : Executed(t)' = Executed(t)) /\ Isolated'
  <2>1. CASE log' = log
    BY <2>1 DEF Inv, Executed, Isolated, Blocks
  <2>2. ASSUME NEW p \in Pipes, NEW i \in Commands, log' = Append(log, << <<p, i>> >>)
        PROVE  (\A t \in Txs : Executed(t)' = Executed(t)) /\ Isolated'
    <3>1. << <<p, i>> >> \in Seq(Calls)
      BY Sets DEF Calls
    <3>2. Blocks' = Blocks \cup {<< <<p, i>> >>}
      BY <2>2, <3>1, BlocksGrow DEF Inv
    <3>3. Isolated'
      BY <3>2 DEF Inv, Isolated, Blocks
    <3>4. \A t \in Txs : Body(t) # << <<p, i>> >>
      BY BlocksDiffer
    <3> QED
      BY <3>2, <3>3, <3>4 DEF Executed
  <2> QED
    BY <2>1, <2>2
<1>2. \A t \in Txs : TxInv(t)'
  BY <1>1, Undisturbed DEF Inv
<1> QED
  BY <1>1, <1>2 DEF Inv

\* A pipeline's response, and the request timeout: nothing but the answer.
LEMMA AnswerStep ==
  ASSUME Inv, TypeOK', (\E p \in Pipes : Settle(p)) \/ (\E r \in Requests : RequestTimesOut(r))
  PROVE  Inv'
<1>1. UNCHANGED <<at, reply, conn, wire, inbox, multi, queued, log>>
  BY DEF Settle, RequestTimesOut, redis
<1>2. /\ \A t \in Txs : pc'[t] = pc[t]
      /\ \A p \in Pipes : pc[p] # "new" => pc'[p] # "new"
  <2>1. ASSUME NEW r \in Requests, RequestTimesOut(r) PROVE pc' = pc
    BY <2>1 DEF RequestTimesOut
  <2>2. ASSUME NEW p \in Pipes, Settle(p) PROVE pc' = [pc EXCEPT ![p] = "done"]
    BY <2>2 DEF Settle, Respond
  <2>3. \A t \in Txs, p \in Pipes : t # p /\ t \in Requests /\ p \in Requests
    BY Sets
  <2>4. ASSUME NEW p \in Pipes, Settle(p)
        PROVE  /\ \A t \in Txs : pc'[t] = pc[t]
               /\ \A q \in Pipes : pc[q] # "new" => pc'[q] # "new"
    <3>1. pc' = [pc EXCEPT ![p] = "done"]
      BY <2>2, <2>4
    <3>2. pc \in [Requests -> {"new", "connecting", "waiting", "done"}]
      BY DEF Inv, TypeOK
    <3> QED
      BY <2>3, <3>1, <3>2
  <2>5. CASE \E r \in Requests : RequestTimesOut(r)
    BY <2>1, <2>5
  <2> QED
    BY <2>4, <2>5
<1>3. \A t \in Txs : Local(t)' = Local(t)
  BY <1>1, <1>2 DEF Local
<1>4. PipeInv'
  <2>1. SharedLocal' = SharedLocal
    BY <1>1 DEF SharedLocal
  <2>2. \A p \in Pipes, i \in Commands : Ran(p, i)' = Ran(p, i)
    BY <1>1 DEF Ran, Blocks
  <2> QED
    BY <1>1, <1>2, <2>1, <2>2, PipesUndisturbed DEF Inv
<1> QED
  BY <1>1, <1>3, <1>4, StepOfShared

\* A pipeline is submitted: its valid commands come after all the others.
LEMMA SubmitStep ==
  ASSUME Inv, TypeOK', NEW p \in Pipes, NEW invalid \in SUBSET Commands, Submit(p, invalid)
  PROVE  Inv'
<1> DEFINE S == {p} \X (Commands \ invalid)
           sent == Keep(Body(p), S)
           w == wire[Shared]
<1>1. /\ TypeOK /\ PipeInv /\ p \in Requests /\ Shared \in Conns
      /\ w \in Seq(Calls) /\ pc[p] = "new" /\ \A t \in Txs : t # p /\ t # Shared
  BY Sets DEF Inv, TypeOK, Submit
<1>2. UNCHANGED <<at, conn, inbox, multi, queued, log>>
  BY DEF Submit, redis
<1>3. pc'[p] = "waiting" /\ \A r \in Requests : r # p => pc'[r] = pc[r] /\ reply'[r] = reply[r]
  BY <1>1 DEF Submit, TypeOK
<1>4. \A i \in Commands : reply'[p][i] = IF i \in invalid THEN "invalid" ELSE "none"
  BY <1>1, Sets DEF Submit, TypeOK
<1>5. wire'[Shared] = w \o sent /\ \A c \in Conns : c # Shared => wire'[c] = wire[c]
  BY <1>1 DEF Submit, TypeOK
<1>6. sent \in Seq(Calls) /\ sent \in Seq(S) /\ InOrder(sent, Body(p))
  BY SubmittedIsSeq
<1>7. \A k \in 1 .. Len(sent) : sent[k] \in S
  <2> HIDE DEF sent, S
  <2> QED
    BY <1>6
<1>8. \A j, k \in 1 .. Len(sent) : j < k => sent[j][2] < sent[k][2]
  <2> SUFFICES ASSUME NEW j \in 1 .. Len(sent), NEW k \in 1 .. Len(sent), j < k
               PROVE  sent[j][2] < sent[k][2]
    OBVIOUS
  <2>1. PICK a, b \in 1 .. Len(Body(p)) : a < b /\ sent[j] = Body(p)[a] /\ sent[k] = Body(p)[b]
    BY <1>6 DEF InOrder
  <2>2. Len(Body(p)) = Size /\ \A i \in 1 .. Size : Body(p)[i] = <<p, i>>
    BY <1>1, BodyIsSeq DEF Commands
  <2>3. sent[j] = <<p, a>> /\ sent[k] = <<p, b>>
    BY <2>1, <2>2
  <2> HIDE DEF sent
  <2>4. sent[j][2] = a /\ sent[k][2] = b
    BY <2>3
  <2> QED
    BY <2>1, <2>4
<1> HIDE DEF sent
<1>9. /\ Len(w) \in Nat /\ Len(sent) \in Nat /\ Len(wire'[Shared]) = Len(w) + Len(sent)
      /\ \A k \in 1 .. Len(wire'[Shared]) :
           \/ k \in 1 .. Len(w) /\ wire'[Shared][k] = w[k]
           \/ /\ k > Len(w) /\ k - Len(w) \in 1 .. Len(sent)
              /\ wire'[Shared][k] = sent[k - Len(w)]
  BY <1>1, <1>5, <1>6, Joined
<1>10. \A x \in Sent : x[1] # p /\ x \in Sent'
  BY <1>1, <1>3, Sets DEF Sent
<1>11. \A x \in S : x \in Sent' /\ x[1] = p
  BY <1>3, <1>4 DEF Sent
<1>12. SharedWire'
  <2>0. /\ \A k \in 1 .. Len(w) : w[k] \in Sent
        /\ \A j, k \in 1 .. Len(w) : j < k /\ w[j][1] = w[k][1] => w[j][2] < w[k][2]
    BY <1>1 DEF PipeInv, SharedWire
  <2>1. ASSUME NEW k \in 1 .. Len(wire'[Shared]) PROVE wire'[Shared][k] \in Sent'
    <3>1. CASE k \in 1 .. Len(w) /\ wire'[Shared][k] = w[k]
      BY <1>10, <2>0, <3>1
    <3>2. CASE k - Len(w) \in 1 .. Len(sent) /\ wire'[Shared][k] = sent[k - Len(w)]
      BY <1>7, <1>11, <3>2
    <3> QED
      BY <1>9, <3>1, <3>2
  <2>2. ASSUME NEW j \in 1 .. Len(wire'[Shared]), NEW k \in 1 .. Len(wire'[Shared]), j < k,
               wire'[Shared][j][1] = wire'[Shared][k][1]
        PROVE  wire'[Shared][j][2] < wire'[Shared][k][2]
    <3>1. CASE k \in 1 .. Len(w)
      <4>1. j \in 1 .. Len(w) /\ wire'[Shared][j] = w[j] /\ wire'[Shared][k] = w[k]
        BY <1>9, <2>2, <3>1
      <4> QED
        BY <2>0, <2>2, <3>1, <4>1
    <3>2. CASE j \in 1 .. Len(w) /\ k > Len(w)
      <4>1. wire'[Shared][j] \in Sent /\ wire'[Shared][k] \in S
        <5>1. wire'[Shared][j] = w[j]
          BY <1>9, <3>2
        <5>2. k - Len(w) \in 1 .. Len(sent) /\ wire'[Shared][k] = sent[k - Len(w)]
          BY <1>9, <3>2
        <5> QED
          BY <1>7, <2>0, <3>2, <5>1, <5>2
      <4> QED
        BY <1>10, <1>11, <2>2, <4>1
    <3>3. CASE j > Len(w)
      <4>1. j - Len(w) \in 1 .. Len(sent) /\ k - Len(w) \in 1 .. Len(sent)
            /\ wire'[Shared][j] = sent[j - Len(w)] /\ wire'[Shared][k] = sent[k - Len(w)]
            /\ j - Len(w) < k - Len(w)
        BY <1>9, <2>2, <3>3
      <4> QED
        BY <1>8, <4>1
    <3> QED
      BY <1>9, <3>1, <3>2, <3>3
  <2> QED
    BY <1>1, <1>2, <2>1, <2>2 DEF PipeInv, SharedWire
<1>13. \A q \in Pipes, i \in Commands : Ran(q, i)' = Ran(q, i)
  BY <1>2 DEF Ran, Blocks
<1>14. SharedReplies'
  <2>1. \A q \in Pipes, i \in Commands : reply'[q][i] = "ok" => reply[q][i] = "ok"
    BY <1>3, <1>4, Sets
  <2> QED
    BY <1>1, <1>2, <1>13, <2>1 DEF PipeInv, SharedReplies
<1>15. SharedOrder'
  <2>1. ASSUME NEW q \in Pipes, NEW i \in Commands, Ran(q, i)
        PROVE  /\ <<q, i>> \in Sent'
               /\ \A k \in 1 .. Len(wire'[Shared]) :
                    wire'[Shared][k][1] = q => i < wire'[Shared][k][2]
    <3>1. <<q, i>> \in Sent /\ \A k \in 1 .. Len(w) : w[k][1] = q => i < w[k][2]
      BY <1>1, <2>1 DEF PipeInv, SharedOrder
    <3>2. q # p /\ <<q, i>> \in Sent'
      BY <1>10, <3>1
    <3> QED
      BY <1>7, <1>9, <1>11, <3>1, <3>2
  <2> QED
    BY <1>13, <2>1 DEF SharedOrder
<1>16. \A t \in Txs : Local(t)' = Local(t)
  BY <1>1, <1>2, <1>3, <1>5, Sets DEF Local
<1> QED
  BY <1>2, <1>12, <1>14, <1>15, <1>16, StepOfShared DEF PipeInv
\* A reply arrives on the shared connection.
LEMMA DeliverShared == ASSUME Inv, TypeOK', Deliver(Shared) PROVE Inv'
<1>1. /\ TypeOK /\ PipeInv /\ Shared \in Conns /\ inbox[Shared] # <<>>
      /\ inbox[Shared] \in Seq(Calls \X BOOLEAN)
      /\ reply \in [Requests -> [Steps -> {"none", "ok", "error", "invalid"}]]
  BY Sets DEF Inv, TypeOK, Deliver
<1>2. UNCHANGED <<pc, at, conn, wire, multi, queued, log>>
  BY DEF Deliver, handlers, redis
<1>3. /\ inbox'[Shared] = Tail(inbox[Shared])
      /\ \A c \in Conns : c # Shared => inbox'[c] = inbox[c]
  BY <1>1 DEF Deliver, TypeOK
<1>4. /\ Len(inbox[Shared]) \in Nat \ {0} /\ Head(inbox[Shared]) = inbox[Shared][1]
      /\ Len(inbox'[Shared]) = Len(inbox[Shared]) - 1
      /\ \A k \in 1 .. Len(inbox[Shared]) - 1 : inbox'[Shared][k] = inbox[Shared][k + 1]
  BY <1>1, <1>3, Shifted
<1>5. \A k \in 1 .. Len(inbox[Shared]) :
        \E p \in Pipes, i \in Commands : inbox[Shared][k][1] = <<p, i>> /\ Ran(p, i)
  BY <1>1 DEF PipeInv, SharedReplies
<1>6. PICK p \in Pipes, i \in Commands : Head(inbox[Shared])[1] = <<p, i>> /\ Ran(p, i)
  BY <1>4, <1>5
<1>7. \E r \in {"ok", "error"} : reply' = [reply EXCEPT ![p][i] = r]
  <2>1. Head(inbox[Shared])[1][1] = p /\ Head(inbox[Shared])[1][2] = i
    BY <1>6
  <2> QED
    BY <2>1 DEF Deliver
<1>8. p \in Requests /\ i \in Steps /\ \A t \in Txs : t \in Requests /\ t # p /\ t # Shared
  BY Sets
<1>9. /\ \A r \in Requests : r # p => reply'[r] = reply[r]
      /\ \A s \in Steps : reply'[p][s] = reply[p][s] \/ (s = i /\ reply'[p][i] # "invalid")
  BY <1>1, <1>7, <1>8
<1>10. \A q \in Pipes, j \in Commands : Ran(q, j)' = Ran(q, j)
  BY <1>2 DEF Ran, Blocks
<1>11. Sent \subseteq Sent'
  <2>1. ASSUME NEW q \in Pipes, NEW j \in Commands, reply[q][j] # "invalid"
        PROVE  reply'[q][j] # "invalid"
    <3>1. q \in Requests /\ j \in Steps
      BY Sets
    <3> QED
      BY <1>9, <2>1, <3>1
  <2> QED
    BY <1>2, <2>1 DEF Sent
<1>12. SharedWire' /\ SharedOrder'
  BY <1>1, <1>2, <1>10, <1>11 DEF PipeInv, SharedWire, SharedOrder
<1>13. SharedReplies'
  <2>1. ASSUME NEW k \in 1 .. Len(inbox'[Shared])
        PROVE  \E q \in Pipes, j \in Commands : inbox'[Shared][k][1] = <<q, j>> /\ Ran(q, j)
    <3>1. k + 1 \in 1 .. Len(inbox[Shared]) /\ inbox'[Shared][k] = inbox[Shared][k + 1]
      BY <1>4, <2>1
    <3> QED
      BY <1>5, <3>1
  <2>2. ASSUME NEW q \in Pipes, NEW j \in Commands, reply'[q][j] = "ok" PROVE Ran(q, j)
    <3>1. q \in Requests /\ j \in Steps
      BY Sets
    <3>2. CASE q = p /\ j = i
      BY <1>6, <3>2
    <3>3. CASE ~(q = p /\ j = i)
      <4>1. reply[q][j] = "ok"
        BY <1>9, <2>2, <3>1, <3>3
      <4> QED
        BY <1>1, <4>1 DEF PipeInv, SharedReplies
    <3> QED
      BY <3>2, <3>3
  <2> QED
    BY <1>10, <2>1, <2>2 DEF SharedReplies
<1>14. \A t \in Txs : Local(t)' = Local(t)
  BY <1>2, <1>3, <1>8, <1>9, Sets DEF Local
<1> QED
  BY <1>2, <1>12, <1>13, <1>14, StepOfShared DEF PipeInv

\* The shared connection is lost or given up with everything it carried, or
\* it is up again.
LEMMA SharedLost ==
  ASSUME Inv, TypeOK', Drop(Shared) \/ RetriesExhausted \/ Reconnect PROVE Inv'
<1>1. TypeOK /\ PipeInv /\ Shared \in Conns /\ \A t \in Txs : t \in Conns /\ t # Shared
  BY Sets DEF Inv
<1>2. UNCHANGED <<pc, at, log>> /\ multi'[Shared] = "no"
  <2>1. multi[Shared] = "no"
    BY <1>1 DEF PipeInv, SharedWire
  <2> QED
    BY <1>1, <2>1 DEF Drop, RetriesExhausted, Reconnect, handlers, redis, TypeOK
<1>3. \A c \in Conns : c # Shared => /\ conn'[c] = conn[c] /\ wire'[c] = wire[c]
                                     /\ inbox'[c] = inbox[c] /\ multi'[c] = multi[c]
                                     /\ queued'[c] = queued[c]
  BY <1>1 DEF Drop, RetriesExhausted, Reconnect, redis, TypeOK
<1>4. /\ wire'[Shared] = <<>> \/ wire'[Shared] = wire[Shared]
      /\ inbox'[Shared] = <<>> \/ inbox'[Shared] = inbox[Shared]
  BY <1>1 DEF Drop, RetriesExhausted, Reconnect, TypeOK
<1>5. /\ \A t \in Txs : reply'[t] = reply[t]
      /\ \A p \in Pipes, i \in Commands :
           reply'[p][i] = reply[p][i] \/ (reply'[p][i] = "error" /\ reply[p][i] = "none")
  <2>1. CASE Reconnect
    BY <2>1 DEF Reconnect
  <2>2. CASE RejectPending(Shared)
    <3>1. \A t \in Txs : t \in Requests /\ ConnOf(t) # Shared
      BY Sets
    <3>2. \A p \in Pipes, i \in Commands : p \in Requests /\ i \in Steps
      BY Sets
    <3> QED
      BY <1>1, <2>2, <3>1, <3>2, Rejects
  <2> QED
    BY <2>1, <2>2 DEF Drop, RetriesExhausted
<1>6. Sent \subseteq Sent'
  BY <1>2, <1>5 DEF Sent
<1>7. \A p \in Pipes, i \in Commands : Ran(p, i)' = Ran(p, i)
  BY <1>2 DEF Ran, Blocks
<1>8. 1 .. Len(<<>>) = {}
  BY EmptyIsSeq
<1>9. SharedWire'
  BY <1>1, <1>2, <1>4, <1>6, <1>8 DEF PipeInv, SharedWire
<1>10. SharedReplies'
  BY <1>1, <1>4, <1>5, <1>7, <1>8 DEF PipeInv, SharedReplies
<1>11. SharedOrder'
  BY <1>1, <1>4, <1>6, <1>7, <1>8 DEF PipeInv, SharedOrder
<1>12. \A t \in Txs : Local(t)' = Local(t)
  BY <1>1, <1>2, <1>3, <1>5 DEF Local
<1> QED
  BY <1>2, <1>9, <1>10, <1>11, <1>12, StepOfShared DEF PipeInv
\* Redis runs the next command of the shared connection.
LEMMA RedisShared ==
  ASSUME Inv, TypeOK', Redis(Shared)
  PROVE  /\ Inv'
         /\ \E p \in Pipes, i \in Commands : /\ log' = Append(log, << <<p, i>> >>)
                                             /\ \A j \in i .. Size : ~Ran(p, j)
<1> DEFINE w == wire[Shared]
           call == Head(w)
<1>1. /\ TypeOK /\ PipeInv /\ Shared \in Conns /\ w # <<>> /\ conn[Shared] = "up"
      /\ w \in Seq(Calls) /\ inbox[Shared] \in Seq(Calls \X BOOLEAN)
      /\ \A t \in Txs : t \in Conns /\ t # Shared
  BY Sets DEF Inv, TypeOK, Redis
<1>2. UNCHANGED <<pc, at, reply, conn>>
  BY DEF Redis, handlers
<1>3. /\ wire'[Shared] = Tail(w) /\ \A c \in Conns : c # Shared => wire'[c] = wire[c]
  BY <1>1 DEF Redis, TypeOK
<1>4. /\ Len(w) \in Nat \ {0} /\ call = w[1] /\ Len(wire'[Shared]) = Len(w) - 1
      /\ \A k \in 1 .. Len(w) - 1 : wire'[Shared][k] = w[k + 1]
  BY <1>1, <1>3, Shifted
<1>5. /\ multi[Shared] = "no" /\ \A k \in 1 .. Len(w) : w[k] \in Sent
      /\ \A j, k \in 1 .. Len(w) : j < k /\ w[j][1] = w[k][1] => w[j][2] < w[k][2]
  BY <1>1 DEF PipeInv, SharedWire
<1>6. PICK p \in Pipes, i \in Commands : call = <<p, i>>
  BY <1>4, <1>5 DEF Sent
<1>7. call[1] = p /\ call[2] = i /\ call \in Sent /\ p \notin Txs
  BY <1>4, <1>5, <1>6, Sets
<1>8. PICK ok \in BOOLEAN :
        /\ CASE call[1] \in Txs /\ call[2] = MultiStep -> ok /\ RedisMulti(Shared)
             [] call[1] \in Txs /\ call[2] = ExecStep -> RedisExec(Shared, ok)
             [] OTHER -> RedisQueues(Shared, call, ok) \/ RedisRuns(Shared, call)
        /\ inbox' = [inbox EXCEPT ![Shared] =
                       IF conn[Shared] = "up" THEN Append(@, <<call, ok>>) ELSE @]
  BY DEF Redis
<1> HIDE DEF call, w
<1>9. log' = Append(log, << <<p, i>> >>) /\ UNCHANGED <<multi, queued>>
  BY <1>5, <1>6, <1>7, <1>8 DEF RedisQueues, RedisRuns
<1>10. Blocks' = Blocks \cup {<< <<p, i>> >>}
  <2>1. << <<p, i>> >> \in Seq(Calls)
    BY Sets DEF Calls
  <2> QED
    BY <1>1, <1>9, <2>1, BlocksGrow
<1>11. \A q \in Pipes, j \in Commands : Ran(q, j)' <=> Ran(q, j) \/ (q = p /\ j = i)
  BY <1>10, BlocksDiffer DEF Ran
<1>12. Sent' = Sent
  BY <1>2 DEF Sent
<1>13. \A k \in 1 .. Len(wire'[Shared]) :
         k + 1 \in 1 .. Len(w) /\ 1 < k + 1 /\ wire'[Shared][k] = w[k + 1]
  BY <1>4
<1>14. SharedWire'
  <2>1. ASSUME NEW j \in 1 .. Len(wire'[Shared]), NEW k \in 1 .. Len(wire'[Shared]), j < k,
               wire'[Shared][j][1] = wire'[Shared][k][1]
        PROVE  wire'[Shared][j][2] < wire'[Shared][k][2]
    <3>1. j + 1 < k + 1
      BY <1>4, <2>1
    <3> QED
      BY <1>5, <1>13, <2>1, <3>1
  <2> QED
    BY <1>5, <1>9, <1>12, <1>13, <2>1 DEF SharedWire
<1>15. SharedOrder'
  <2> SUFFICES ASSUME NEW q \in Pipes, NEW j \in Commands, Ran(q, j)'
               PROVE  /\ <<q, j>> \in Sent
                      /\ \A k \in 1 .. Len(wire'[Shared]) :
                           wire'[Shared][k][1] = q => j < wire'[Shared][k][2]
    BY <1>12 DEF SharedOrder
  <2>1. CASE Ran(q, j)
    BY <1>1, <1>13, <2>1 DEF PipeInv, SharedOrder, w
  <2>2. CASE q = p /\ j = i
    <3>1. 1 \in 1 .. Len(w) /\ w[1][1] = p /\ w[1][2] = i
      BY <1>4, <1>7
    <3> QED
      BY <1>5, <1>6, <1>7, <1>13, <2>2, <3>1
  <2> QED
    BY <1>11, <2>1, <2>2
<1>16. /\ inbox'[Shared] = Append(inbox[Shared], <<call, ok>>)
       /\ \A c \in Conns : c # Shared => inbox'[c] = inbox[c]
  BY <1>1, <1>8 DEF TypeOK
<1>17. SharedReplies'
  <2>1. ASSUME NEW k \in 1 .. Len(inbox'[Shared])
        PROVE  \E q \in Pipes, j \in Commands :
                 inbox'[Shared][k][1] = <<q, j>> /\ (Ran(q, j) \/ (q = p /\ j = i))
    <3>1. <<call, ok>> \in Calls \X BOOLEAN
      BY <1>6, Sets DEF Calls
    <3>2. \/ k \in 1 .. Len(inbox[Shared]) /\ inbox'[Shared][k] = inbox[Shared][k]
          \/ inbox'[Shared][k] = <<call, ok>>
      <4>1. Len(inbox[Shared]) \in Nat
        BY <1>1
      <4> QED
        BY <1>1, <1>16, <3>1, <4>1, Appended
    <3>3. CASE k \in 1 .. Len(inbox[Shared]) /\ inbox'[Shared][k] = inbox[Shared][k]
      BY <1>1, <3>3 DEF PipeInv, SharedReplies
    <3>4. CASE inbox'[Shared][k] = <<call, ok>>
      BY <1>6, <3>4
    <3> QED
      BY <3>2, <3>3, <3>4
  <2>2. \A q \in Pipes, j \in Commands : reply'[q][j] = "ok" => Ran(q, j)
    BY <1>1, <1>2 DEF PipeInv, SharedReplies
  <2> QED
    BY <1>11, <2>1, <2>2 DEF SharedReplies
<1>18. \A t \in Txs : Local(t)' = Local(t)
  BY <1>1, <1>2, <1>3, <1>9, <1>16 DEF Local
<1>19. ASSUME NEW j \in i .. Size PROVE ~Ran(p, j)
  <2>1. j \in Commands /\ ~(i > j)
    BY DEF Commands
  <2>2. 1 \in 1 .. Len(w) /\ w[1][1] = p /\ w[1][2] = i
    BY <1>4, <1>7
  <2> QED
    BY <1>1, <2>1, <2>2 DEF PipeInv, SharedOrder, w
<1> QED
  BY <1>9, <1>14, <1>15, <1>17, <1>18, <1>19, StepOfShared DEF PipeInv
-----------------------------------------------------------------------------
(* The invariant, and the properties that follow from it *)

\* Nothing has happened at the start.
LEMMA InvInit == Init => Inv
<1> SUFFICES ASSUME Init PROVE Inv
  OBVIOUS
<1> USE Sets DEF Init
<1>1. TypeOK
  <2>1. /\ pc \in [Requests -> {"new", "connecting", "waiting", "done"}]
        /\ at \in [Requests -> Steps]
        /\ reply \in [Requests -> [Steps -> {"none", "ok", "error", "invalid"}]]
        /\ answer \in [Requests -> {"none", "results", "error", "timeout"}]
        /\ conn \in [Conns -> {"none", "opening", "up", "down"}]
        /\ multi \in [Conns -> {"no", "open", "dirty"}]
    OBVIOUS
  <2>2. wire \in [Conns -> Seq(Calls)] /\ queued \in [Conns -> Seq(Calls)]
    BY EmptyIsSeq
  <2>3. inbox \in [Conns -> Seq(Calls \X BOOLEAN)] /\ log \in Seq(Seq(Calls))
    BY EmptyIsSeq
  <2> QED
    BY <2>1, <2>2, <2>3 DEF TypeOK
<1>2. Blocks = {} /\ Isolated
  BY DEF Blocks, Isolated
<1>3. ASSUME NEW t \in Txs PROVE TxInv(t)
  <2>1. t \in Requests /\ t \in Conns /\ t # Shared
    OBVIOUS
  <2>2. /\ at[t] = MultiStep /\ wire[t] = <<>> /\ inbox[t] = <<>>
        /\ multi[t] = "no" /\ conn[t] # "up" /\ \A s \in Steps : reply[t][s] = "none"
    BY <2>1
  <2> QED
    BY <1>2, <2>2 DEF TxInv, Idle, Asking, Answered, Replied, Executed
<1>4. PipeInv
  <2>1. wire[Shared] = <<>> /\ inbox[Shared] = <<>> /\ multi[Shared] = "no"
    OBVIOUS
  <2>2. \A p \in Pipes, i \in Commands : reply[p][i] = "none"
    OBVIOUS
  <2>3. 1 .. Len(<<>>) = {}
    BY EmptyIsSeq
  <2> QED
    BY <1>2, <2>1, <2>2, <2>3 DEF PipeInv, SharedWire, SharedReplies, SharedOrder, Ran
<1> QED
  BY <1>1, <1>2, <1>3, <1>4 DEF Inv

\* Every step keeps the invariant.
LEMMA InvStep == Inv /\ [Next]_vars => Inv'
<1> SUFFICES ASSUME Inv, [Next]_vars PROVE Inv'
  OBVIOUS
<1>1. TypeOK'
  BY TypeStep DEF Inv
<1>2. ASSUME NEW t \in Txs, Transaction(t) PROVE Inv'
  BY <1>1, <1>2, HandlerEnds, ConnectStep, ConnectedStep, ProceedStep DEF Transaction
<1>3. ASSUME NEW t \in Txs, Forget(t) PROVE Inv'
  BY <1>1, <1>3, ForgetStep
<1>4. ASSUME NEW p \in Pipes, Pipeline(p) PROVE Inv'
  BY <1>1, <1>4, SubmitStep, AnswerStep DEF Pipeline
<1>5. ASSUME NEW r \in Requests, RequestTimesOut(r) PROVE Inv'
  BY <1>1, <1>5, AnswerStep
<1>6. ASSUME NEW c \in Conns, Deliver(c) \/ Drop(c) \/ Redis(c) PROVE Inv'
  <2>1. CASE c \in Txs
    BY <1>1, <1>6, <2>1, DeliverStep, DropStep, RedisStep
  <2>2. CASE c = Shared
    BY <1>1, <1>6, <2>2, DeliverShared, SharedLost, RedisShared
  <2> QED
    BY <2>1, <2>2, Sets
<1>7. CASE Reconnect \/ RetriesExhausted
  BY <1>1, <1>7, SharedLost
<1>8. CASE UNCHANGED vars
  <2>1. UNCHANGED <<pc, at, reply, conn, wire, inbox, multi, queued, log>>
    BY <1>8 DEF vars, handlers, redis
  <2>2. \A t \in Txs : Local(t)' = Local(t)
    BY <2>1 DEF Local
  <2>3. SharedLocal' = SharedLocal /\ \A p \in Pipes, i \in Commands : Ran(p, i)' = Ran(p, i)
    BY <2>1 DEF SharedLocal, Ran, Blocks
  <2>4. PipeInv'
    BY <2>1, <2>3, PipesUndisturbed DEF Inv
  <2> QED
    BY <1>1, <2>1, <2>2, <2>4, StepOfShared
<1> QED
  BY <1>2, <1>3, <1>4, <1>5, <1>6, <1>7, <1>8 DEF Next

\* The invariant holds for any number of requests and commands.
THEOREM InvHolds == Spec => []Inv
<1> QED
  BY InvInit, InvStep, PTL DEF Spec

\* TypeOK holds, and with it every step of every request is a known one: no
\* round trip follows EXEC (multi-exec.ts:79-86).
THEOREM TypeCorrect == Spec => []TypeOK
<1>1. Inv => TypeOK
  BY DEF Inv
<1> QED
  BY <1>1, InvHolds, PTL

\* Isolated holds: however many transactions and pipelines run, every block
\* that Redis executes is one transaction's body, whole and in its order, or a
\* single plain command (multi-exec.ts:73).
THEOREM BlocksAreWhole == Spec => []Isolated
<1>1. Inv => Isolated
  BY DEF Inv
<1> QED
  BY <1>1, InvHolds, PTL

\* Where a command was executed: within its transaction's block, or alone.
LEMMA WhereItRan ==
  ASSUME Inv
  PROVE  /\ \A t \in Txs : Runs(<<t, 1>>) # {} => Executed(t)
         /\ \A p \in Pipes, i \in Commands : Runs(<<p, i>>) # {} <=> Ran(p, i)
<1>1. \A k \in DOMAIN log : \/ \E t \in Txs : log[k] = Body(t)
                            \/ \E p \in Pipes, i \in Commands : log[k] = << <<p, i>> >>
  BY DEF Inv, Isolated
<1>2. ASSUME NEW t \in Txs, NEW call, Contains(Body(t), call) PROVE call[1] = t
  <2>1. Len(Body(t)) = Size /\ \A i \in 1 .. Size : Body(t)[i] = <<t, i>>
    BY Sets, BodyIsSeq DEF Commands
  <2> QED
    BY <1>2, <2>1 DEF Contains
<1>3. ASSUME NEW e, NEW call PROVE Contains(<<e>>, call) <=> call = e
  BY DEF Contains
<1>4. ASSUME NEW t \in Txs, NEW k \in DOMAIN log, Contains(log[k], <<t, 1>>)
      PROVE  Executed(t)
  <2>1. CASE \E u \in Txs : log[k] = Body(u)
    BY <1>2, <1>4, <2>1 DEF Executed, Blocks
  <2>2. CASE \E p \in Pipes, i \in Commands : log[k] = << <<p, i>> >>
    BY <1>3, <1>4, <2>2, Sets
  <2> QED
    BY <1>1, <2>1, <2>2
<1>5. ASSUME NEW p \in Pipes, NEW i \in Commands, NEW k \in DOMAIN log
      PROVE  Contains(log[k], <<p, i>>) <=> log[k] = << <<p, i>> >>
  <2>1. CASE \E u \in Txs : log[k] = Body(u)
    <3>1. \A u \in Txs : Body(u) # << <<p, i>> >> /\ u # p
      BY Sets, BlocksDiffer
    <3> QED
      BY <1>2, <2>1, <3>1
  <2>2. CASE \E q \in Pipes, j \in Commands : log[k] = << <<q, j>> >>
    BY <1>3, <2>2
  <2> QED
    BY <1>1, <2>1, <2>2
<1> QED
  BY <1>4, <1>5 DEF Runs, Ran, Blocks

\* FailedEarlyNeverRuns holds: a handler that ended before it sent EXEC leaves
\* nothing on any connection that Redis could still execute.
THEOREM EarlyFailureIsFinal == Spec => []FailedEarlyNeverRuns
<1>1. Inv => FailedEarlyNeverRuns
  BY WhereItRan DEF Inv, TxInv, Replied, FailedEarlyNeverRuns
<1> QED
  BY <1>1, InvHolds, PTL

\* EntriesMatch holds: an entry that failed validation was not executed, and
\* an entry with a result was (pipeline.ts:43-83).
THEOREM EntriesAreTheirOwn == Spec => []EntriesMatch
<1>1. ASSUME Inv PROVE EntriesMatch
  <2>1. SharedReplies /\ SharedOrder
    BY <1>1 DEF Inv, PipeInv
  <2> QED
    BY <1>1, <2>1, WhereItRan DEF SharedReplies, SharedOrder, Sent, EntriesMatch
<1> QED
  BY <1>1, InvHolds, PTL
-----------------------------------------------------------------------------
(* AtomicStore *)

\* A response is told once, and "results" only of an executed transaction.
LEMMA Responds ==
  ASSUME TypeOK, NEW r \in Requests, NEW a \in {"results", "error", "timeout"},
         answer' = [answer EXCEPT ![r] = IF @ = "none" THEN a ELSE @], log' = log,
         a = "results" /\ r \in Txs => Executed(r)
  PROVE  [Store!Next]_<<log, answer>>
<1>1. CASE answer[r] = "none"
  <2>1. answer' = [answer EXCEPT ![r] = a]
    BY <1>1
  <2>2. a = "results" /\ r \in Txs => Store!Body(r) \in Store!Blocks
    BY DEF Executed, Body, Commands, Blocks, Store!Body, Store!Blocks
  <2>3. Store!Tell(r, a)
    BY <1>1, <2>1, <2>2 DEF Store!Tell
  <2> QED
    BY <2>3 DEF Store!Next, Store!Requests, Requests
<1>2. CASE answer[r] # "none"
  <2>1. answer' = answer
    BY <1>2 DEF TypeOK
  <2> QED
    BY <2>1
<1> QED
  BY <1>1, <1>2

\* Every step is a step of AtomicStore, or none.
LEMMA StoreStep == Inv /\ [Next]_vars => [Store!Next]_<<log, answer>>
<1> SUFFICES ASSUME Inv, [Next]_vars PROVE [Store!Next]_<<log, answer>>
  OBVIOUS
<1>1. TypeOK /\ TypeOK'
  BY TypeStep DEF Inv
<1>2. ASSUME NEW t \in Txs, Transaction(t) PROVE [Store!Next]_<<log, answer>>
  <2>1. t \in Requests
    BY Sets
  <2>2. CASE Complete(t)
    <3>1. Executed(t)
      BY <2>2 DEF Complete, Inv, TxInv, Replied
    <3>2. answer' = [answer EXCEPT ![t] = IF @ = "none" THEN "results" ELSE @] /\ log' = log
      BY <2>2 DEF Complete, Finish, Respond, redis
    <3> QED
      BY <1>1, <2>1, <3>1, <3>2, Responds
  <2>3. CASE Reject(t) \/ ConnectFails(t) \/ StepFails(t) \/ StepTimesOut(t)
    <3>1. answer' = [answer EXCEPT ![t] = IF @ = "none" THEN "error" ELSE @] /\ log' = log
      BY <2>3 DEF Reject, ConnectFails, StepFails, StepTimesOut, Finish, Respond, redis
    <3> QED
      BY <1>1, <2>1, <3>1, Responds
  <2>4. CASE Connect(t) \/ Connected(t) \/ Proceed(t)
    BY <2>4 DEF Connect, Connected, Proceed, redis
  <2> QED
    BY <1>2, <2>2, <2>3, <2>4 DEF Transaction
<1>3. ASSUME NEW p \in Pipes, Pipeline(p) PROVE [Store!Next]_<<log, answer>>
  <2>1. p \in Requests /\ p \notin Txs
    BY Sets
  <2>2. CASE Settle(p)
    <3>1. answer' = [answer EXCEPT ![p] = IF @ = "none" THEN "results" ELSE @] /\ log' = log
      BY <2>2 DEF Settle, Respond, redis
    <3> QED
      BY <1>1, <2>1, <3>1, Responds
  <2>3. CASE \E invalid \in SUBSET Commands : Submit(p, invalid)
    BY <2>3 DEF Submit, redis
  <2> QED
    BY <1>3, <2>2, <2>3 DEF Pipeline
<1>4. ASSUME NEW r \in Requests, RequestTimesOut(r) PROVE [Store!Next]_<<log, answer>>
  <2>1. /\ answer' = [answer EXCEPT ![r] = IF @ = "none" THEN "timeout" ELSE @]
        /\ log' = log
    BY <1>4 DEF RequestTimesOut, redis
  <2> QED
    BY <1>1, <2>1, Responds
<1>5. ASSUME NEW t \in Txs, Redis(t) PROVE [Store!Next]_<<log, answer>>
  <2>1. log' = log \/ (log' = Append(log, Body(t)) /\ ~Executed(t))
    BY <1>1, <1>5, RedisStep
  <2>2. answer' = answer
    BY <1>5 DEF Redis, handlers
  <2>3. ASSUME log' = Append(log, Body(t)), ~Executed(t) PROVE Store!Next
    <3>1. Store!Body(t) = Body(t) /\ Store!Blocks = Blocks
      BY DEF Body, Commands, Blocks, Store!Body, Store!Blocks
    <3>2. Store!ExecuteTransaction(t)
      BY <2>2, <2>3, <3>1 DEF Executed, Store!ExecuteTransaction
    <3> QED
      BY <3>2 DEF Store!Next
  <2> QED
    BY <2>1, <2>2, <2>3
<1>6. CASE Redis(Shared)
  <2>1. PICK p \in Pipes, i \in Commands : /\ log' = Append(log, << <<p, i>> >>)
                                           /\ \A j \in i .. Size : ~Ran(p, j)
    BY <1>1, <1>6, RedisShared
  <2>2. answer' = answer
    BY <1>6 DEF Redis, handlers
  <2>3. Store!Blocks = Blocks
    BY DEF Blocks, Store!Blocks
  <2>4. Store!ExecuteCommand(p, i)
    BY <2>1, <2>2, <2>3 DEF Ran, Store!ExecuteCommand
  <2> QED
    BY <2>4 DEF Store!Next, Commands
<1>7. ASSUME NEW c \in Conns, Deliver(c) \/ Drop(c) PROVE UNCHANGED <<log, answer>>
  BY <1>7 DEF Deliver, Drop, handlers, redis
<1>8. ASSUME \/ \E t \in Txs : Forget(t)
             \/ Reconnect \/ RetriesExhausted \/ UNCHANGED vars
      PROVE  UNCHANGED <<log, answer>>
  BY <1>8 DEF Forget, Reconnect, RetriesExhausted, vars, handlers, redis
<1> QED
  BY <1>2, <1>3, <1>4, <1>5, <1>6, <1>7, <1>8, Sets DEF Next

\* Atomic holds: the transactions and pipelines together implement AtomicStore,
\* so nothing is executed twice, a pipeline's commands run in the order of its
\* body, and "results" is told of a transaction only once it was executed.
THEOREM ImplementsAtomicStore == Spec => Atomic
<1>1. Init => Store!Init
  BY DEF Init, Store!Init, Requests, Store!Requests
<1>2. Inv /\ [Next]_vars => [Store!Next]_<<log, answer>>
  BY StoreStep
<1> QED
  BY <1>1, <1>2, InvHolds, PTL DEF Spec, Atomic, Store!Spec
=============================================================================
