------------------------- MODULE PatternConnection -------------------------
(***************************************************************************)
(* RawPatternConnection and createPatternSubscription: the raw RESP socket *)
(* behind a pattern subscription.  One connection goes through its connect *)
(* race, the single-flight AUTH / SELECT / PSUBSCRIBE handshake and its    *)
(* life as a push stream, while its timers fire, Redis answers late or not *)
(* at all, and either side closes.                                         *)
(*                                                                         *)
(* The values of one data callback are handled in a synchronous loop:      *)
(* while `chunk` is not 0 nothing else runs.                               *)
(***************************************************************************)
EXTENDS Integers, Sequences

CONSTANTS
  HasPassword, HasDb,   \* what the Redis URL asks of the handshake
  N                     \* bound: how many messages Redis publishes

ASSUME UrlAssumption == HasPassword \in BOOLEAN /\ HasDb \in BOOLEAN
ASSUME NAssumption == N \in Nat

\* The commands of connect() and psubscribe(), in order.
Setup == (IF HasPassword THEN <<"AUTH">> ELSE <<>>)
           \o (IF HasDb THEN <<"SELECT">> ELSE <<>>)
           \o <<"PSUBSCRIBE">>

Steps == 1 .. Len(Setup)

\* What Redis sends: the reply to a step (accepting it or not), a published
\* message, or bytes the parser rejects.
Reply(i, ok) == [kind |-> "reply", of |-> i, ok |-> ok]
Push(n) == [kind |-> "push", of |-> n, ok |-> TRUE]
Garbage == [kind |-> "garbage", of |-> 0, ok |-> FALSE]

VARIABLES
  pc,          \* "connecting", "awaiting", "open" or "failed"
  at,          \* the step being awaited (0 while connecting)
  socket,      \* is this.socket set?
  closed,      \* this.closed
  timedOut,    \* the connect timer has fired
  pending,     \* this.pending: steps awaiting a reply
  outcome,     \* how the awaited promise settled: "none", "ok" or "error"
  chunk,       \* values left in the data callback that is running
  delivered,   \* messages handed to onMessage
  transport,   \* "opening", "up", "reset" (by the peer), "terminated", "refused"
  toRedis,     \* steps written and not yet answered
  fromRedis,   \* values Redis has sent, not yet handled
  subscribed,  \* has Redis accepted the PSUBSCRIBE?
  published    \* messages published since

handler == <<pc, at, timedOut, outcome>>
link == <<socket, closed, pending, transport>>
wires == <<toRedis, fromRedis, subscribed, published>>
vars == <<handler, link, wires, chunk, delivered>>

Values == [kind : {"reply", "push", "garbage"}, of : 0 .. N + 3, ok : BOOLEAN]

TypeOK ==
  /\ pc \in {"connecting", "awaiting", "open", "failed"}
  /\ at \in {0} \cup Steps
  /\ socket \in BOOLEAN /\ closed \in BOOLEAN /\ timedOut \in BOOLEAN
  /\ pending \in Seq(Steps)
  /\ outcome \in {"none", "ok", "error"}
  /\ chunk \in 0 .. Len(fromRedis)
  /\ delivered \in Seq(1 .. N)
  /\ transport \in {"opening", "up", "reset", "terminated", "refused"}
  /\ toRedis \in Seq(Steps)
  /\ fromRedis \in Seq(Values)
  /\ subscribed \in BOOLEAN
  /\ published \in 0 .. N

Init ==
  /\ pc = "connecting" /\ at = 0
  /\ socket = FALSE /\ closed = FALSE /\ timedOut = FALSE
  /\ pending = <<>> /\ outcome = "none"
  /\ chunk = 0
  /\ delivered = <<>>
  /\ transport = "opening"
  /\ toRedis = <<>> /\ fromRedis = <<>>
  /\ subscribed = FALSE /\ published = 0

-----------------------------------------------------------------------------
(* Helpers *)

Idle == chunk = 0

\* handleClose, given the state the transport is left in: this.socket is
\* terminated and cleared, and the first close rejects what is pending.
HandleClose(left) ==
  /\ socket' = FALSE
  /\ transport' = IF socket /\ left = "up" THEN "terminated" ELSE left
  /\ closed' = TRUE
  /\ pending' = IF closed THEN pending ELSE <<>>

\* The await throws, and createPatternSubscription closes the connection.
Fail ==
  /\ pc' = "failed"
  /\ outcome' = "none"
  /\ HandleClose(transport)

\* How much of a command socket.write takes: only "none" is noticed.
Writes == {"all", "part", "none"}

\* sendCommand(step i): rejected when closed or when nothing could be written,
\* else pending.  Redis never answers a command it has a part of.
Send(i, hasSocket, written) ==
  /\ pc' = "awaiting" /\ at' = i
  /\ socket' = hasSocket
  /\ UNCHANGED <<closed, transport>>
  /\ IF closed \/ written = "none"
       THEN /\ outcome' = "error"
            /\ UNCHANGED <<pending, toRedis>>
       ELSE /\ outcome' = "none"
            /\ pending' = Append(pending, i)
            /\ toRedis' = IF written = "all" THEN Append(toRedis, i) ELSE toRedis

-----------------------------------------------------------------------------
(* The connect race *)

\* MUTANT of SocketOpens: a late socket is not terminated.
SocketOpensUnchecked ==
  /\ Idle /\ transport = "opening"
  /\ transport' = "up"
  /\ UNCHANGED <<handler, wires, socket, closed, pending, chunk, delivered>>

\* Bun.connect resolves: a socket nobody waits for is terminated at once.
SocketOpens ==
  /\ Idle /\ transport = "opening"
  /\ transport' = IF timedOut \/ closed THEN "terminated" ELSE "up"
  /\ UNCHANGED <<handler, wires, socket, closed, pending, chunk, delivered>>

ConnectRefused ==
  /\ Idle /\ transport = "opening"
  /\ IF pc = "connecting"
       THEN /\ pc' = "failed" /\ outcome' = "none"
            /\ HandleClose("refused")
       ELSE /\ transport' = "refused"
            /\ UNCHANGED <<pc, outcome, socket, closed, pending>>
  /\ UNCHANGED <<at, timedOut, wires, chunk, delivered>>

ConnectTimesOut ==
  /\ Idle /\ pc = "connecting" /\ transport = "opening"
  /\ timedOut' = TRUE
  /\ Fail
  /\ UNCHANGED <<at, wires, chunk, delivered>>

\* The await of the race resumes, possibly after the peer has closed again.
Connected(written) ==
  /\ Idle /\ pc = "connecting" /\ transport \in {"up", "reset"}
  /\ Send(1, TRUE, written)
  /\ UNCHANGED <<timedOut, fromRedis, subscribed, published, chunk, delivered>>

-----------------------------------------------------------------------------
(* The handshake *)

\* The await of a command resumes with its reply: the next command, or the
\* subscription is there.
StepAccepted(written) ==
  /\ Idle /\ pc = "awaiting" /\ outcome = "ok"
  /\ IF at < Len(Setup)
       THEN Send(at + 1, socket, written)
       ELSE /\ pc' = "open" /\ outcome' = "none"
            /\ UNCHANGED <<at, link, toRedis>>
  /\ UNCHANGED <<timedOut, fromRedis, subscribed, published, chunk, delivered>>

StepRejected ==
  /\ Idle /\ pc = "awaiting" /\ outcome = "error"
  /\ Fail
  /\ UNCHANGED <<at, timedOut, wires, chunk, delivered>>

\* MUTANT of CommandTimesOut: the timeout resolves the command.
CommandTimesOutQuietly ==
  /\ Idle /\ pc = "awaiting" /\ pending # <<>>
  /\ pending' = Tail(pending)
  /\ outcome' = "ok"
  /\ UNCHANGED <<pc, at, timedOut, socket, closed, transport, wires, chunk, delivered>>

\* MUTANT of CommandTimesOut: commands have no timer of their own.
CommandTimesOutIfClosed ==
  /\ Idle /\ pc = "awaiting" /\ pending # <<>> /\ closed
  /\ pending' = Tail(pending)
  /\ outcome' = "error"
  /\ UNCHANGED <<pc, at, timedOut, socket, closed, transport, wires, chunk, delivered>>

\* The 10 s timer of a command: its entry is removed, its promise rejected.
CommandTimesOut ==
  /\ Idle /\ pc = "awaiting" /\ pending # <<>>
  /\ pending' = Tail(pending)
  /\ outcome' = "error"
  /\ UNCHANGED <<pc, at, timedOut, socket, closed, transport, wires, chunk, delivered>>

-----------------------------------------------------------------------------
(* The data callback *)

\* MUTANT of Data: the parser returns one value too many.
DataMiscounted(k) ==
  /\ Idle /\ transport = "up"
  /\ k <= Len(fromRedis)
  /\ Garbage \notin {fromRedis[i] : i \in 1 .. k}
  /\ chunk' = k + 1
  /\ UNCHANGED <<handler, link, wires, delivered>>

\* A data event that carries the next k values.
Data(k) ==
  /\ Idle /\ transport = "up"
  /\ k <= Len(fromRedis)
  /\ Garbage \notin {fromRedis[i] : i \in 1 .. k}
  /\ chunk' = k
  /\ UNCHANGED <<handler, link, wires, delivered>>

\* A data event whose bytes the parser rejects: none of its values is
\* handled, and the connection is closed.
BadData(k) ==
  /\ Idle /\ transport = "up"
  /\ k <= Len(fromRedis)
  /\ Garbage \in {fromRedis[i] : i \in 1 .. k}
  /\ fromRedis' = SubSeq(fromRedis, k + 1, Len(fromRedis))
  /\ outcome' = IF pending # <<>> THEN "error" ELSE outcome
  /\ HandleClose("up")
  /\ UNCHANGED <<pc, at, timedOut, toRedis, subscribed, published, chunk, delivered>>

\* The next value of the chunk goes to the oldest pending command.
HandleReply ==
  LET v == Head(fromRedis) IN
  /\ chunk > 0 /\ pending # <<>>
  /\ chunk' = chunk - 1 /\ fromRedis' = Tail(fromRedis)
  /\ pending' = Tail(pending)
  /\ outcome' = IF v.ok THEN "ok" ELSE "error"
  /\ UNCHANGED <<pc, at, timedOut, socket, closed, transport, toRedis, subscribed, published, delivered>>

\* ... or, when none is pending, is a push: an error reply closes, a message
\* is handed over, anything else is ignored.
HandlePush ==
  LET v == Head(fromRedis) IN
  /\ chunk > 0 /\ pending = <<>>
  /\ chunk' = chunk - 1 /\ fromRedis' = Tail(fromRedis)
  /\ delivered' = IF v.kind = "push" THEN Append(delivered, v.of) ELSE delivered
  /\ IF v.kind = "reply" /\ ~v.ok THEN HandleClose(transport) ELSE UNCHANGED link
  /\ UNCHANGED <<handler, toRedis, subscribed, published>>

-----------------------------------------------------------------------------
(* Closing *)

\* The subscribe handler closes its subscription.
Close ==
  /\ Idle /\ pc = "open" /\ ~closed
  /\ HandleClose(transport)
  /\ UNCHANGED <<handler, wires, chunk, delivered>>

\* MUTANT of PeerCloses: the close event is not handled.
PeerClosesUnnoticed ==
  /\ Idle /\ transport = "up"
  /\ transport' = "reset"
  /\ UNCHANGED <<handler, wires, socket, closed, pending, chunk, delivered>>

\* The close or error event of the socket.
PeerCloses ==
  /\ Idle /\ transport = "up"
  /\ HandleClose("reset")
  /\ outcome' = IF pending # <<>> THEN "error" ELSE outcome
  /\ UNCHANGED <<pc, at, timedOut, wires, chunk, delivered>>

-----------------------------------------------------------------------------
(* Redis *)

RedisReplies(ok) ==
  /\ Idle /\ toRedis # <<>> /\ transport = "up"
  /\ toRedis' = Tail(toRedis)
  /\ fromRedis' = Append(fromRedis, Reply(Head(toRedis), ok))
  /\ subscribed' = (subscribed \/ (Head(toRedis) = Len(Setup) /\ ok))
  /\ UNCHANGED <<handler, link, published, chunk, delivered>>

\* Redis publishes once it has accepted the PSUBSCRIBE.
RedisPublishes ==
  /\ Idle /\ transport = "up" /\ subscribed /\ published < N
  /\ published' = published + 1
  /\ fromRedis' = Append(fromRedis, Push(published + 1))
  /\ UNCHANGED <<handler, link, toRedis, subscribed, chunk, delivered>>

RedisBabbles ==
  /\ Idle /\ transport = "up"
  /\ Garbage \notin {fromRedis[i] : i \in 1 .. Len(fromRedis)}
  /\ Len(fromRedis) <= N
  /\ fromRedis' = Append(fromRedis, Garbage)
  /\ UNCHANGED <<handler, link, toRedis, subscribed, published, chunk, delivered>>

-----------------------------------------------------------------------------

Handshake ==
  \/ \E written \in Writes : Connected(written) \/ StepAccepted(written)
  \/ StepRejected

Handle == HandleReply \/ HandlePush

Next ==
  \/ SocketOpens \/ ConnectRefused \/ ConnectTimesOut
  \/ Handshake
  \/ CommandTimesOut
  \/ \E k \in 1 .. N + 1 : Data(k) \/ BadData(k)
  \/ Handle
  \/ Close \/ PeerCloses
  \/ \E ok \in BOOLEAN : RedisReplies(ok)
  \/ RedisPublishes \/ RedisBabbles

Spec == Init /\ [][Next]_vars

\* The timers fire, resolved promises resume, a callback runs to its end.
LiveSpec == Spec /\ WF_vars(ConnectTimesOut) /\ WF_vars(CommandTimesOut)
                 /\ WF_vars(Handshake) /\ WF_vars(Handle)

-----------------------------------------------------------------------------
(* Properties *)

\* A value that is about to be taken as a command's reply is the reply to the
\* very command the handshake awaits: never a message, never a late reply to
\* an earlier command ("a pending reply is never a push", redis-pattern.ts:274).
RepliesMatched ==
  chunk > 0 /\ pending # <<>> =>
    /\ Head(pending) = at
    /\ Head(fromRedis).kind = "reply"
    /\ Head(fromRedis).of = at

\* A connection whose set-up failed, or that was closed after it, keeps no
\* live socket, also when the socket opens after the connect timer or the
\* close came before this.socket was set.
NoLeakedSocket == pc = "failed" \/ (pc = "open" /\ closed) => transport # "up"

\* A subscription that does not know it is closed has a live socket behind
\* it: the stream handler never waits on a dead one.
OpenMeansUp == pc = "open" /\ ~closed => socket /\ transport = "up"

\* The set-up succeeds or fails, whatever Redis does.
SetupSettles == pc \in {"connecting", "awaiting"} ~> pc \in {"open", "failed"}
=============================================================================
