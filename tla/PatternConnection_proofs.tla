----------------------- MODULE PatternConnection_proofs -----------------------
(***************************************************************************)
(* Proofs about the raw pattern connection, for any Redis URL and any      *)
(* number of published messages: types, no leaked socket, no subscription  *)
(* on a dead socket, and replies matched with their commands.              *)
(*                                                                         *)
(* Matching rests on the handshake being single-flight: at most the        *)
(* awaited command is pending (SingleFlight), so that what Redis still     *)
(* owes, and what it has sent, is at most the reply to this very command,  *)
(* and pushes only come behind the last reply (Conversation).              *)
(***************************************************************************)
EXTENDS PatternConnection, SequenceLemmas

Flags ==
  /\ pc \in {"connecting", "awaiting", "open", "failed"}
  /\ at \in {0} \cup Steps
  /\ socket \in BOOLEAN /\ closed \in BOOLEAN /\ timedOut \in BOOLEAN /\ subscribed \in BOOLEAN
  /\ outcome \in {"none", "ok", "error"}
  /\ transport \in {"opening", "up", "reset", "terminated", "refused"}

Queues ==
  /\ pending \in Seq(Steps)
  /\ delivered \in Seq(1 .. N)
  /\ toRedis \in Seq(Steps)
  /\ fromRedis \in Seq(Values)

Counters ==
  /\ chunk \in 0 .. Len(fromRedis)
  /\ published \in 0 .. N

\* A message has a number, and the values of the running callback are no
\* garbage.
WellFormed ==
  /\ \A i \in 1 .. Len(fromRedis) : fromRedis[i].kind = "push" => fromRedis[i].of \in 1 .. N
  /\ \A i \in 1 .. Len(fromRedis) : fromRedis[i].kind = "garbage" => fromRedis[i] = Garbage
  /\ \A i \in 1 .. chunk : fromRedis[i].kind # "garbage"

\* At most the awaited command is pending, and it is while nothing has settled.
SingleFlight ==
  IF pc = "awaiting" /\ outcome = "none" THEN pending = <<at>> /\ ~closed ELSE pending = <<>>

\* Where the socket is, by the state of the handler.
SocketFollowsHandler ==
  /\ transport = "reset" => closed
  /\ pc = "connecting" => ~socket
  /\ pc \in {"awaiting", "open"} /\ ~closed => socket /\ transport = "up"
  /\ pc = "awaiting" /\ closed /\ transport = "up" => outcome = "error" /\ socket
  /\ pc \in {"awaiting", "open"} => transport # "opening"
  /\ pc = "open" /\ closed => transport # "up"
  /\ pc = "failed" => closed /\ transport # "up"

IsReply(i) == i \in 1 .. Len(fromRedis) /\ fromRedis[i].kind = "reply"
IsPush(i) == i \in 1 .. Len(fromRedis) /\ fromRedis[i].kind = "push"

\* What Redis owes and has sent: before the handshake, while a command is
\* awaited, once it has been accepted, and of messages at any time.
NothingSaid == pc = "connecting" => toRedis = <<>> /\ ~subscribed /\ \A i \in Nat : ~IsReply(i)

OneReplyDue ==
  pc = "awaiting" /\ outcome = "none" =>
    /\ toRedis \in {<<>>, <<at>>}
    /\ \A i \in Nat : IsReply(i) => fromRedis[i].of = at /\ toRedis = <<>>
    /\ \A i, j \in Nat : IsReply(i) /\ IsReply(j) => i = j
    /\ \A i \in Nat : IsPush(i) => \E j \in 1 .. i : IsReply(j)
    /\ subscribed => at = Len(Setup) /\ toRedis = <<>> /\ \E j \in Nat : IsReply(j)

NoReplyDue ==
  pc = "awaiting" /\ outcome = "ok" =>
    /\ toRedis = <<>> /\ \A i \in Nat : ~IsReply(i)
    /\ subscribed => at = Len(Setup)

PushesFollow == (\E i \in Nat : IsPush(i)) => subscribed

Conversation == NothingSaid /\ OneReplyDue /\ NoReplyDue /\ PushesFollow

Inv == Flags /\ Queues /\ Counters /\ WellFormed /\ SingleFlight /\ SocketFollowsHandler /\ Conversation
-----------------------------------------------------------------------------
(* The shape of a step *)

\* The handshake has one to three steps.
LEMMA SetupSteps == Len(Setup) \in 1 .. 3 /\ Steps = 1 .. Len(Setup) /\ 1 \in Steps
<1>1. CASE HasPassword /\ HasDb
  BY <1>1 DEF Setup, Steps
<1>2. CASE HasPassword /\ ~HasDb
  BY <1>2 DEF Setup, Steps
<1>3. CASE ~HasPassword /\ HasDb
  BY <1>3 DEF Setup, Steps
<1>4. CASE ~HasPassword /\ ~HasDb
  BY <1>4 DEF Setup, Steps
<1> QED
  BY <1>1, <1>2, <1>3, <1>4, UrlAssumption

\* What a step may do to a queue: nothing, empty it, take from its front, or
\* append an element.
Takes(q, q2) == q # <<>> /\ q2 = Tail(q)

PendingMoves ==
  \/ pending' = pending
  \/ pending' = <<>>
  \/ Takes(pending, pending')
  \/ \E i \in Steps : pending' = Append(pending, i)

ToRedisMoves ==
  \/ toRedis' = toRedis
  \/ Takes(toRedis, toRedis')
  \/ \E i \in Steps : toRedis' = Append(toRedis, i)

FromRedisMoves ==
  \/ fromRedis' = fromRedis /\ chunk' = chunk
  \/ fromRedis' = fromRedis /\ chunk = 0 /\ chunk' \in 0 .. Len(fromRedis)
       /\ \A i \in 1 .. chunk' : fromRedis[i] # Garbage
  \/ fromRedis # <<>> /\ chunk > 0 /\ fromRedis' = Tail(fromRedis) /\ chunk' = chunk - 1
  \/ chunk = 0 /\ chunk' = 0
       /\ \E k \in 0 .. Len(fromRedis) : fromRedis' = SubSeq(fromRedis, k + 1, Len(fromRedis))
  \/ chunk = 0 /\ chunk' = 0
       /\ \E i \in Steps, ok \in BOOLEAN : fromRedis' = Append(fromRedis, Reply(i, ok))
  \/ chunk = 0 /\ chunk' = 0
       /\ \E n \in 1 .. N : fromRedis' = Append(fromRedis, Push(n))
  \/ chunk = 0 /\ chunk' = 0 /\ fromRedis' = Append(fromRedis, Garbage)

DeliveredMoves ==
  \/ delivered' = delivered
  \/ \E n \in 1 .. N : delivered' = Append(delivered, n)

\* Every step of the specification moves its queues in one of these ways.
LEMMA NextMovesQueues ==
  ASSUME Flags, Queues, Counters, WellFormed, [Next]_vars
  PROVE  PendingMoves /\ ToRedisMoves /\ FromRedisMoves /\ DeliveredMoves
<1> USE SetupSteps, NAssumption DEF Flags, Counters, PendingMoves, ToRedisMoves, FromRedisMoves,
          DeliveredMoves, Takes, Idle, handler, link, wires
<1>1. CASE SocketOpens \/ ConnectRefused \/ ConnectTimesOut
  BY <1>1 DEF SocketOpens, ConnectRefused, ConnectTimesOut, Fail, HandleClose
<1>2. ASSUME NEW written \in Writes, Connected(written) \/ StepAccepted(written)
      PROVE  PendingMoves /\ ToRedisMoves /\ FromRedisMoves /\ DeliveredMoves
  BY <1>2 DEF Connected, StepAccepted, Send
<1>3. CASE StepRejected \/ CommandTimesOut
  BY <1>3 DEF StepRejected, CommandTimesOut, Fail, HandleClose
<1>4. ASSUME NEW k \in 1 .. N + 1, Data(k)
      PROVE  PendingMoves /\ ToRedisMoves /\ FromRedisMoves /\ DeliveredMoves
  BY <1>4 DEF Data
<1>5. ASSUME NEW k \in 1 .. N + 1, BadData(k)
      PROVE  PendingMoves /\ ToRedisMoves /\ FromRedisMoves /\ DeliveredMoves
  BY <1>5 DEF BadData, HandleClose
<1>6. CASE HandleReply
  BY <1>6 DEF HandleReply
<1>7. CASE HandlePush
  <2>1. fromRedis # <<>> /\ Head(fromRedis) = fromRedis[1] /\ 1 \in 1 .. Len(fromRedis)
    BY <1>7 DEF HandlePush, Queues
  <2> QED
    BY <1>7, <2>1 DEF HandlePush, HandleClose, WellFormed
<1>8. CASE Close \/ PeerCloses
  BY <1>8 DEF Close, PeerCloses, HandleClose
<1>9. ASSUME NEW ok \in BOOLEAN, RedisReplies(ok)
      PROVE  PendingMoves /\ ToRedisMoves /\ FromRedisMoves /\ DeliveredMoves
  <2>1. Head(toRedis) \in Steps
    BY <1>9, Shifted DEF RedisReplies, Queues
  <2> QED
    BY <1>9, <2>1 DEF RedisReplies
<1>10. CASE RedisPublishes \/ RedisBabbles
  BY <1>10 DEF RedisPublishes, RedisBabbles
<1>11. CASE UNCHANGED vars
  BY <1>11 DEF vars
<1> QED
  BY <1>1, <1>2, <1>3, <1>4, <1>5, <1>6, <1>7, <1>8, <1>9, <1>10, <1>11 DEF Next, Handshake, Handle

-----------------------------------------------------------------------------
(* Types *)

\* What Redis sends are values of the three kinds.
LEMMA SentAreValues ==
  /\ \A i \in Steps, ok \in BOOLEAN : Reply(i, ok) \in Values /\ Reply(i, ok).kind = "reply"
  /\ \A n \in 1 .. N : Push(n) \in Values /\ Push(n).kind = "push" /\ Push(n).of = n
  /\ Garbage \in Values /\ Garbage.kind = "garbage"
<1>1. Steps \subseteq 0 .. N + 3 /\ 1 .. N \subseteq 0 .. N + 3 /\ 0 \in 0 .. N + 3
  <2>1. ASSUME NEW n \in 1 .. 3 PROVE 1 .. n \subseteq 0 .. N + 3
    BY NAssumption
  <2>2. Steps \subseteq 0 .. N + 3
    BY <2>1, SetupSteps
  <2> QED
    BY <2>2, NAssumption
<1>2. ASSUME NEW i \in Steps, NEW ok \in BOOLEAN
      PROVE  Reply(i, ok) \in Values /\ Reply(i, ok).kind = "reply"
  BY <1>1 DEF Reply, Values
<1>3. ASSUME NEW n \in 1 .. N
      PROVE  Push(n) \in Values /\ Push(n).kind = "push" /\ Push(n).of = n
  BY <1>1 DEF Push, Values
<1>4. Garbage \in Values /\ Garbage.kind = "garbage"
  BY <1>1 DEF Garbage, Values
<1> QED
  BY <1>2, <1>3, <1>4

\* A queue moved in one of the ways of a step stays a sequence of its elements.
LEMMA MovedIsSeq ==
  ASSUME NEW S, NEW q \in Seq(S), NEW q2,
         q2 = q \/ q2 = <<>> \/ Takes(q, q2) \/ \E e \in S : q2 = Append(q, e)
  PROVE  q2 \in Seq(S)
<1>1. CASE q2 = <<>>
  BY <1>1
<1>2. CASE Takes(q, q2)
  BY <1>2, Shifted DEF Takes
<1>3. ASSUME NEW e \in S, q2 = Append(q, e) PROVE q2 \in Seq(S)
  BY <1>3
<1> QED
  BY <1>1, <1>2, <1>3

\* The queues keep their types.
LEMMA QueuesPreserved ==
  ASSUME Queues, PendingMoves, ToRedisMoves, FromRedisMoves, DeliveredMoves
  PROVE  Queues'
<1>1. pending' \in Seq(Steps)
  BY MovedIsSeq DEF PendingMoves, Queues
<1>2. toRedis' \in Seq(Steps)
  BY MovedIsSeq DEF ToRedisMoves, Queues
<1>3. delivered' \in Seq(1 .. N)
  BY MovedIsSeq DEF DeliveredMoves, Queues
<1>4. fromRedis' \in Seq(Values)
  <2>1. \/ fromRedis' = fromRedis \/ Takes(fromRedis, fromRedis')
        \/ \E v \in Values : fromRedis' = Append(fromRedis, v)
        \/ \E k \in 0 .. Len(fromRedis) : fromRedis' = SubSeq(fromRedis, k + 1, Len(fromRedis))
    BY SentAreValues DEF FromRedisMoves, Takes
  <2> QED
    BY <2>1, MovedIsSeq, CutFront DEF Queues
<1> QED
  BY <1>1, <1>2, <1>3, <1>4 DEF Queues

\* The values Redis sends keep their shape, and a callback handles no garbage.
LEMMA WellFormedPreserved ==
  ASSUME Queues, Counters, WellFormed, FromRedisMoves
  PROVE  WellFormed' /\ chunk' \in 0 .. Len(fromRedis')
<1> USE DEF Queues, Counters, WellFormed
<1>1. CASE fromRedis' = fromRedis /\ chunk' = chunk
  BY <1>1
<1>2. CASE /\ fromRedis' = fromRedis /\ chunk' \in 0 .. Len(fromRedis)
           /\ \A i \in 1 .. chunk' : fromRedis[i] # Garbage
  BY <1>2
<1>3. CASE fromRedis # <<>> /\ chunk > 0 /\ fromRedis' = Tail(fromRedis) /\ chunk' = chunk - 1
  <2>1. /\ Len(fromRedis') = Len(fromRedis) - 1 /\ Len(fromRedis) \in Nat
        /\ \A i \in 1 .. Len(fromRedis) - 1 : fromRedis'[i] = fromRedis[i + 1]
    BY <1>3, Shifted
  <2> QED
    BY <1>3, <2>1
<1>4. ASSUME chunk' = 0, NEW k \in 0 .. Len(fromRedis),
             fromRedis' = SubSeq(fromRedis, k + 1, Len(fromRedis))
      PROVE  WellFormed' /\ chunk' \in 0 .. Len(fromRedis')
  <2>1. /\ Len(fromRedis') = Len(fromRedis) - k /\ Len(fromRedis) \in Nat
        /\ \A i \in 1 .. Len(fromRedis) - k : fromRedis'[i] = fromRedis[i + k]
    BY <1>4, CutFront
  <2> QED
    BY <1>4, <2>1
<1>5. ASSUME chunk' = 0, NEW v \in Values, fromRedis' = Append(fromRedis, v),
             v.kind = "push" => v.of \in 1 .. N, v.kind = "garbage" => v = Garbage
      PROVE  WellFormed' /\ chunk' \in 0 .. Len(fromRedis')
  <2>1. /\ Len(fromRedis') = Len(fromRedis) + 1 /\ Len(fromRedis) \in Nat
        /\ \A i \in 1 .. Len(fromRedis) : fromRedis'[i] = fromRedis[i]
        /\ fromRedis'[Len(fromRedis) + 1] = v
    BY <1>5, Appended
  <2> QED
    BY <1>5, <2>1
<1> QED
  BY <1>1, <1>2, <1>3, <1>4, <1>5, SentAreValues DEF FromRedisMoves

\* The flags and the number of published messages keep their ranges.
LEMMA FlagsPreserved ==
  ASSUME Flags, published \in 0 .. N, [Next]_vars
  PROVE  Flags' /\ published' \in 0 .. N
<1> USE SetupSteps, NAssumption DEF Flags, Idle, handler, link, wires
<1>1. CASE SocketOpens \/ ConnectRefused \/ ConnectTimesOut
  BY <1>1 DEF SocketOpens, ConnectRefused, ConnectTimesOut, Fail, HandleClose
<1>2. ASSUME NEW written \in Writes, Connected(written) \/ StepAccepted(written)
      PROVE  Flags' /\ published' \in 0 .. N
  <2>1. CASE Connected(written)
    BY <1>2, <2>1 DEF Connected, Send
  <2>2. CASE StepAccepted(written)
    <3>1. at < Len(Setup) => at + 1 \in Steps
      BY DEF Flags
    <3> QED
      BY <2>2, <3>1 DEF StepAccepted, Send
  <2> QED
    BY <1>2, <2>1, <2>2
<1>3. CASE StepRejected \/ CommandTimesOut
  BY <1>3 DEF StepRejected, CommandTimesOut, Fail, HandleClose
<1>4. ASSUME NEW k \in 1 .. N + 1, Data(k) \/ BadData(k)
      PROVE  Flags' /\ published' \in 0 .. N
  BY <1>4 DEF Data, BadData, HandleClose
<1>5. CASE Handle
  BY <1>5 DEF Handle, HandleReply, HandlePush, HandleClose
<1>6. CASE Close \/ PeerCloses
  BY <1>6 DEF Close, PeerCloses, HandleClose
<1>7. ASSUME NEW ok \in BOOLEAN, RedisReplies(ok)
      PROVE  Flags' /\ published' \in 0 .. N
  BY <1>7 DEF RedisReplies
<1>8. CASE RedisPublishes \/ RedisBabbles
  BY <1>8 DEF RedisPublishes, RedisBabbles
<1>9. CASE UNCHANGED vars
  BY <1>9 DEF vars
<1> QED
  BY <1>1, <1>2, <1>3, <1>4, <1>5, <1>6, <1>7, <1>8, <1>9 DEF Next, Handshake

-----------------------------------------------------------------------------
(* The handler and its socket *)

\* At most the awaited command is pending.
LEMMA SingleFlightPreserved ==
  ASSUME Flags, Queues, SingleFlight, [Next]_vars
  PROVE  SingleFlight'
<1>0. pending # <<>> => Tail(pending) = <<>> /\ pc = "awaiting" /\ outcome = "none" /\ ~closed
  <2>1. Tail(<<at>>) = <<>>
    OBVIOUS
  <2> QED
    BY <2>1 DEF SingleFlight
<1> USE <1>0, SetupSteps DEF Flags, SingleFlight, Idle, handler, link, wires
<1>1. CASE SocketOpens \/ ConnectRefused \/ ConnectTimesOut
  BY <1>1 DEF SocketOpens, ConnectRefused, ConnectTimesOut, Fail, HandleClose
<1>2. ASSUME NEW written \in Writes, Connected(written) \/ StepAccepted(written)
      PROVE  SingleFlight'
  <2>1. pending = <<>>
    BY <1>2 DEF Connected, StepAccepted
  <2> QED
    BY <1>2, <2>1 DEF Connected, StepAccepted, Send
<1>3. CASE StepRejected \/ CommandTimesOut
  BY <1>3 DEF StepRejected, CommandTimesOut, Fail, HandleClose
<1>4. ASSUME NEW k \in 1 .. N + 1, Data(k) \/ BadData(k)
      PROVE  SingleFlight'
  <2>1. CASE Data(k)
    BY <2>1 DEF Data
  <2>2. CASE BadData(k)
    <3>1. /\ pc' = pc /\ (pending' = <<>> \/ (closed /\ pending' = pending))
          /\ outcome' = IF pending # <<>> THEN "error" ELSE outcome
      BY <2>2 DEF BadData, HandleClose
    <3>2. pending = <<>> => ~(pc = "awaiting" /\ outcome = "none")
      BY DEF SingleFlight
    <3> QED
      BY <3>1, <3>2
  <2> QED
    BY <1>4, <2>1, <2>2
<1>5. CASE Handle
  <2>1. CASE HandleReply
    BY <2>1 DEF HandleReply
  <2>2. CASE HandlePush
    BY <2>2 DEF HandlePush, HandleClose
  <2> QED
    BY <1>5, <2>1, <2>2 DEF Handle
<1>6. CASE Close \/ PeerCloses
  BY <1>6 DEF Close, PeerCloses, HandleClose
<1>7. ASSUME NEW ok \in BOOLEAN, RedisReplies(ok)
      PROVE  SingleFlight'
  BY <1>7 DEF RedisReplies
<1>8. CASE RedisPublishes \/ RedisBabbles
  BY <1>8 DEF RedisPublishes, RedisBabbles
<1>9. CASE UNCHANGED vars
  BY <1>9 DEF vars
<1> QED
  BY <1>1, <1>2, <1>3, <1>4, <1>5, <1>6, <1>7, <1>8, <1>9 DEF Next, Handshake

\* The socket follows the handler.
LEMMA SocketPreserved ==
  ASSUME Flags, SingleFlight, SocketFollowsHandler, [Next]_vars
  PROVE  SocketFollowsHandler'
<1> USE SetupSteps DEF Flags, SingleFlight, SocketFollowsHandler, Idle, handler, link, wires
<1>1. CASE SocketOpens \/ ConnectRefused \/ ConnectTimesOut
  BY <1>1 DEF SocketOpens, ConnectRefused, ConnectTimesOut, Fail, HandleClose
<1>2. ASSUME NEW written \in Writes, Connected(written) \/ StepAccepted(written)
      PROVE  SocketFollowsHandler'
  BY <1>2 DEF Connected, StepAccepted, Send
<1>3. CASE StepRejected \/ CommandTimesOut
  BY <1>3 DEF StepRejected, CommandTimesOut, Fail, HandleClose
<1>4. ASSUME NEW k \in 1 .. N + 1, Data(k) \/ BadData(k)
      PROVE  SocketFollowsHandler'
  BY <1>4 DEF Data, BadData, HandleClose
<1>5. CASE Handle
  BY <1>5 DEF Handle, HandleReply, HandlePush, HandleClose
<1>6. CASE Close \/ PeerCloses
  BY <1>6 DEF Close, PeerCloses, HandleClose
<1>7. ASSUME NEW ok \in BOOLEAN, RedisReplies(ok)
      PROVE  SocketFollowsHandler'
  BY <1>7 DEF RedisReplies
<1>8. CASE RedisPublishes \/ RedisBabbles
  BY <1>8 DEF RedisPublishes, RedisBabbles
<1>9. CASE UNCHANGED vars
  BY <1>9 DEF vars
<1> QED
  BY <1>1, <1>2, <1>3, <1>4, <1>5, <1>6, <1>7, <1>8, <1>9 DEF Next, Handshake

-----------------------------------------------------------------------------
(* The conversation with Redis *)

\* Cutting k values off the front leaves only replies and pushes there were.
LEMMA CutValues ==
  ASSUME Queues, NEW k \in 0 .. Len(fromRedis),
         fromRedis' = SubSeq(fromRedis, k + 1, Len(fromRedis))
  PROVE  \A i \in Nat : (IsReply(i)' => IsReply(i + k)) /\ (IsPush(i)' => IsPush(i + k))
<1>1. /\ Len(fromRedis') = Len(fromRedis) - k /\ Len(fromRedis) \in Nat
      /\ \A i \in 1 .. Len(fromRedis) - k : fromRedis'[i] = fromRedis[i + k]
  BY CutFront DEF Queues
<1> QED
  BY <1>1 DEF IsReply, IsPush

\* Handling the first value shifts the others by one.
LEMMA ShiftedValues ==
  ASSUME Queues, fromRedis # <<>>, fromRedis' = Tail(fromRedis)
  PROVE  \A i \in Nat : (IsReply(i)' => i > 0 /\ IsReply(i + 1)) /\ (IsPush(i)' => IsPush(i + 1))
<1>1. /\ Len(fromRedis') = Len(fromRedis) - 1 /\ Len(fromRedis) \in Nat
      /\ \A i \in 1 .. Len(fromRedis) - 1 : fromRedis'[i] = fromRedis[i + 1]
  BY Shifted DEF Queues
<1> QED
  BY <1>1 DEF IsReply, IsPush

\* Appending a value adds the one reply, or the one push, that it is.
LEMMA AppendedValues ==
  ASSUME Queues, NEW v \in Values, fromRedis' = Append(fromRedis, v)
  PROVE  LET n == Len(fromRedis) + 1 IN
         /\ n \in Nat \ {0} /\ fromRedis'[n] = v
         /\ \A i \in 1 .. n - 1 : fromRedis'[i] = fromRedis[i]
         /\ \A i \in Nat : IsReply(i)' <=> IsReply(i) \/ (i = n /\ v.kind = "reply")
         /\ \A i \in Nat : IsPush(i)' <=> IsPush(i) \/ (i = n /\ v.kind = "push")
         /\ \A i \in Nat : IsReply(i) \/ IsPush(i) => i \in 1 .. n - 1
<1>1. /\ Len(fromRedis') = Len(fromRedis) + 1 /\ Len(fromRedis) \in Nat
      /\ \A i \in 1 .. Len(fromRedis) : fromRedis'[i] = fromRedis[i]
      /\ fromRedis'[Len(fromRedis) + 1] = v
  BY Appended DEF Queues
<1> QED
  BY <1>1 DEF IsReply, IsPush

\* While a command is pending, a callback's first value is its reply.
LEMMA FirstIsReply ==
  ASSUME Flags, Queues, Counters, WellFormed, SingleFlight, OneReplyDue, chunk > 0, pending # <<>>
  PROVE  /\ pending = <<at>> /\ pc = "awaiting" /\ outcome = "none"
         /\ fromRedis # <<>> /\ Head(fromRedis) = fromRedis[1]
         /\ IsReply(1) /\ fromRedis[1].of = at
<1>1. pending = <<at>> /\ pc = "awaiting" /\ outcome = "none"
  BY DEF SingleFlight
<1>2. fromRedis # <<>> /\ Len(fromRedis) \in Nat \ {0}
  BY DEF Counters, Queues
<1>3. Head(fromRedis) = fromRedis[1] /\ fromRedis[1] \in Values
  BY <1>2, Shifted DEF Queues
<1>4. fromRedis[1].kind \in {"reply", "push"}
  BY <1>3 DEF Counters, WellFormed, Values
<1>5. IsReply(1)
  <2>1. CASE IsPush(1)
    BY <1>1, <2>1 DEF OneReplyDue
  <2>2. IsPush(1) \/ IsReply(1)
    BY <1>2, <1>4 DEF IsPush, IsReply
  <2> QED
    BY <2>1, <2>2
<1> QED
  BY <1>1, <1>2, <1>3, <1>5 DEF OneReplyDue

\* A step of the handshake is sent when all earlier ones are answered and no
\* message can have come.
LEMMA SendStartsConversation ==
  ASSUME Flags, Queues, NEW i \in Steps, NEW sock, NEW written \in Writes, Send(i, sock, written),
         UNCHANGED <<fromRedis, subscribed>>,
         toRedis = <<>>, ~subscribed, PushesFollow, \A j \in Nat : ~IsReply(j)
  PROVE  Conversation'
<1>1. \A j \in Nat : ~IsReply(j)' /\ ~IsPush(j)'
  BY DEF PushesFollow, IsReply, IsPush
<1>2. ~subscribed' /\ pc' = "awaiting" /\ outcome' # "ok"
  BY DEF Send
<1>3. outcome' = "none" => toRedis' \in {<<>>, <<at'>>}
  <2>1. Append(<<>>, i) = <<i>>
    OBVIOUS
  <2> QED
    BY <2>1 DEF Send
<1> QED
  BY <1>1, <1>2, <1>3 DEF Conversation, NothingSaid, OneReplyDue, NoReplyDue, PushesFollow

\* Redis says no more than what the handshake is due.
LEMMA ConversationPreserved ==
  ASSUME Flags, Queues, Counters, WellFormed, SingleFlight, Conversation, [Next]_vars
  PROVE  Conversation'
<1> USE DEF Conversation, Idle, handler, link, wires
<1>1. ASSUME UNCHANGED wires, \/ UNCHANGED <<pc, at, outcome>>
                              \/ pc' \in {"open", "failed"}
                              \/ pc' = pc /\ pc # "connecting" /\ outcome' = "error"
      PROVE  Conversation'
  BY <1>1 DEF NothingSaid, OneReplyDue, NoReplyDue, PushesFollow, IsReply, IsPush
<1>2. CASE SocketOpens \/ ConnectRefused \/ ConnectTimesOut
  BY <1>1, <1>2 DEF SocketOpens, ConnectRefused, ConnectTimesOut, Fail
<1>3. ASSUME NEW written \in Writes, Connected(written)
      PROVE  Conversation'
  BY <1>3, SetupSteps, SendStartsConversation DEF Connected, NothingSaid
<1>4. ASSUME NEW written \in Writes, StepAccepted(written)
      PROVE  Conversation'
  <2>1. CASE at < Len(Setup)
    <3>1. at + 1 \in Steps /\ ~subscribed /\ toRedis = <<>> /\ \A j \in Nat : ~IsReply(j)
      BY <1>4, <2>1, SetupSteps DEF Flags, StepAccepted, NoReplyDue
    <3> QED
      BY <1>4, <2>1, <3>1, SendStartsConversation DEF StepAccepted
  <2>2. CASE ~(at < Len(Setup))
    BY <1>1, <1>4, <2>2 DEF StepAccepted
  <2> QED
    BY <2>1, <2>2
<1>5. CASE StepRejected \/ CommandTimesOut
  BY <1>1, <1>5 DEF StepRejected, CommandTimesOut, Fail
<1>6. ASSUME NEW k \in 1 .. N + 1, Data(k)
      PROVE  Conversation'
  BY <1>1, <1>6 DEF Data
<1>7. ASSUME NEW k \in 1 .. N + 1, BadData(k)
      PROVE  Conversation'
  <2>1. /\ k \in 0 .. Len(fromRedis) /\ fromRedis' = SubSeq(fromRedis, k + 1, Len(fromRedis))
        /\ pc' = pc /\ at' = at /\ toRedis' = toRedis /\ subscribed' = subscribed
        /\ outcome' = IF pending # <<>> THEN "error" ELSE outcome
    BY <1>7, NAssumption DEF BadData, Queues
  <2>2. \A i \in Nat : (IsReply(i)' => IsReply(i + k)) /\ (IsPush(i)' => IsPush(i + k))
    BY <2>1, CutValues
  <2>3. PushesFollow' /\ NothingSaid' /\ NoReplyDue'
    BY <2>1, <2>2 DEF PushesFollow, NothingSaid, NoReplyDue
  <2>4. ~(pc' = "awaiting" /\ outcome' = "none")
    <3>1. pending = <<>> => ~(pc = "awaiting" /\ outcome = "none")
      BY DEF SingleFlight
    <3> QED
      BY <2>1, <3>1
  <2>5. OneReplyDue'
    BY <2>4 DEF OneReplyDue
  <2> QED
    BY <2>3, <2>5
<1>8. CASE HandleReply
  <2>1. IsReply(1) /\ fromRedis # <<>> /\ pc = "awaiting" /\ outcome = "none"
    BY <1>8, FirstIsReply DEF HandleReply
  <2>2. /\ pc' = pc /\ at' = at /\ toRedis' = toRedis /\ subscribed' = subscribed
        /\ outcome' \in {"ok", "error"} /\ fromRedis' = Tail(fromRedis)
    BY <1>8 DEF HandleReply
  <2>3. \A i \in Nat : (IsReply(i)' => i > 0 /\ IsReply(i + 1)) /\ (IsPush(i)' => IsPush(i + 1))
    BY <2>1, <2>2, ShiftedValues
  <2>4. \A i \in Nat : ~IsReply(i)'
    BY <2>1, <2>3 DEF OneReplyDue
  <2> QED
    BY <2>1, <2>2, <2>3, <2>4 DEF NothingSaid, OneReplyDue, NoReplyDue, PushesFollow
<1>9. CASE HandlePush
  <2>1. /\ fromRedis # <<>> /\ fromRedis' = Tail(fromRedis) /\ pending = <<>>
        /\ pc' = pc /\ at' = at /\ toRedis' = toRedis /\ subscribed' = subscribed /\ outcome' = outcome
    BY <1>9 DEF HandlePush, Counters, Queues
  <2>2. \A i \in Nat : (IsReply(i)' => i > 0 /\ IsReply(i + 1)) /\ (IsPush(i)' => IsPush(i + 1))
    BY <2>1, ShiftedValues
  <2>3. ~(pc = "awaiting" /\ outcome = "none")
    BY <2>1 DEF SingleFlight
  <2> QED
    BY <2>1, <2>2, <2>3 DEF NothingSaid, OneReplyDue, NoReplyDue, PushesFollow
<1>10. CASE Close \/ PeerCloses
  BY <1>1, <1>10 DEF Close, PeerCloses, SingleFlight
<1>11. ASSUME NEW ok \in BOOLEAN, RedisReplies(ok)
       PROVE  Conversation'
  <2>1. pc # "connecting" /\ ~(pc = "awaiting" /\ outcome = "ok")
    BY <1>11 DEF RedisReplies, NothingSaid, NoReplyDue
  <2>2. Head(toRedis) \in Steps
    BY <1>11, Shifted DEF RedisReplies, Queues
  <2>3. /\ pc' = pc /\ at' = at /\ outcome' = outcome /\ (subscribed => subscribed')
        /\ fromRedis' = Append(fromRedis, Reply(Head(toRedis), ok))
    BY <1>11 DEF RedisReplies, Flags
  <2>4. Reply(Head(toRedis), ok) \in Values /\ Reply(Head(toRedis), ok).kind = "reply"
    BY <2>2, SentAreValues
  <2>5. PushesFollow'
    BY <2>3, <2>4, AppendedValues DEF PushesFollow
  <2>6. CASE pc = "awaiting" /\ outcome = "none"
    <3>1. toRedis = <<at>> /\ toRedis' = <<>> /\ Head(toRedis) = at
      BY <1>11, <2>6 DEF RedisReplies, OneReplyDue
    <3>2. \A i \in Nat : ~IsReply(i) /\ ~IsPush(i)
      BY <2>6, <3>1 DEF OneReplyDue
    <3>3. subscribed' => at = Len(Setup)
      BY <1>11, <2>6, <3>1 DEF RedisReplies, OneReplyDue
    <3> DEFINE n == Len(fromRedis) + 1
    <3>4. /\ n \in Nat \ {0} /\ fromRedis'[n] = Reply(at, ok)
          /\ \A i \in Nat : IsReply(i)' <=> i = n
          /\ \A i \in Nat : ~IsPush(i)'
      BY <2>3, <2>4, <3>1, <3>2, AppendedValues, SentAreValues
    <3>5. Reply(at, ok).of = at
      BY DEF Reply
    <3> HIDE DEF n
    <3>6. OneReplyDue'
      BY <2>3, <2>6, <3>1, <3>3, <3>4, <3>5 DEF OneReplyDue
    <3> QED
      BY <2>3, <2>5, <2>6, <3>6 DEF NothingSaid, NoReplyDue
  <2>7. CASE ~(pc = "awaiting" /\ outcome = "none")
    BY <2>1, <2>3, <2>5, <2>7 DEF NothingSaid, OneReplyDue, NoReplyDue
  <2> QED
    BY <2>6, <2>7
<1>12. ASSUME NEW v \in Values, fromRedis' = Append(fromRedis, v), v.kind # "reply",
              v.kind = "push" => subscribed,
              UNCHANGED <<pc, at, outcome, toRedis, subscribed>>
       PROVE  Conversation'
  <2> DEFINE n == Len(fromRedis) + 1
  <2>1. /\ n \in Nat \ {0}
        /\ \A i \in 1 .. n - 1 : fromRedis'[i] = fromRedis[i]
        /\ \A i \in Nat : IsReply(i)' <=> IsReply(i)
        /\ \A i \in Nat : IsPush(i)' <=> IsPush(i) \/ (i = n /\ v.kind = "push")
        /\ \A i \in Nat : IsReply(i) \/ IsPush(i) => i \in 1 .. n - 1
    BY <1>12, AppendedValues
  <2> HIDE DEF n
  <2>2. NothingSaid' /\ NoReplyDue' /\ PushesFollow'
    BY <1>12, <2>1 DEF NothingSaid, NoReplyDue, PushesFollow
  <2>3. OneReplyDue'
    <3> SUFFICES ASSUME pc' = "awaiting", outcome' = "none"
                 PROVE  OneReplyDue'
      BY DEF OneReplyDue
    <3>1. /\ toRedis' \in {<<>>, <<at'>>}
          /\ \A i \in Nat : IsReply(i)' => fromRedis'[i].of = at' /\ toRedis' = <<>>
          /\ \A i, j \in Nat : IsReply(i)' /\ IsReply(j)' => i = j
          /\ subscribed' => at' = Len(Setup) /\ toRedis' = <<>> /\ \E j \in Nat : IsReply(j)'
      BY <1>12, <2>1 DEF OneReplyDue
    <3>2. ASSUME NEW i \in Nat, IsPush(i)' PROVE \E j \in 1 .. i : IsReply(j)'
      <4>1. CASE IsPush(i)
        BY <1>12, <2>1, <4>1 DEF OneReplyDue
      <4>2. CASE i = n /\ v.kind = "push"
        BY <1>12, <2>1, <4>2 DEF OneReplyDue
      <4> QED
        BY <2>1, <3>2, <4>1, <4>2
    <3> QED
      BY <3>1, <3>2 DEF OneReplyDue
  <2> QED
    BY <2>2, <2>3
<1>13. CASE RedisPublishes \/ RedisBabbles
  <2>1. CASE RedisPublishes
    <3>1. published + 1 \in 1 .. N
      BY <2>1, NAssumption DEF RedisPublishes, Counters
    <3> QED
      BY <1>12, <2>1, <3>1, SentAreValues DEF RedisPublishes
  <2>2. CASE RedisBabbles
    BY <1>12, <2>2, SentAreValues DEF RedisBabbles
  <2> QED
    BY <1>13, <2>1, <2>2
<1>14. CASE UNCHANGED vars
  BY <1>1, <1>14 DEF vars
<1> QED
  BY <1>2, <1>3, <1>4, <1>5, <1>6, <1>7, <1>8, <1>9, <1>10, <1>11, <1>13, <1>14
     DEF Next, Handshake, Handle

-----------------------------------------------------------------------------
(* The invariant and what follows from it *)

\* The invariant holds when createPatternSubscription starts to connect.
LEMMA InitInv == Init => Inv
<1> SUFFICES ASSUME Init PROVE Inv
  OBVIOUS
<1> USE DEF Init
<1>1. Flags
  BY DEF Flags
<1>2. Queues
  BY EmptyIsSeq DEF Queues
<1>3. Len(fromRedis) = 0 /\ 0 \in 0 .. 0
  OBVIOUS
<1>4. Counters
  BY <1>3, NAssumption DEF Counters
<1>5. WellFormed
  BY <1>3 DEF WellFormed
<1>6. \A i \in Nat : ~IsReply(i) /\ ~IsPush(i)
  BY <1>3 DEF IsReply, IsPush
<1>7. Conversation
  BY <1>6 DEF Conversation, NothingSaid, OneReplyDue, NoReplyDue, PushesFollow
<1>8. SingleFlight /\ SocketFollowsHandler
  BY DEF SingleFlight, SocketFollowsHandler
<1> QED
  BY <1>1, <1>2, <1>4, <1>5, <1>7, <1>8 DEF Inv

\* Every step keeps the invariant.
LEMMA InvPreserved == Inv /\ [Next]_vars => Inv'
<1> SUFFICES ASSUME Inv, [Next]_vars PROVE Inv'
  OBVIOUS
<1>1. /\ Flags /\ Queues /\ Counters /\ WellFormed
      /\ SingleFlight /\ SocketFollowsHandler /\ Conversation /\ published \in 0 .. N
  BY DEF Inv, Counters
<1>2. PendingMoves /\ ToRedisMoves /\ FromRedisMoves /\ DeliveredMoves
  BY <1>1, NextMovesQueues
<1>3. Queues' /\ WellFormed' /\ chunk' \in 0 .. Len(fromRedis')
  BY <1>1, <1>2, QueuesPreserved, WellFormedPreserved
<1>4. Flags' /\ published' \in 0 .. N
  BY <1>1, FlagsPreserved
<1>5. SingleFlight' /\ SocketFollowsHandler' /\ Conversation'
  BY <1>1, SingleFlightPreserved, SocketPreserved, ConversationPreserved
<1> QED
  BY <1>3, <1>4, <1>5 DEF Inv, Counters

\* The invariant holds in every reachable state.
THEOREM InvHolds == Spec => []Inv
BY InitInv, InvPreserved, PTL DEF Spec

(* The variables keep their types, for any URL and any number of messages. *)
THEOREM TypeCorrect == Spec => []TypeOK
<1>1. Inv => TypeOK
  BY Zenon DEF Inv, Flags, Queues, Counters, TypeOK
<1> QED
  BY <1>1, InvHolds, PTL

(* A value taken for a command's reply is the reply to the command being
   awaited, never a push and never the late reply to an earlier command
   (redis-pattern.ts:267-285). *)
THEOREM RepliesAreMatched == Spec => []RepliesMatched
<1>1. Inv => RepliesMatched
  <2> SUFFICES ASSUME Inv, chunk > 0, pending # <<>>
               PROVE  Head(pending) = at /\ Head(fromRedis).kind = "reply" /\ Head(fromRedis).of = at
    BY DEF RepliesMatched
  <2>1. /\ pending = <<at>> /\ Head(fromRedis) = fromRedis[1]
        /\ IsReply(1) /\ fromRedis[1].of = at
    BY FirstIsReply DEF Inv, Conversation
  <2>2. Head(pending) = at
    BY <2>1
  <2> QED
    BY <2>1, <2>2 DEF IsReply
<1> QED
  BY <1>1, InvHolds, PTL

(* A connection that failed or was closed has no live socket, in whatever order
   the connect timer, the socket and the close come (redis-pattern.ts:188-207, 310-325). *)
THEOREM SocketsAreReleased == Spec => []NoLeakedSocket
<1>1. Inv => NoLeakedSocket
  BY DEF Inv, SocketFollowsHandler, NoLeakedSocket
<1> QED
  BY <1>1, InvHolds, PTL

(* A subscription that does not know it is closed has a live socket: every way
   a socket dies reaches handleClose (redis-pattern.ts:175-186, 310-325). *)
THEOREM OpenIsUp == Spec => []OpenMeansUp
<1>1. Inv => OpenMeansUp
  BY DEF Inv, SocketFollowsHandler, OpenMeansUp
<1> QED
  BY <1>1, InvHolds, PTL
=============================================================================
