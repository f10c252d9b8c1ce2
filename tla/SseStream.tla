----------------------------- MODULE SseStream -----------------------------
(***************************************************************************)
(* What one subscription writes to its SSE stream, and in what order: the  *)
(* confirmation-ordered buffer, the bounded writer and the error event of  *)
(* an incompatible channel, for the exact and for the pattern handler.     *)
(*                                                                         *)
(* Redis publishes the messages 1, 2, ... in this order; they arrive in    *)
(* chunks, and all messages of a chunk are handled in one synchronous      *)
(* stretch, during which no write can settle.  `wire` is every event       *)
(* handed to the stream, in call order (a stream keeps that order).        *)
(***************************************************************************)
EXTENDS Integers, Sequences, Filters

CONSTANTS
  N,                \* bound: how many messages Redis publishes
  MaxOutstanding    \* MAX_OUTSTANDING_SSE_WRITES

Messages == 1 .. N

ASSUME NAssumption == N \in Nat
ASSUME MaxOutstandingAssumption == MaxOutstanding \in Nat \ {0}

\* An event is the number of the message it carries (for a message of bad:
\* the error event written in its place), or the confirmation.
Confirmation == 0

VARIABLES
  kind,          \* "exact" or "pattern": which of the two handlers this is
  bad,           \* messages from channels the wire format cannot carry
  pc,            \* the handler: "subscribing", "subscribed", "confirming", "ready", "over"
  received,      \* messages Redis has delivered so far
  pending,       \* buffered until the confirmation is written
  wire,          \* events handed to the stream
  settled,       \* how many of those writes have settled
  outstanding,   \* the bounded writer's counter
  stuck,         \* the bounded writer's flag
  disconnected,  \* the handler's flag
  aborted,       \* the stream was aborted (its listener has run)
  dropped        \* the Redis connection is gone

\* What a write may change.
sink == <<wire, outstanding, stuck, disconnected, aborted>>

\* What never changes.
fixed == <<kind, bad>>

vars == <<fixed, pc, received, pending, settled, dropped, sink>>

TypeOK ==
  /\ kind \in {"exact", "pattern"}
  /\ bad \subseteq (IF kind = "exact" THEN {} ELSE Messages)
  /\ pc \in {"subscribing", "subscribed", "confirming", "ready", "over"}
  /\ received \in 0 .. N
  /\ pending \in Seq(Messages)
  /\ wire \in Seq(Messages \cup {Confirmation})
  /\ settled \in 0 .. Len(wire)
  /\ outstanding \in 0 .. MaxOutstanding
  /\ {stuck, disconnected, aborted, dropped} \subseteq BOOLEAN

Init ==
  /\ kind \in {"exact", "pattern"}
  /\ bad \in SUBSET (IF kind = "exact" THEN {} ELSE Messages)
  /\ pc = "subscribing"
  /\ received = 0
  /\ pending = <<>>
  /\ wire = <<>>
  /\ settled = 0
  /\ outstanding = 0
  /\ stuck = FALSE
  /\ disconnected = FALSE
  /\ aborted = FALSE
  /\ dropped = FALSE

-----------------------------------------------------------------------------
(* Helpers *)

\* MUTANT of WriteAll: one write too many is let through.
WriteAllPastBound(ms) ==
  LET room == MaxOutstanding + 1 - outstanding
      taken == IF stuck THEN 0 ELSE IF Len(ms) <= room THEN Len(ms) ELSE room
      overflow == ~stuck /\ Len(ms) > room
  IN  /\ wire' = wire \o SubSeq(ms, 1, taken)
      /\ outstanding' = outstanding + taken
      /\ stuck' = (stuck \/ overflow)
      /\ disconnected' = (disconnected \/ overflow)
      /\ aborted' = (aborted \/ overflow)

\* MUTANT of WriteAll: a full writer gives up without aborting the stream.
WriteAllSilent(ms) ==
  LET room == MaxOutstanding - outstanding
      taken == IF stuck THEN 0 ELSE IF Len(ms) <= room THEN Len(ms) ELSE room
  IN  /\ wire' = wire \o SubSeq(ms, 1, taken)
      /\ outstanding' = outstanding + taken
      /\ stuck' = (stuck \/ Len(ms) > room)
      /\ UNCHANGED <<disconnected, aborted>>

\* The bounded writer called on each message of ms in one stretch: it takes
\* what fits, and the first one that does not makes it stuck for good, sets
\* the handler's flag and aborts the stream (onStuck).
WriteAll(ms) ==
  LET room == MaxOutstanding - outstanding
      taken == IF stuck THEN 0 ELSE IF Len(ms) <= room THEN Len(ms) ELSE room
      overflow == ~stuck /\ Len(ms) > room
  IN  /\ wire' = wire \o SubSeq(ms, 1, taken)
      /\ outstanding' = outstanding + taken
      /\ stuck' = (stuck \/ overflow)
      /\ disconnected' = (disconnected \/ overflow)
      /\ aborted' = (aborted \/ overflow)

Ready == pc \in {"ready", "over"}

\* MUTANT of Push: messages overtake the confirmation.
PushUnordered(ms) == WriteAll(ms) /\ UNCHANGED pending

\* ordered.push / the pattern handler's `ready` test, message by message.
Push(ms) ==
  IF Ready
    THEN WriteAll(ms) /\ UNCHANGED pending
    ELSE /\ pending' = pending \o ms
         /\ UNCHANGED sink

\* MUTANT of Flush: the buffered messages are dropped.
FlushNothing ==
  /\ pending' = <<>>
  /\ UNCHANGED sink

\* ordered.release() / the pattern handler's splice loop.
Flush == pending' = <<>> /\ WriteAll(pending)

\* stream.abort(): only the pattern handler's listener sets `disconnected`.
Abort ==
  /\ aborted' = TRUE
  /\ disconnected' = (disconnected \/ kind = "pattern")

Chunk(k) == [i \in 1 .. k |-> received + i]

\* The part of a chunk before its first incompatible channel.
Compatible(ms) ==
  LET gaps == {i \in 1 .. Len(ms) : ms[i] \in bad}
      first == CHOOSE i \in gaps : \A j \in gaps : i <= j
  IN  IF gaps = {} THEN ms ELSE SubSeq(ms, 1, first - 1)

-----------------------------------------------------------------------------
(* Actions *)

\* The SUBSCRIBE/PSUBSCRIBE reply is there; the handler has not resumed yet.
Subscribed ==
  /\ pc = "subscribing"
  /\ pc' = "subscribed"
  /\ UNCHANGED <<fixed, received, pending, settled, dropped, sink>>

SubscribeFails ==
  /\ pc = "subscribing"
  /\ pc' = "over"
  /\ UNCHANGED <<fixed, received, pending, settled, dropped, sink>>

\* The handler resumes and writes the confirmation; the pattern handler gives
\* up if it has been disconnected by then.
Confirms ==
  /\ pc = "subscribed"
  /\ IF kind = "pattern" /\ disconnected
       THEN pc' = "over" /\ UNCHANGED wire
       ELSE pc' = "confirming" /\ wire' = Append(wire, Confirmation)
  /\ UNCHANGED <<fixed, received, pending, settled, outstanding, stuck,
                 disconnected, aborted, dropped>>

\* A chunk of k representable messages.
Receive(k) ==
  LET ms == Chunk(k) IN
  /\ ~dropped /\ pc \notin {"subscribing", "over"}
  /\ received + k <= N
  /\ received' = received + k
  /\ IF disconnected
       THEN UNCHANGED <<pending, sink>>
       ELSE Compatible(ms) = ms /\ Push(ms)
  /\ UNCHANGED <<fixed, pc, settled, dropped>>

\* A chunk with an incompatible channel: what precedes it is pushed, then the
\* error event is written directly, unless the writer got stuck before.
ReceiveIncompatible(k) ==
  LET ms == Chunk(k)  good == Compatible(ms) IN
  /\ ~dropped /\ pc \notin {"subscribing", "over"}
  /\ received + k <= N
  /\ received' = received + k
  /\ ~disconnected /\ good # ms
  /\ LET room == MaxOutstanding - outstanding IN
     IF Ready /\ Len(good) > room
       THEN Push(good)
       ELSE /\ pending' = IF Ready THEN pending ELSE pending \o good
            /\ wire' = wire \o (IF Ready THEN good ELSE <<>>) \o <<ms[Len(good) + 1]>>
            /\ outstanding' = outstanding + (IF Ready THEN Len(good) ELSE 0)
            /\ disconnected' = TRUE
            /\ UNCHANGED <<stuck, aborted>>
  /\ UNCHANGED <<fixed, pc, settled, dropped>>

\* Writes settle in the order they were made.
SettleOne ==
  /\ settled < Len(wire)
  /\ settled' = settled + 1
  /\ UNCHANGED fixed

ConfirmationSettles ==
  /\ SettleOne
  /\ wire[settled + 1] = Confirmation
  /\ pc' = "ready"
  /\ Flush
  /\ UNCHANGED <<received, dropped>>

ConfirmationRejected ==
  /\ SettleOne
  /\ wire[settled + 1] = Confirmation
  /\ aborted
  /\ pc' = "over"
  /\ UNCHANGED <<received, pending, dropped, sink>>

\* A rejected write makes the writer stuck, too.
MessageSettles(rejected) ==
  /\ SettleOne
  /\ wire[settled + 1] \in Messages \ bad
  /\ rejected => aborted
  /\ outstanding' = outstanding - 1
  /\ stuck' = (stuck \/ rejected)
  /\ disconnected' = (disconnected \/ rejected)
  /\ UNCHANGED <<pc, received, pending, wire, aborted, dropped>>

ErrorSettles ==
  /\ SettleOne
  /\ wire[settled + 1] \in bad
  /\ Abort
  /\ UNCHANGED <<pc, received, pending, wire, outstanding, stuck, dropped>>

\* Promise.race resolves and the finally block runs.
Ends ==
  /\ pc = "ready"
  /\ aborted \/ dropped
  /\ pc' = "over"
  /\ UNCHANGED <<fixed, received, pending, settled, dropped, sink>>

ClientDisconnects ==
  /\ ~aborted
  /\ Abort
  /\ UNCHANGED <<fixed, pc, received, pending, wire, settled, outstanding, stuck, dropped>>

RedisDrops ==
  /\ ~dropped /\ pc \notin {"subscribing", "over"}
  /\ dropped' = TRUE
  /\ UNCHANGED <<fixed, pc, received, pending, settled, sink>>

Settles ==
  \/ ConfirmationSettles
  \/ ConfirmationRejected
  \/ \E rejected \in BOOLEAN : MessageSettles(rejected)
  \/ ErrorSettles

Next ==
  \/ Subscribed \/ SubscribeFails \/ Confirms
  \/ \E k \in Messages : Receive(k)
  \/ \E k \in Messages : ReceiveIncompatible(k)
  \/ Settles
  \/ Ends
  \/ ClientDisconnects \/ RedisDrops

Spec == Init /\ [][Next]_vars

\* The handler resumes, and a consumer that is connected reads (or the write
\* of an aborted stream is given up).
LiveSpec == Spec /\ WF_vars(Subscribed \/ SubscribeFails) /\ WF_vars(Confirms)
                 /\ WF_vars(Settles) /\ WF_vars(Ends)

-----------------------------------------------------------------------------
(* Properties *)

\* The messages among what is on the wire, these and the confirmation, and
\* the error events.
Written == Keep(wire, Messages \ bad)
Events == Keep(wire, (Messages \cup {Confirmation}) \ bad)
Reports == Keep(wire, bad)

\* The messages whose writes have not settled.
Backlog == Keep(SubSeq(wire, settled + 1, Len(wire)), Messages \ bad)

\* The stream keeps the promise of OrderedStream: the confirmation before any
\* message, then a gap-free prefix of what Redis published, also around the
\* moment the buffer is released and the moment the writer overflows, and
\* nothing from behind a channel that cannot be represented.
Stream == INSTANCE OrderedStream WITH
  published <- [i \in Messages |-> i],
  unrepresentable <- bad,
  events <- Events,
  reports <- Reports

Ordered == Stream!Spec

\* The confirmation is the first event ("the Upstash SDK expects the
\* confirmation to be the FIRST event", translate/pubsub.ts:48-50).
ConfirmationFirst == wire # <<>> => wire[1] = Confirmation

\* While the stream is healthy nothing is held back: once the confirmation is
\* out, every message received is on the wire and the buffer is empty.
NothingWithheld ==
  pc = "ready" /\ ~stuck /\ ~disconnected =>
    /\ pending = <<>>
    /\ Len(Written) = received

\* At most MaxOutstanding messages wait unread in the stream, however slow its
\* reader is.
BoundedBacklog == Len(Backlog) <= MaxOutstanding

\* Nobody is left reading a stream that has silently stopped: a writer that
\* gave up, and a message from an incompatible channel, take the subscription
\* down (README.md:128: "the stream emits `error,,...` and closes").
GapEnds == (stuck \/ \E b \in bad : received >= b) ~> pc = "over"
=============================================================================
