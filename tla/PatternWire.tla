---------------------------- MODULE PatternWire ----------------------------
(***************************************************************************)
(* A pattern subscription from Redis' bytes to what the client's SDK       *)
(* reads: the bytes arrive in chunks cut anywhere, the parser puts them    *)
(* together, handlePushMessage and the handler's onMessage turn messages   *)
(* into events, the SDK takes the events apart.  The subscription is set   *)
(* up (PatternConnection) and its stream keeps up (SseStream).             *)
(***************************************************************************)
EXTENDS RespParser, SseEvents

\* What Redis may send: sequences of items, each a value or <<"raw", bytes>>,
\* bytes that the parser must reject, and not before it has the last of them.
CONSTANT Scripts

Items == UNION {ToSet(s) : s \in Scripts}

Bytes(item) == IF item[1] = "raw" THEN item[2] ELSE Encode(item)

ASSUME ScriptsAssumption == \A s \in Scripts : s \in Seq(ToSet(s))

ASSUME ValuesAssumption == \A v \in Items : v[1] # "raw" => IsValue(v)

ASSUME RawAssumption ==
  \A v \in Items : v[1] = "raw" =>
    /\ v[2] \in Seq(Symbol) \ {<<>>}
    /\ ParseAt(v[2], 1, 0) = Throws
    /\ \A n \in 1 .. Len(v[2]) - 1 : ParseAt(SubSeq(v[2], 1, n), 1, 0) = More

VARIABLES
  script,        \* the items Redis sends
  stream,        \* their bytes
  at,            \* how many bytes have arrived
  buffer,        \* RespParser.buffer
  closed,        \* the connection is closed
  disconnected,  \* the handler's flag
  handled,       \* messages handed to onMessage
  events         \* events handed to the stream

vars == <<script, stream, at, buffer, closed, disconnected, handled, events>>

Init ==
  /\ script \in Scripts
  /\ stream = FlattenSeq([i \in DOMAIN script |-> Bytes(script[i])])
  /\ at = 0
  /\ buffer = <<>>
  /\ closed = FALSE
  /\ disconnected = FALSE
  /\ handled = <<>>
  /\ events = <<>>

-----------------------------------------------------------------------------

\* A push of a message has four elements; the code takes that for granted.
IsMessage(v) ==
  /\ v[1] = "arr" /\ Len(v[2]) = 4
  /\ v[2][1] = <<"str", <<"pmessage">> >>
  /\ v[2][2][1] = "str" /\ v[2][3][1] = "str"

\* The arguments of onMessage: pattern, channel and message.
Arguments(v) == <<v[2][2][2], v[2][3][2], IF v[2][4][1] = "null" THEN <<>> ELSE v[2][4][2]>>

\* A message is a text, its pattern is one the handler has accepted, and only
\* JSON has escapes in it: the alphabet has no backslash of its own.
ASSUME MessagesAssumption ==
  \A v \in Items : IsMessage(v) =>
    LET m == Arguments(v) IN
    /\ v[2][4][1] \in {"str", "null"}
    /\ IsValidSubscriptionTarget(m[1])
    /\ IsJson(m[3]) \/ ToSet(m[3]) \cap EscapeCodes = {}

\* The handler's callback.
OnMessage(s, m) ==
  LET representable == IsValidSubscriptionTarget(m[2])
      event == IF representable THEN FormatPatternMessageEvent(m[1], m[2], m[3]) ELSE ErrorEvent
  IN  [s EXCEPT !.handled = Append(@, m),
                !.events = IF s.disconnected THEN @ ELSE Append(@, event),
                !.disconnected = @ \/ ~representable]

\* An error reply closes the connection, but not the loop over the values of
\* the chunk; what is no message is ignored.
HandlePushMessage(s, v) ==
  IF v[1] = "err" THEN [s EXCEPT !.closed = TRUE]
  ELSE IF IsMessage(v) THEN OnMessage(s, Arguments(v))
  ELSE s

\* One value after the other, from the state s on.
HandleAll(s, values) ==
  LET after[n \in 0 .. Len(values)] ==
        IF n = 0 THEN s ELSE HandlePushMessage(after[n - 1], values[n])
  IN  after[Len(values)]

\* handleData with the next k bytes.
HandleData(k) ==
  LET parsed == Push(buffer, SubSeq(stream, at + 1, at + k))
      after == HandleAll([closed |-> parsed.failed, disconnected |-> disconnected,
                          handled |-> handled, events |-> events],
                         parsed.values)
  IN  /\ ~closed
      /\ at' = at + k
      /\ buffer' = parsed.rest
      /\ closed' = after.closed
      /\ disconnected' = after.disconnected
      /\ handled' = after.handled
      /\ events' = after.events
      /\ UNCHANGED <<script, stream>>

Next == \E k \in 1 .. Len(stream) - at : HandleData(k)

Spec == Init /\ [][Next]_vars

-----------------------------------------------------------------------------
(* Properties *)

\* How many bytes the first n items take, and how many items have arrived.
Ends(n) == Len(FlattenSeq([i \in 1 .. n |-> Bytes(script[i])]))
Arrived ==
  CHOOSE n \in 0 .. Len(script) : Ends(n) <= at /\ (n < Len(script) => at < Ends(n + 1))

Fatal(item) == item[1] \in {"raw", "err"}

\* The messages among the first n items.
Published(n) ==
  LET messages == Keep(SubSeq(script, 1, n), {v \in Items : IsMessage(v)}) IN
  [i \in DOMAIN messages |-> Arguments(messages[i])]

\* How the network cuts the bytes is invisible: a message is handled exactly
\* when its last byte is there, never twice and never garbled, however CR LF,
\* a length, a character or a payload that looks like RESP is split; the
\* connection closes exactly when the first rejected byte or error reply is
\* complete, and even then what was handled is a gap-free prefix.
SplitInvisible ==
  /\ closed <=> \E i \in 1 .. Arrived : Fatal(script[i])
  /\ IsPrefix(handled, Published(Arrived))
  /\ ~closed => /\ handled = Published(Arrived)
                /\ buffer = SubSeq(stream, Ends(Arrived) + 1, at)

\* What the SDK reads is what was published: each event is one line, and its
\* fields are the pattern, the channel and the message, the latter as the JSON
\* value it spells or else as the very text; a channel that cannot be
\* represented is reported once, and nothing follows.
EventsFaithful ==
  \A i \in DOMAIN handled :
    LET m == handled[i]
        value == IF IsJson(m[3]) THEN JsonParse(m[3]) ELSE <<"text", m[3]>>
        valid(j) == IsValidSubscriptionTarget(handled[j][2])
    IN  IF \E j \in 1 .. i - 1 : ~valid(j) THEN Len(events) < i
        ELSE IF ~valid(i) THEN Len(events) = i /\ SdkReads(events[i])[2] = <<"text", <<"reason">> >>
        ELSE /\ SdkReads(events[i]) = << << <<"pmessage">>, m[1], m[2]>>, value>>
             /\ SdkReads(FormatMessageEvent(m[2], m[3])) = << << <<"message">>, m[2]>>, value>>
=============================================================================
