----------------------------- MODULE SseEvents -----------------------------
(***************************************************************************)
(* The comma-delimited events of a subscription: how the server formats    *)
(* them, which names it takes for a channel or a pattern, and how the      *)
(* Upstash SDK reads them back.                                            *)
(*                                                                         *)
(* A text is a sequence of characters, each a short string; a word of the  *)
(* protocol is one character, and so is an escape of a JSON string.        *)
(***************************************************************************)
EXTENDS SequencesExt, Filters

CONSTANT MaxName   \* MAX_CHANNEL_NAME_LENGTH

ASSUME NameAssumption == MaxName \in Nat

Newlines == {"cr", "lf"}
Quote == "quote"

\* The characters JSON.stringify has to escape, and their escapes.
Special == Newlines \cup {Quote}
EscapeOf == [c \in Special |-> CASE c = "cr" -> "esc_r" [] c = "lf" -> "esc_n" [] OTHER -> "esc_quote"]
EscapeCodes == {EscapeOf[c] : c \in Special}

Escape(text) == [i \in DOMAIN text |-> IF text[i] \in Special THEN EscapeOf[text[i]] ELSE text[i]]
Unescape(text) ==
  [i \in DOMAIN text |-> IF text[i] \in EscapeCodes THEN CHOOSE c \in Special : EscapeOf[c] = text[i]
                                                  ELSE text[i]]

Without(text, chars) == Keep(text, ToSet(text) \ chars)

\* text without the newlines at both ends.
Trim(text) ==
  LET inner == {i \in DOMAIN text : text[i] \notin Newlines} IN
  IF inner = {} THEN <<>> ELSE SubSeq(text, Min(inner), Max(inner))

-----------------------------------------------------------------------------
(* JSON.parse: numbers made of the digit 1, strings, an array of a number. *)

IsNumber(t) == t # <<>> /\ ToSet(t) = {"1"}
Encloses(t, open, close) == Len(t) >= 2 /\ Head(t) = open /\ Last(t) = close
Inside(t) == SubSeq(t, 2, Len(t) - 1)

IsString(t) == Encloses(t, Quote, Quote) /\ ToSet(Inside(t)) \cap Special = {}
IsJson(text) ==
  LET t == Trim(text) IN
  \/ IsNumber(t)
  \/ IsString(t)
  \/ Encloses(t, "[", "]") /\ IsNumber(Trim(Inside(t)))

\* What a JSON text means: a string, or any other value by its lexemes.
JsonParse(text) ==
  LET t == Trim(text) IN
  IF IsString(t) THEN <<"text", Unescape(Inside(t))>> ELSE <<"json", Without(t, Newlines)>>

-----------------------------------------------------------------------------
(* Formatting *)

\* MUTANT of NormalizeMessagePayload: line breaks go before the text is parsed.
NormalizeMessagePayloadFirst(message) ==
  LET line == Without(message, Newlines) IN
  IF IsJson(line) THEN line ELSE <<Quote>> \o Escape(message) \o <<Quote>>

NormalizeMessagePayload(message) ==
  IF IsJson(message) THEN Without(message, Newlines)
  ELSE <<Quote>> \o Escape(message) \o <<Quote>>

Comma == <<",">>

FormatMessageEvent(channel, message) ==
  <<"message">> \o Comma \o channel \o Comma \o NormalizeMessagePayload(message)

FormatPatternMessageEvent(pattern, channel, message) ==
  <<"pmessage">> \o Comma \o pattern \o Comma \o channel \o Comma \o NormalizeMessagePayload(message)

\* The event in place of a message of an incompatible channel.
ErrorEvent == <<"error">> \o Comma \o Comma \o <<Quote, "reason", Quote>>

HasControlCharacters(text) == ToSet(text) \cap Newlines # {}

IsValidSubscriptionTarget(target) ==
  /\ Len(target) \in 1 .. MaxName
  /\ "," \notin ToSet(target)
  /\ ~HasControlCharacters(target)

-----------------------------------------------------------------------------
(* The SDK: the fields before the first commas, the rest is JSON; an event *)
(* of several lines is several events to it.                               *)

\* The first comma behind an offset, or the end.
CommaAfter(e, i) == Min({j \in i + 1 .. Len(e) : e[j] = ","} \cup {Len(e) + 1})

SdkReads(e) ==
  LET first == CommaAfter(e, 0)
      second == CommaAfter(e, first)
      third == CommaAfter(e, second)
      field(from, to) == SubSeq(e, from + 1, to - 1)
      isPattern == e[1] = "pmessage"
      fields == IF isPattern THEN <<field(0, first), field(first, second), field(second, third)>>
                             ELSE <<field(0, first), field(first, second)>>
      last == IF isPattern THEN third ELSE second
      data == SubSeq(e, last + 1, Len(e))
  IN  IF last > Len(e) \/ HasControlCharacters(e) \/ ~IsJson(data) THEN <<"unreadable">>
      ELSE <<fields, JsonParse(data)>>
=============================================================================
