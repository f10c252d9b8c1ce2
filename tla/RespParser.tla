----------------------------- MODULE RespParser -----------------------------
(***************************************************************************)
(* The incremental RESP2 parser of the raw pattern connection, on          *)
(* sequences of bytes, and as a reference what Redis encodes.              *)
(*                                                                         *)
(* A byte is a short string: "cr", "lf", a digit, a RESP prefix, a letter, *)
(* or "hi" and "lo", the two bytes of the character "eacute".  A command   *)
(* word such as "pmessage" counts as one byte.  Values are tagged:         *)
(* <<"str", text>>, <<"err", text>>, <<"num", text>>, <<"bool", text>>,    *)
(* <<"null">>, <<"arr", values>>.                                          *)
(***************************************************************************)
EXTENDS Integers, SequencesExt

CONSTANTS
  Symbol,     \* the bytes and characters there are
  MaxDepth,   \* MAX_RESP_DEPTH
  MaxBulk     \* MAX_BULK_LENGTH

ASSUME ParserAssumption == MaxDepth \in Nat \ {0} /\ MaxBulk \in Nat

Crlf == <<"cr", "lf">>

-----------------------------------------------------------------------------
(* What Redis sends: simple values, and arrays of them *)

Utf8(text) ==
  FlattenSeq([i \in DOMAIN text |-> IF text[i] = "eacute" THEN <<"hi", "lo">> ELSE <<text[i]>>])

Digit == <<"0", "1", "2", "3", "4", "5", "6", "7", "8", "9">>
DigitValue == [d \in ToSet(Digit) |-> (CHOOSE i \in DOMAIN Digit : Digit[i] = d) - 1]

ASSUME SymbolAssumption ==
  ToSet(Digit) \cup {"cr", "lf", "hi", "lo", "eacute", "$", "*", ":", "-"} \subseteq Symbol

\* A number in decimal.
Digits(n) ==
  LET digits[m \in 0 .. n] ==
        (IF m < 10 THEN <<>> ELSE digits[m \div 10]) \o <<Digit[(m % 10) + 1]>>
  IN  digits[n]

EncodeSimple(v) ==
  CASE v[1] = "str" -> LET bytes == Utf8(v[2]) IN
                       <<"$">> \o Digits(Len(bytes)) \o Crlf \o bytes \o Crlf
    [] v[1] = "err" -> <<"-">> \o Utf8(v[2]) \o Crlf
    [] v[1] = "num" -> <<":">> \o v[2] \o Crlf
    [] v[1] = "null" -> <<"$">> \o <<"-", "1">> \o Crlf

Encode(v) ==
  IF v[1] = "arr"
    THEN <<"*">> \o Digits(Len(v[2])) \o Crlf \o FlattenSeq([i \in DOMAIN v[2] |-> EncodeSimple(v[2][i])])
    ELSE EncodeSimple(v)

\* Values that Redis sends: whole characters, no CR in a line, and no string
\* beyond the parser's limit.
IsSimple(v) ==
  \/ v \in {"str"} \X Seq(Symbol \ {"lo"}) /\ Len(Utf8(v[2])) <= MaxBulk
  \/ v \in {"err"} \X Seq(Symbol \ {"lo", "cr"})
  \/ v \in {"num"} \X Seq(Symbol \ {"cr"})
  \/ v = <<"null">>

IsValue(v) ==
  \/ IsSimple(v)
  \/ v = <<"arr", v[2]>> /\ v[2] \in Seq(ToSet(v[2])) /\ \A w \in ToSet(v[2]) : IsSimple(w)

-----------------------------------------------------------------------------
(* The parser.  A result is a value and the offset behind it, or "more"    *)
(* when the buffer ends too early, or "error" when the parser throws.      *)

More == [got |-> "more"]
Throws == [got |-> "error"]
Got(v, next) == [got |-> "value", value |-> v, next |-> next]

\* subarray(...).toString("utf-8"); a "hi" left alone is the replacement
\* character.
ToText(bytes) ==
  LET pair(i) == <<bytes[i], bytes[i + 1]>> = <<"hi", "lo">> IN
  FlattenSeq([i \in DOMAIN bytes |->
    IF i < Len(bytes) /\ pair(i) THEN <<>>
    ELSE IF i > 1 /\ pair(i - 1) THEN <<"eacute">> ELSE <<bytes[i]>>])

\* The line that starts at `from`, up to the first CR LF.
ReadLine(b, from) ==
  LET ends == {i \in from .. Len(b) - 1 : <<b[i], b[i + 1]>> = Crlf} IN
  IF ends = {} THEN More
  ELSE [got |-> "line", text |-> SubSeq(b, from, Min(ends) - 1), next |-> Min(ends) + 2]

\* Number(text) of a length; -2 stands for whatever is neither an integer
\* from 0 on nor -1.  JavaScript's Number also takes spellings such as 1e1 and +5,
\* which no Redis uses for a length.
Number(text) ==
  LET number[n \in 0 .. Len(text)] == IF n = 0 THEN 0 ELSE 10 * number[n - 1] + DigitValue[text[n]] IN
  IF text = <<"-", "1">> THEN -1
  ELSE IF \A i \in DOMAIN text : text[i] \in DOMAIN DigitValue THEN number[Len(text)]
  ELSE -2

ParseBulkString(b, line) ==
  LET length == Number(line.text)
      end == line.next + length
  IN  CASE length = -1 -> Got(<<"null">>, line.next)
        [] length < -1 \/ length > MaxBulk -> Throws
        [] OTHER -> IF Len(b) < end + 1 THEN More
                    ELSE IF SubSeq(b, end, end + 1) # Crlf THEN Throws
                    ELSE Got(<<"str", ToText(SubSeq(b, line.next, end - 1))>>, end + 2)

\* An array behind its line, the result of each element by its offset.
ParseArray(element, line) ==
  LET length == Number(line.text)
      parsed[n \in 0 .. length] ==
        IF n = 0 THEN Got(<<"arr", <<>> >>, line.next)
        ELSE LET before == parsed[n - 1]
                 next == element[before.next]
             IN  IF before.got # "value" THEN before
                 ELSE IF next.got # "value" THEN next
                 ELSE Got(<<"arr", Append(before.value[2], next.value)>>, next.next)
  IN  IF length = -1 THEN Got(<<"null">>, line.next)
      ELSE IF length < -1 THEN Throws
      ELSE parsed[length]

\* The value at an offset that is in the buffer.
ParseValue(b, at, element) ==
  LET line == ReadLine(b, at + 1) IN
  IF line.got = "more" THEN More
  ELSE CASE b[at] = "+" -> Got(<<"str", ToText(line.text)>>, line.next)
         [] b[at] = "-" -> Got(<<"err", ToText(line.text)>>, line.next)
         [] b[at] \in {":", ","} -> Got(<<"num", line.text>>, line.next)
         [] b[at] = "#" -> Got(<<"bool", line.text>>, line.next)
         [] b[at] = "_" -> Got(<<"null">>, line.next)
         [] b[at] = "$" -> ParseBulkString(b, line)
         [] b[at] = "*" -> ParseArray(element, line)
         [] OTHER -> Throws

\* The results at all offsets, by how many levels of nesting are left.
Results(b) ==
  LET results[left \in 0 .. MaxDepth + 1] ==
        [at \in 1 .. Len(b) + 1 |->
           IF at > Len(b) THEN More
           ELSE IF left = 0 THEN Throws
           ELSE ParseValue(b, at, results[left - 1])]
  IN  results

ParseAt(b, at, depth) == Results(b)[MaxDepth + 1 - depth][at]

\* What a chunk leads to: a failure, or values and the bytes left over.
Parsed(failed, values, rest) == [failed |-> failed, values |-> values, rest |-> rest]

\* The values that are complete in the buffer, and what is left of it.
Parse(b) ==
  LET from[at \in 1 .. Len(b) + 1] ==
        LET parsed == ParseAt(b, at, 0)
            later == from[parsed.next]
        IN  CASE parsed.got = "value" ->
                   IF later.failed THEN later
                   ELSE Parsed(FALSE, <<parsed.value>> \o later.values, later.rest)
              [] parsed.got = "more" -> Parsed(FALSE, <<>>, SubSeq(b, at, Len(b)))
              [] parsed.got = "error" -> Parsed(TRUE, <<>>, b)
  IN  from[1]

\* MUTANT of Push: what was left of the last chunk is forgotten.
PushForgetting(buffer, chunk) == Parse(chunk)

Push(buffer, chunk) == Parse(buffer \o chunk)
=============================================================================
