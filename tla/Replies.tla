------------------------------ MODULE Replies ------------------------------
(***************************************************************************)
(* From a RESP3 reply, as Bun.redis hands it over, to the JSON a client    *)
(* gets: normalisation, flattening of score pairs, base64, and the entries *)
(* of /pipeline and /multi-exec.  The recursive functions are defined on a *)
(* reply and what is nested in it, as deep as the program looks.           *)
(*                                                                         *)
(* Replies are tagged: <<"null">>, <<"bool", b>>, <<"num", lexeme>>,       *)
(* <<"big", lexeme>>, <<"str", text>>, <<"bytes", text>>, <<"arr", seq>>,  *)
(* <<"set", seq>>, <<"map", seq of <<key, value>>>>, <<"err", message>>.   *)
(* Normalised values are "null", "num", "str" and "arr", and "b64" for a   *)
(* string in base64.                                                       *)
(***************************************************************************)
EXTENDS Integers, SequencesExt

CONSTANT MaxNormalizeDepth   \* MAX_NORMALIZE_DEPTH

ASSUME DepthAssumption == MaxNormalizeDepth \in Nat

Children(v) ==
  CASE v[1] \in {"arr", "set"} -> v[2]
    [] v[1] = "map" -> [i \in DOMAIN v[2] |-> v[2][i][2]]
    [] OTHER -> <<>>

\* The values nested at each depth of v.
AtDepth(v) ==
  LET values[depth \in 0 .. MaxNormalizeDepth + 1] ==
        IF depth = 0 THEN {v} ELSE UNION {ToSet(Children(w)) : w \in values[depth - 1]}
  IN  values

\* normalizeResp3 throws.
TooDeep(v) == AtDepth(v)[MaxNormalizeDepth + 1] # {}

\* A value that is not too deep, and everything nested in it.
Parts(v) == UNION {AtDepth(v)[depth] : depth \in 0 .. MaxNormalizeDepth}

\* One value, given its normalised children.  An Error within an array has no
\* entries of its own.  The order of a map's keys is that of Object.entries.
NormalizeValue(v, normalized) ==
  CASE v[1] = "bool" -> <<"num", IF v[2] THEN "1" ELSE "0">>
    [] v[1] = "num" /\ v[2] \in {"inf", "-inf", "nan"} -> <<"str", v[2]>>
    [] v[1] \in {"big", "bytes"} -> <<"str", v[2]>>
    [] v[1] \in {"arr", "set"} -> <<"arr", normalized>>
    [] v[1] = "err" -> <<"arr", <<>>>>
    [] v[1] = "map" ->
         <<"arr", FlattenSeq([i \in DOMAIN v[2] |-> << <<"str", v[2][i][1]>>, normalized[i]>>])>>
    [] OTHER -> v

\* Defined for values that are not too deep.
NormalizeResp3(v) ==
  LET normal[w \in Parts(v)] ==
        NormalizeValue(w, [i \in DOMAIN Children(w) |-> normal[Children(w)[i]]])
  IN  normal[v]

WITHSCORES_COMMANDS == {"ZRANGE", "ZREVRANGE", "ZRANGEBYSCORE", "ZREVRANGEBYSCORE",
                        "ZRANDMEMBER", "ZUNION", "ZINTER", "ZDIFF"}
WITHVALUES_COMMANDS == {"HRANDFIELD"}
COUNT_PAIR_COMMANDS == {"ZPOPMIN", "ZPOPMAX"}

ReturnsPairs(command, args) ==
  \/ command \in WITHSCORES_COMMANDS /\ "WITHSCORES" \in ToSet(args)
  \/ command \in WITHVALUES_COMMANDS /\ "WITHVALUES" \in ToSet(args)
  \/ command \in COUNT_PAIR_COMMANDS /\ Len(args) >= 2

IsPair(v) == v[1] = "arr" /\ Len(v[2]) = 2

FlattenScorePairs(command, args, v) ==
  IF v[1] = "arr" /\ ReturnsPairs(command, args) /\ \A i \in DOMAIN v[2] : IsPair(v[2][i])
    THEN <<"arr", FlattenSeq([i \in DOMAIN v[2] |-> v[2][i][2]])>>
    ELSE v

\* Of the depth, only its parity matters.
EncodeAt(v, depth) ==
  LET encode[p \in Parts(v) \X {0, 1}] ==
        LET w == p[1]
            odd == p[2] = 1
        IN  CASE w = <<"str", "OK">> /\ ~odd -> w
              [] w[1] = "str" /\ (w[2] # "OK" \/ odd) -> <<"b64", w[2]>>
              [] w[1] = "arr" -> <<"arr", [i \in DOMAIN w[2] |-> encode[<<w[2][i], 1 - p[2]>>]]>>
              [] OTHER -> w
  IN  encode[<<v, depth % 2>>]

\* MUTANT of EncodeResult: the literal OK of an array is left alone as well.
EncodeResultEvenDepth(v) ==
  IF v[1] = "arr" THEN <<"arr", [i \in DOMAIN v[2] |-> EncodeAt(v[2][i], 0)]>> ELSE EncodeAt(v, 0)

EncodeResult(v) == EncodeAt(v, 0)

-----------------------------------------------------------------------------
(* A call is a command and its arguments.  The shape of one reply, and of  *)
(* all replies to a request: <<"result", value>> or <<"error">> each.      *)

Shape(call, v, base64) ==
  LET flat == FlattenScorePairs(call.command, call.args, NormalizeResp3(v)) IN
  <<"result", IF base64 THEN EncodeResult(flat) ELSE flat>>

\* shapeExecResults, and executeCommand for its single reply: an Error or a
\* reply that is too deep costs its own entry.
ShapeExecResults(calls, replies, base64) ==
  [i \in DOMAIN replies |->
     IF replies[i][1] = "err" \/ TooDeep(replies[i]) THEN <<"error">>
     ELSE Shape(calls[i], replies[i], base64)]

\* A pipeline's mapping throws as a whole when one reply is too deep.
PipelineThrows(replies) == \E i \in DOMAIN replies : TooDeep(replies[i])

-----------------------------------------------------------------------------
(* @upstash/redis: decode().  The strings of an array are decoded without  *)
(* a look at them, "OK" or not; what is not base64 becomes garbage.        *)

FromBase64(v) == IF v[1] = "b64" THEN <<"str", v[2]>> ELSE <<"garbage", v[2]>>

SdkDecode(v) ==
  LET decode[w \in Parts(v)] ==
        CASE w = <<"str", "OK">> -> w
          [] w # <<"str", "OK">> /\ w[1] \in {"str", "b64"} -> FromBase64(w)
          [] w[1] = "arr" ->
               <<"arr", [i \in DOMAIN w[2] |->
                  CASE w[2][i][1] \in {"str", "b64"} -> FromBase64(w[2][i])
                    [] w[2][i][1] = "arr" ->
                         <<"arr", [j \in DOMAIN w[2][i][2] |-> decode[w[2][i][2][j]]]>>
                    [] OTHER -> w[2][i]]>>
          [] OTHER -> w
  IN  decode[v]
=============================================================================
