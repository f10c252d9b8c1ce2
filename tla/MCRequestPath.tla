--------------------------- MODULE MCRequestPath ---------------------------
(* Instances of RequestPath for TLC. *)
EXTENDS RequestPath, TLC

CONSTANTS r1, r2

Str(s) == <<"str", s>>
Num(n) == <<"num", n>>
Arr(s) == <<"arr", s>>
Map(s) == <<"map", s>>

Reply(command, args, resp3, resp2) ==
  [command |-> command, args |-> args, resp3 |-> resp3, resp2 |-> resp2]
Same(command, args, v) == Reply(command, args, v, v)

\* resp2 is the reply of a RESP2 server after the SDK's automatic parsing, which
\* turns a score into a number.  "big" is RESP3's big number, a bulk string in
\* RESP2; an integer is a number in both.
MCProtocol ==
  {Same("GET", <<"k">>, Str("OK")), Same("GET", <<"k">>, Str("v")), Same("GET", <<"k">>, <<"null">>),
   Same("SET", <<"k", "OK">>, Str("OK")), Same("LRANGE", <<"l">>, Arr(<<Str("OK"), Str("v")>>)),
   Reply("GETEX", <<"k">>, <<"bytes", "v">>, Str("v")),
   Same("INCR", <<"k">>, Num("9")), Reply("EVAL", <<"big">>, <<"big", "9">>, Str("9")),
   Reply("EVALB", <<>>, <<"bool", TRUE>>, Num("1")), Reply("EVALB", <<>>, <<"bool", FALSE>>, Num("0")),
   Reply("ZSCORE", <<"z", "a">>, Num("inf"), Str("inf")), Same("ZSCORE", <<"z", "a">>, Num("1")),
   Reply("SMEMBERS", <<"s">>, <<"set", <<Str("OK"), Str("a")>>>>, Arr(<<Str("OK"), Str("a")>>)),
   Reply("HGETALL", <<"h">>, Map(<< <<"f", Str("OK")>>, <<"g", Str("v")>> >>),
         Arr(<<Str("f"), Str("OK"), Str("g"), Str("v")>>)),
   Reply("ZRANGE", <<"z", "WITHSCORES">>, Arr(<<Arr(<<Str("a"), Num("1")>>), Arr(<<Str("OK"), Num("2")>>)>>),
         Arr(<<Str("a"), Num("1"), Str("OK"), Num("2")>>)),
   Same("ZRANGE", <<"z", "WITHSCORES">>, Arr(<<>>)), Same("ZRANGE", <<"z">>, Arr(<<Str("a"), Str("OK")>>)),
   Same("ZPOPMIN", <<"z">>, Arr(<<Str("a"), Num("1")>>)),
   Reply("ZPOPMIN", <<"z", "1">>, Arr(<<Arr(<<Str("a"), Num("1")>>)>>), Arr(<<Str("a"), Num("1")>>)),
   Same("GEOPOS", <<"g", "a">>, Arr(<<Arr(<<Num("1"), Num("2")>>)>>)),
   Same("EVAL", <<"nested">>, Arr(<<Str("OK"), Arr(<<Str("OK")>>)>>)),
   Same("EVAL", <<"deep">>, Arr(<<Arr(<<Arr(<<Str("OK")>>)>>)>>)),
   Same("PUBLISH", <<"ch", "m">>, Num("1")), Same("KEYS", <<"k">>, Arr(<<Str("k")>>)),
   Same("HSET", <<"k">>, <<"err", "WRONGTYPE">>)}

XreadProtocol ==
  {Reply("XREAD", <<"s">>, Map(<< <<"s", Arr(<<Arr(<<Str("1-0"), Arr(<<Str("f"), Str("v")>>)>>)>>)>> >>),
         Arr(<<Arr(<<Str("s"), Arr(<<Arr(<<Str("1-0"), Arr(<<Str("f"), Str("v")>>)>>)>>)>>)>>))}

-----------------------------------------------------------------------------
Bearer == <<"bearer", "s3cret">>
Request(method, path, body) ==
  [method |-> method, path |-> path, header |-> Bearer, query |-> <<>>, format |-> "none",
   base64 |-> FALSE, body |-> body]
Encoded(q) == [q EXCEPT !.base64 = TRUE]

Raw(p) == <<Str(p.command)>> \o [i \in DOMAIN p.args |-> Str(p.args[i])]
Tokens == {<<>>, << <<"_token", "s3cret">> >>, << <<"_token", "other">>, <<"_token", "s3cret">> >>,
           << <<"EX", "">>, <<"_token", "s3cret">>, <<"PX", "5">> >>}

Authentications ==
  {[Request("GET", path, <<"none">>) EXCEPT !.header = header, !.query = query] :
     path \in {<<"GET", "k">>, <<"subscribe", "ch">>}, query \in Tokens,
     header \in {<<>>, <<"bearer">>, <<"basic", "s3cret">>, Bearer, <<"bearer", "other">>, <<"bearer", "test">>,
                <<"bearer", "TEST">>}}

Formats == {[Request("POST", <<>>, <<"array", <<Str("GET"), Str("k")>>>>) EXCEPT !.format = f] :
              f \in {"json", "resp2"}}

Routings ==
  {Request(method, path, body) :
     method \in {"GET", "HEAD", "POST", "PUT", "DELETE", "BREW"}, body \in {<<"none">>, <<"text", "OK">>, <<"malformed">>},
     path \in {<<>>, <<"health">>, <<"metrics">>, <<"pipeline">>, <<"multi-exec">>, <<"subscribe", "ch">>,
               <<"subscribe", "a,b">>, <<"subscribe", "a", "b">>, <<"publish", "ch", "m">>,
               <<"publish", "a,b", "m">>, <<"SET", "k">>, <<"SET", "%">>}}

Commands == {Request("POST", <<>>, <<"array", Raw(p)>>) : p \in Protocol}

Entries == {<<Str("GET"), Str("k")>>, <<Str("EVAL"), Str("deep")>>, <<Str("HSET"), Str("k")>>,
            <<Str("KEYS"), Str("k")>>, <<Str("MULTI")>>, <<Str("GET"), <<"null">>>>, <<>>}
List == <<Str("LRANGE"), Str("l")>>
Batches ==
  {Request("POST", <<path>>, <<"batch", b>>) : path \in {"pipeline", "multi-exec"},
     b \in {<<e, f>> : e \in Entries \cup {List}, f \in Entries \cup {List}} \cup {<<>>, <<List, List, List>>}}

MCInputs ==
  r1 :> (Authentications \cup Formats \cup Routings \cup Commands \cup Batches
         \cup {Encoded(q) : q \in Commands \cup Batches})
  @@ r2 :> {Request("GET", <<"metrics">>, <<"none">>), Encoded(Request("POST", <<"SET", "k">>, <<"text", "OK">>))}

\* A reply that is too deep before and behind one that is not, in a batch.
DeepInputs ==
  LET get == <<Str("GET"), Str("k")>>
      deep == <<Str("EVAL"), Str("deep")>>
      batches == {Request("POST", <<path>>, <<"batch", b>>) :
                    path \in {"pipeline", "multi-exec"}, b \in {<<get, deep>>, <<deep, get>>}}
  IN  r1 :> (batches \cup {Encoded(q) : q \in batches}) @@ r2 :> batches

XreadInputs == r1 :> {Encoded(q) : q \in Commands} \cup Commands @@ r2 :> Commands

-----------------------------------------------------------------------------
Env(token, timeout, on) ==
  [token |-> token, timeout |-> timeout, metrics |-> "metrics" \in on, allowTokenQuery |-> "query" \in on,
   allowPlaceholder |-> "placeholder" \in on, blocked |-> <<"KEYS", "">>]

MCEnvs == {Env("s3cret", <<"unset">>, {"metrics", "query"}), Env("s3cret", <<"blank">>, {}),
           Env("s3cret", <<"num", 0>>, {"query"}), Env("test", <<"num", 5>>, {"placeholder"}),
           Env("TEST", <<"num", 5>>, {"query"}), Env("", <<"unset">>, {"query"})}
=============================================================================
