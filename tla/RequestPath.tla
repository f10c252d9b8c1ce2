---------------------------- MODULE RequestPath ----------------------------
(***************************************************************************)
(* One HTTP request through the server: configuration, the middleware in   *)
(* its order, routing, validation, the commands it sends, the shape of its *)
(* response, the request timeout and the metrics.  What happens between    *)
(* the server and Redis is the business of Transactions, what happens on   *)
(* an open stream that of Subscriptions.                                   *)
(***************************************************************************)
EXTENDS FiniteSets, Replies, Metrics, Filters

CONSTANTS
  Requests,      \* requests of the instance
  Inputs,        \* per request, the HTTP requests it may be
  Envs,          \* environments the server may be started in
  Protocol,      \* what Redis answers: [command, args, resp3, resp2]
  MaxCommands    \* config.maxPipelineCommands

ASSUME RequestsAssumption == IsFiniteSet(Requests)

\* A request has a path, an Authorization header, a query and a body.
ASSUME InputsAssumption ==
  \A r \in Requests : \A q \in Inputs[r] :
    /\ DOMAIN q = {"method", "path", "header", "query", "format", "base64", "body"}
    /\ q.path \in Seq(STRING) /\ q.header \in Seq(STRING) /\ q.query \in Seq(STRING \X STRING)
    /\ q.base64 \in BOOLEAN
    /\ q.body[1] = "batch" => Len(q.body[2]) \in Nat /\ DOMAIN q.body[2] = 1 .. Len(q.body[2])

VARIABLES
  env,       \* the environment
  shutting,  \* shuttingDown()
  pc,        \* "idle", "waiting" (for Redis) or "done"
  request,   \* the HTTP request
  calls,     \* the commands a waiting or finished handler has parsed
  replies,   \* Redis' replies to them
  answer,    \* the response the client was sent
  metrics    \* the state of metrics.ts

vars == <<env, shutting, pc, request, calls, replies, answer, metrics>>

None == [status |-> 0, body |-> <<"none">>]
Lost == <<"err", "lost">>   \* no reply, or one of an unknown command

-----------------------------------------------------------------------------
(* config.ts *)

PLACEHOLDER_TOKENS == {"your-secret-token-here", "changeme", "change-me", "secret",
                       "password", "token", "test"}
\* Of the tokens here, one has capitals.
ToLowerCase(token) == IF token = "TEST" THEN "test" ELSE token
IsPlaceholderToken(token) == ToLowerCase(token) \in PLACEHOLDER_TOKENS

DefaultTimeout == 30000

\* MUTANT of RequestTimeout: a blank value is coerced to a number.
RequestTimeoutCoerced(v) ==
  IF v = <<"unset">> THEN DefaultTimeout ELSE IF v = <<"blank">> THEN 0 ELSE v[2]

RequestTimeout(v) == IF v \in {<<"unset">>, <<"blank">>} THEN DefaultTimeout ELSE v[2]

\* The modules load: the schema parses and the token is acceptable.
Starts ==
  /\ env.token # ""
  /\ RequestTimeout(env.timeout) \in Nat
  /\ IsPlaceholderToken(env.token) => env.allowPlaceholder

\* UPREDIS_BLOCKED_COMMANDS, as a sequence of trimmed entries.
ParseCommandList(entries) == ToSet(entries) \ {""}

-----------------------------------------------------------------------------
(* Middleware *)

\* c.req.query("_token"): the first of that name.
QueryToken(q) ==
  LET tokens == {i \in DOMAIN q.query : q.query[i][1] = "_token"} IN
  IF tokens = {} THEN "" ELSE q.query[Min(tokens)][2]

\* authMiddleware: a header outdoes the query parameter.
Token(q) ==
  IF q.header # <<>>
    THEN IF Len(q.header) = 2 /\ q.header[1] = "bearer" THEN q.header[2] ELSE ""
    ELSE IF env.allowTokenQuery THEN QueryToken(q) ELSE ""

\* The status with which a middleware answers, or 0.
Guard(q) ==
  IF shutting THEN 503
  ELSE IF Token(q) # env.token THEN 401
  ELSE IF q.format \notin {"none", "json"} THEN 400
  ELSE 0

\* timeoutGate and timeoutMiddleware.
Timed(q) ==
  /\ ~(Len(q.path) > 1 /\ Head(q.path) \in {"subscribe", "psubscribe"})
  /\ RequestTimeout(env.timeout) # 0

-----------------------------------------------------------------------------
(* Routing.  Hono serves HEAD with the GET routes. *)

Get(q) == q.method \in {"GET", "HEAD"}
HealthPaths == {<<>>, <<"health">>, <<"livez">>, <<"readyz">>}

Route(q) ==
  LET n == Len(q.path)
      first == IF n = 0 THEN "" ELSE q.path[1]
      post == q.method = "POST"
  IN  IF Get(q) /\ q.path \in HealthPaths THEN "health"
      ELSE IF Get(q) /\ q.path = <<"metrics">> /\ env.metrics THEN "metrics"
      ELSE IF post /\ n = 1 /\ first \in {"pipeline", "multi-exec"} THEN first
      ELSE IF (post \/ Get(q)) /\ n = 2 /\ first \in {"subscribe", "psubscribe"} THEN "stream"
      ELSE IF post /\ n = 3 /\ first = "publish" THEN first
      ELSE IF post /\ n = 0 THEN "command"
      ELSE IF post \/ Get(q) \/ q.method = "PUT" THEN "path"
      ELSE "none"

\* Names of commands are case-insensitive; the names of the special routes
\* are commands, too, in a path that no special route takes.
Upper(name) ==
  CASE name = "subscribe" -> "SUBSCRIBE" [] name = "psubscribe" -> "PSUBSCRIBE"
    [] name = "publish" -> "PUBLISH" [] OTHER -> name

-----------------------------------------------------------------------------
(* Commands *)

\* MUTANT of QueryArgs: the token is taken for an argument like any other.
QueryArgsAll(query) ==
  FlattenSeq([i \in DOMAIN query |-> SelectSeq(query[i], LAMBDA x : x # "")])

\* The query without the token.
Arguments(query) == Keep(query, {pair \in ToSet(query) : pair[1] # "_token"})

QueryArgs(query) ==
  LET args == Arguments(query) IN
  FlattenSeq([i \in DOMAIN args |-> IF args[i][2] = "" THEN <<args[i][1]>> ELSE args[i]])

\* A segment decodeURIComponent throws at.
Undecodable == "%"

\* parsePathCommand, with the raw body of a POST or PUT before the query.
PathCall(q) ==
  LET body == CASE Get(q) \/ q.body[1] = "none" -> <<>>
                [] ~Get(q) /\ q.body[1] = "text" -> <<q.body[2]>>
                [] OTHER -> <<"JSON">>
  IN  [command |-> Upper(Head(q.path)), args |-> Tail(q.path) \o body \o QueryArgs(q.query)]

\* What has no command to send, not even one with an empty name.
NotACommand == [command |-> "", args |-> <<>>, invalid |-> TRUE]

\* parseCommandArray, on a sequence of tagged JSON values.
ParseCommandArray(raw) ==
  LET text(v) == IF v[1] = "bool" THEN (IF v[2] THEN "true" ELSE "false") ELSE v[2]
  IN  IF /\ raw # <<>> /\ raw[1][1] = "str"
         /\ \A i \in DOMAIN raw : raw[i][1] \in {"str", "num", "bool"}
        THEN [command |-> raw[1][2], args |-> [i \in 1 .. Len(raw) - 1 |-> text(raw[i + 1])]]
        ELSE NotACommand

ParsedCalls(q) ==
  CASE Route(q) = "path" -> <<PathCall(q)>>
    [] Route(q) = "publish" -> << [command |-> "PUBLISH", args |-> Tail(q.path)] >>
    [] Route(q) = "command" -> <<ParseCommandArray(q.body[2])>>
    [] OTHER -> [i \in DOMAIN q.body[2] |-> ParseCommandArray(q.body[2][i])]

\* checkBlockedCommand, as far as the routes depend on it; see CommandGate.
BLOCKED_COMMANDS == {"SUBSCRIBE", "PSUBSCRIBE", "MULTI"}
Sendable(call) ==
  call # NotACommand /\ call.command \notin BLOCKED_COMMANDS \cup ParseCommandList(env.blocked)

AllSendable(q) == \A i \in DOMAIN ParsedCalls(q) : Sendable(ParsedCalls(q)[i])

\* The calls that are sent, in their places.
SentCalls(q) ==
  [i \in DOMAIN ParsedCalls(q) |->
     IF Sendable(ParsedCalls(q)[i]) THEN ParsedCalls(q)[i] ELSE NotACommand]

\* isValidSubscriptionTarget; see SseEvents.
IsValidSubscriptionTarget(target) == target # "a,b"

\* An array of anything but arrays is a batch of entries like <<>>.
Batch(q) == q.body[1] = "batch" /\ Len(q.body[2]) <= MaxCommands

\* No 400 before anything is sent.
Valid(q) ==
  CASE Route(q) = "pipeline" -> Batch(q)
    [] Route(q) = "multi-exec" -> Batch(q) /\ AllSendable(q)
    [] Route(q) = "command" -> q.body[1] = "array" /\ AllSendable(q)
    [] Route(q) = "path" -> q.path # <<>> /\ Undecodable \notin ToSet(q.path) /\ AllSendable(q)
    [] Route(q) = "publish" -> IsValidSubscriptionTarget(q.path[2]) /\ AllSendable(q)

-----------------------------------------------------------------------------
(* Responses *)

Error(status) == [status |-> status, body |-> <<"error">>]
Ok(body) == [status |-> 200, body |-> body]

\* executeCommand and handlePublish: an error is a 400.
Single(entry) == IF entry = <<"error">> THEN Error(400) ELSE Ok(entry)

ExecResponse(cs, rs, base64) == Ok(<<"entries", ShapeExecResults(cs, rs, base64)>>)

PipelineResponse(cs, rs, base64) ==
  IF PipelineThrows(rs) THEN Error(500) ELSE Ok(<<"entries", ShapeExecResults(cs, rs, base64)>>)

Failed(rs) == \A i \in DOMAIN rs : rs[i] = Lost

\* What the handler makes of the replies.  A transaction also fails as a
\* whole: without a connection, or with an EXEC that is rejected or null.
Responses(q, rs) ==
  LET cs == ParsedCalls(q) IN
  CASE Route(q) = "pipeline" -> {PipelineResponse(cs, rs, q.base64)}
    [] Route(q) = "multi-exec" /\ Failed(rs) -> {Error(400), Error(500)}
    [] Route(q) = "multi-exec" /\ ~Failed(rs) -> {ExecResponse(cs, rs, q.base64)}
    [] Route(q) = "publish" -> {Single(ShapeExecResults(cs, rs, FALSE)[1])}
    [] OTHER -> {Single(ShapeExecResults(cs, rs, q.base64)[1])}

\* What Redis may answer: a command it does not know is an error, one that
\* spoils a whole transaction; a connection may go before the answer comes.
Redis(call) ==
  LET known == {p \in Protocol : p.command = call.command /\ p.args = call.args} IN
  IF call = NotACommand THEN {<<"err", "rejected">>}
  ELSE IF known = {} THEN {Lost} ELSE {Lost} \cup {p.resp3 : p \in known}

RedisReplies(q, cs) ==
  LET all == {rs \in [DOMAIN cs -> UNION {Redis(cs[i]) : i \in DOMAIN cs}] :
                \A i \in DOMAIN cs : rs[i] \in Redis(cs[i])}
  IN  IF Route(q) = "multi-exec"
        THEN {rs \in all : Failed(rs) \/ \A i \in DOMAIN rs : rs[i] # Lost} ELSE all

-----------------------------------------------------------------------------
(* Actions *)

NoRequest == [method |-> "none", path |-> <<>>, header |-> <<>>, query |-> <<>>,
              format |-> "none", base64 |-> FALSE, body |-> <<"none">>]

Init ==
  /\ env \in Envs
  /\ shutting = FALSE
  /\ pc = [r \in Requests |-> "idle"]
  /\ request = [r \in Requests |-> NoRequest]
  /\ calls = [r \in Requests |-> <<>>]
  /\ replies = [r \in Requests |-> <<>>]
  /\ answer = [r \in Requests |-> None]
  /\ metrics = NoMetrics

Arrives(r, q) ==
  /\ request' = [request EXCEPT ![r] = q]
  /\ UNCHANGED <<env, shutting, replies>>

\* The response leaves through loggerMiddleware; there is none but its status
\* line for a HEAD.
Answer(r, q, response) ==
  /\ answer' = [answer EXCEPT ![r] =
       IF q.method = "HEAD" THEN [response EXCEPT !.body = <<"none">>] ELSE response]
  /\ IF env.metrics
       THEN \E duration \in 1 .. NumBuckets + 1 :
              metrics' = RecordRequest(metrics, q.method, response.status, duration)
       ELSE UNCHANGED metrics

AnswerAtOnce(r, q, response) ==
  /\ Arrives(r, q) /\ Answer(r, q, response)
  /\ pc' = [pc EXCEPT ![r] = "done"] /\ UNCHANGED calls

\* Before the guards; see Health for the probes that ask Redis.
AnswerHealth(r, q) ==
  /\ Route(q) = "health"
  /\ \E status \in IF shutting THEN {503} ELSE IF q.path \in {<<>>, <<"livez">>} THEN {200} ELSE {200, 503} :
       AnswerAtOnce(r, q, [status |-> status, body |-> <<"probe">>])

AnswerMetrics(r, q) ==
  Route(q) = "metrics" /\ AnswerAtOnce(r, q, Ok(<<"exposition", FormatMetrics(metrics)>>))

Unguarded(q) == Route(q) \in {"health", "metrics"}

AnswerRefused(r, q) == ~Unguarded(q) /\ Guard(q) # 0 /\ AnswerAtOnce(r, q, Error(Guard(q)))

Passes(q) == ~Unguarded(q) /\ Guard(q) = 0

AnswerNotFound(r, q) == Passes(q) /\ Route(q) = "none" /\ AnswerAtOnce(r, q, Error(404))

\* The stream itself is modelled by Subscriptions; 503 is its cap.
OpenStream(r, q) ==
  /\ Passes(q) /\ Route(q) = "stream"
  /\ \E response \in IF IsValidSubscriptionTarget(q.path[2]) THEN {Ok(<<"stream">>), Error(503)}
                     ELSE {Error(400)} :
       AnswerAtOnce(r, q, response)

SendsCommands(q) == Passes(q) /\ Route(q) \notin {"none", "stream"}
EmptyBatch(q) == Route(q) \in {"pipeline", "multi-exec"} /\ q.body = <<"batch", <<>>>>

AnswerInvalid(r, q) == SendsCommands(q) /\ ~Valid(q) /\ AnswerAtOnce(r, q, Error(400))

AnswerEmpty(r, q) ==
  SendsCommands(q) /\ EmptyBatch(q) /\ AnswerAtOnce(r, q, Ok(<<"entries", <<>>>>))

Send(r, q) ==
  /\ SendsCommands(q) /\ Valid(q) /\ ~EmptyBatch(q)
  /\ Arrives(r, q)
  /\ calls' = [calls EXCEPT ![r] = SentCalls(q)]
  /\ pc' = [pc EXCEPT ![r] = "waiting"]
  /\ UNCHANGED <<answer, metrics>>

\* The handler is not cancelled.
RequestTimesOut(r) ==
  /\ pc[r] = "waiting" /\ answer[r] = None /\ Timed(request[r])
  /\ Answer(r, request[r], Error(504))
  /\ UNCHANGED <<env, shutting, pc, request, calls, replies>>

\* The response of a handler that comes too late goes nowhere.
Complete(r) ==
  /\ pc[r] = "waiting"
  /\ \E rs \in RedisReplies(request[r], calls[r]) :
       /\ replies' = [replies EXCEPT ![r] = rs]
       /\ IF answer[r] = None
            THEN \E response \in Responses(request[r], rs) : Answer(r, request[r], response)
            ELSE UNCHANGED <<answer, metrics>>
  /\ pc' = [pc EXCEPT ![r] = "done"]
  /\ UNCHANGED <<env, shutting, request, calls>>

BeginShutdown ==
  /\ Starts /\ ~shutting /\ shutting' = TRUE
  /\ UNCHANGED <<env, pc, request, calls, replies, answer, metrics>>

\* A request of any kind arrives.
Handle(r) ==
  /\ Starts /\ pc[r] = "idle"
  /\ \E q \in Inputs[r] :
       \/ AnswerHealth(r, q) \/ AnswerMetrics(r, q) \/ AnswerRefused(r, q)
       \/ AnswerNotFound(r, q) \/ OpenStream(r, q) \/ AnswerInvalid(r, q)
       \/ AnswerEmpty(r, q) \/ Send(r, q)

Next == BeginShutdown \/ \E r \in Requests : Handle(r) \/ RequestTimesOut(r) \/ Complete(r)

Spec == Init /\ [][Next]_vars

\* A timer fires.  Redis need not answer.
LiveSpec == Spec /\ \A r \in Requests : WF_vars(RequestTimesOut(r))

-----------------------------------------------------------------------------
(* Properties *)

Answered == {r \in Requests : answer[r] # None}

\* What /metrics would show agrees with what the clients were sent: a counter
\* per method and status, cumulative buckets that never fall, and +Inf equal to
\* the number of requests; a 504 counts once, and its late handler not at all
\* (recordRequest, formatMetrics, loggerMiddleware).
CountedAsSent ==
  LET m == FormatMetrics(metrics)
      with(key) == {r \in Answered : Key(request[r].method, answer[r].status) = key}
      of(label) == {r \in Answered : NormalizeMethod(request[r].method) = label}
  IN  env.metrics =>
        /\ BagToSet(m.totals) = {Key(request[r].method, answer[r].status) : r \in Answered}
        /\ \A key \in BagToSet(m.totals) : m.totals[key] = Cardinality(with(key))
        /\ \A label \in Labels :
             LET buckets == m.histograms[label] IN
             /\ \A i \in 1 .. NumBuckets : buckets[i] <= buckets[i + 1]
             /\ buckets[NumBuckets + 1] = Cardinality(of(label))

\* The arguments a client may give by path, body and query.
Words(q) ==
  ToSet(q.path) \cup {IF q.body[1] = "text" THEN q.body[2] ELSE "JSON"}
  \cup UNION {ToSet(pair) : pair \in {p \in ToSet(q.query) : p[1] # "_token"}}

\* Redis sees commands only from requests with the configured token, in the
\* header or, where that is allowed, in the query; the server never runs with
\* a placeholder the operator did not allow; the token of a query becomes no
\* argument of a command; and no blocked command is sent, not even among others
\* (authMiddleware, assertTokenNotPlaceholder, parsePathCommand).
Guarded ==
  \A r \in Requests : calls[r] # <<>> =>
    LET q == request[r] IN
    /\ \/ q.header = <<"bearer", env.token>>
       \/ q.header = <<>> /\ env.allowTokenQuery /\ <<"_token", env.token>> \in ToSet(q.query)
    /\ IsPlaceholderToken(env.token) => env.allowPlaceholder
    /\ \A i \in DOMAIN calls[r] :
         /\ Route(q) = "path" => ToSet(calls[r][i].args) \subseteq Words(q)
         /\ \/ calls[r][i] = NotACommand
            \/ calls[r][i].command \notin {"SUBSCRIBE", "PSUBSCRIBE", "MULTI"} \cup (ToSet(env.blocked) \ {""})

\* What the SDK makes of an entry is what a RESP2 server would have said.
EntryFaithful(r, i, entry) ==
  LET call == calls[r][i]
      reply == replies[r][i]
      client(v) == IF request[r].base64 THEN SdkDecode(v) ELSE v
  IN  IF reply[1] = "err" \/ TooDeep(reply) THEN entry = <<"error">>
      ELSE \E p \in Protocol :
             /\ p.command = call.command /\ p.args = call.args /\ p.resp3 = reply
             /\ entry[1] = "result" /\ client(entry[2]) = p.resp2

EntriesFaithful(r, entries) ==
  Len(entries) = Len(calls[r]) /\ \A i \in DOMAIN calls[r] : EntryFaithful(r, i, entries[i])

\* A successful answer gives, in the place of each command, its error or the
\* value a RESP2 server would have returned, whatever the nesting and the
\* encoding (normalizeResp3, flattenScorePairs, encodeResult).  That the client
\* library has lost the digits of an integer above 2^53 is no matter of these.
Faithful ==
  \A r \in Requests :
    answer[r].status = 200 /\ calls[r] # <<>> /\ answer[r].body # <<"none">> =>
      LET body == answer[r].body IN
      IF body[1] = "entries" THEN EntriesFaithful(r, body[2]) ELSE EntryFaithful(r, 1, body)

\* The commands of a batch ran, and no timeout was faster.
BatchRan(r) ==
  /\ pc[r] = "done" /\ calls[r] # <<>> /\ answer[r].status # 504
  /\ \/ Route(request[r]) = "pipeline"
     \/ Route(request[r]) = "multi-exec" /\ ~Failed(replies[r])

EntriesAnswered(r) ==
  answer[r].status = 200 /\ answer[r].body[1] = "entries" /\ EntriesFaithful(r, answer[r].body[2])

\* A command of a batch that goes wrong costs its own entry: it has its error
\* there, and each of its neighbours, all of which have run, the value a RESP2
\* server would have returned (pipeline.ts:71-83, shapeExecResults).  A
\* pipeline breaks this: a reply that is too deep costs all of its entries.
OwnEntryOnly == \A r \in Requests : BatchRan(r) => EntriesAnswered(r)

\* Unless the operator sets the timeout to 0, and not merely to nothing, a
\* request whose command Redis never answers is answered (envSchema,
\* timeoutMiddleware).
AnsweredUnlessDisabled ==
  \A r \in Requests :
    (pc[r] = "waiting" /\ env.timeout # <<"num", 0>>) ~> answer[r] # None
=============================================================================
