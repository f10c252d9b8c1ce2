# up-redis in TLA+

up-redis is an HTTP server (TypeScript on Bun, with the Hono framework) that gives Redis the REST
interface of Upstash: single commands, pipelines, transactions, and subscriptions as server-sent
events (SSE). It runs in one thread, so nothing is interrupted between two `await`s; what is hard is
everything that can happen *at* them: clients leave, Redis answers late or never, connections drop,
timers fire, the process is told to stop.

This directory holds TLA+ modules translated from the source, TLC configurations that check them on
small instances, and TLAPS proofs for every value of the constants. `PROJECT.json` says which
definition models which lines, lists the runs, one mutation of the code per checked property that
the run must catch, the hazards of the code, the findings and the theorems. Paths below are relative
to the repository; `src/` in them is the implementation's directory.

## 1. Inventory

| Component (source) | State it keeps | Operations | Correct when | Where |
|---|---|---|---|---|
| Slot limiter (`util/slot-limiter.ts`) | `count` | `reserve`, `release` | count = subscriptions holding a slot, never above the cap | `Subscriptions`, `SubscriptionPool` |
| Exact subscribe handler (`routes/pubsub.ts:104-256`) | per request: progress, dedicated Redis client, `disconnected`; globally `activeSubscriptions` | request, connect, SUBSCRIBE, confirm, keep-alive, teardown | every exit gives back slot, registry entry and connection | `Subscriptions` |
| Pattern subscribe handler (`routes/pubsub.ts:258-386`) | the same with a raw connection, `ready`, `pendingMessages` | the same with PSUBSCRIBE, error event for channels the format cannot carry | the same | `Subscriptions` |
| `closeAllSubscriptions`, graceful shutdown (`routes/pubsub.ts:414`, `index.ts:55-96`, `shutdown.ts`) | `isShuttingDown`, force timer | signal, abort all, drain, close Redis, second signal, force exit | nobody is missed, the drain ends | `Subscriptions` |
| Bounded SSE writer (`routes/pubsub.ts:53-93`) | `outstanding`, `stuck` | write, settle, give up | bounded backlog; never a silent gap | `SseStream`, `OrderedStream` |
| Confirmation-ordered buffer (`translate/pubsub.ts:44-76`) | `released`, `pending` | `push`, `release` | confirmation first, then every message in order | `SseStream`, `OrderedStream` |
| SSE event formatting (`translate/pubsub.ts:11-42`) | none | format, normalise a payload | the SDK reads back what was published | `SseEvents`, `PatternWire` |
| Raw pattern connection (`redis-pattern.ts:152-350`) | `socket`, `closed`, `pending` commands and timers | connect race, AUTH/SELECT/PSUBSCRIBE, data, close | replies go to their commands, no socket leaks, set-up settles | `PatternConnection` |
| RESP parser (`redis-pattern.ts:42-150`) | `buffer` | `push` | the values do not depend on how bytes are split | `RespParser`, `PatternWire` |
| Shared client and health cache (`redis.ts`) | `client`, `lastPingOk`, `lastPingTime` | `isRedisHealthy`, `onconnect`, `onclose` | the flag never contradicts the connection; probes do not stampede | `Health` |
| Health routes (`routes/health.ts`) | none | `/health`, `/readyz` | ok only while serving | `Health` |
| Transactions (`routes/multi-exec.ts`) | per request: dedicated connection, round trip awaited | validate, connect, MULTI, commands, EXEC, close | atomic, isolated, at most once, always finishes | `Transactions`, `AtomicStore` |
| Pipelines and single commands (`routes/pipeline.ts`, `routes/command.ts`) | none beyond the promises | validate, send all, settle | FIFO, results at their index, a command that goes wrong costs its own entry (a reply nested too deep costs a pipeline all of them: section 8) | `Transactions`, `RequestPath` |
| Request timeout (`middleware/timeout.ts`), `withTimeout` (`util/timeout.ts`) | timers | 504 while the handler goes on; rejection, late result dropped | every client is answered, once | `Transactions`, `RequestPath`, and as timer actions elsewhere |
| Command gate (`commands.ts`) | none | `checkBlockedCommand` | nothing that blocks reaches the shared connection, nothing harmless is refused | `CommandGate` |
| Reply translation (`translate/response.ts`, `score-pairs.ts`, `encoding.ts`, `transaction.ts`) | none | normalise, flatten, base64, one entry per reply | what the SDK decodes is what a RESP2 server would have said | `Replies`, `RequestPath` |
| Server: configuration, authentication, guards, routes (`config.ts`, `middleware/auth.ts`, `server.ts`, `routes/command.ts`) | none after the start | admit, route, parse | only admitted commands reach Redis | `RequestPath` |
| Metrics (`metrics.ts`, `middleware/logger.ts`) | counters, histograms | `recordRequest`, `formatMetrics` | counts what was sent, once | `Metrics`, `RequestPath` |
| Redis URL, log lines, process-level handlers | none | | | partly or not modelled, see section 9 |

**Interaction.** Health probes and `/metrics` are answered first. Other HTTP requests pass the shutdown guard,
authentication, the format guard and the request timeout (not for subscriptions) and reach a handler;
`loggerMiddleware`, outermost, counts every response as it leaves. Plain commands share one Redis client. A transaction and an
exact subscription each open a dedicated client without reconnect; a pattern subscription opens a
raw socket. A subscription hands messages from its connection's callback to the buffer, the bounded
writer and the SSE stream. It ends through `Promise.race` of "aborted" and "connection closed".
Shutdown sets a flag that handlers read after their awaits, walks the registry once, and waits for
the requests to drain. The health routes read a flag that PINGs and the shared client's callbacks write.

**Hard behaviour.** Six places release a slot; abort, drop and shutdown race with every await of
the set-up; messages race with the confirmation; a synchronous burst cannot free the writer;
sockets open and replies arrive after their timers; EXEC's outcome may be unknown; probes overlap.
`PROJECT.json` lists each hazard at its line with the properties that cover it.

## 2. Modules and plan

| Module | Models | Uses |
|---|---|---|
| `SubscriptionPool` | abstract: who holds one of at most `MaxSubscriptions` slots | |
| `Subscriptions` | both subscribe handlers, limiter, registry, shutdown | implements `SubscriptionPool` |
| `OrderedStream` | abstract: confirmation, then a gap-free prefix of what was published | |
| `SseStream` | one subscription's stream: buffer, writer, error event | implements `OrderedStream`; `Filters` |
| `PatternConnection` | the raw connection of one pattern subscription | |
| `RespParser` | the incremental RESP parser, on bytes | |
| `SseEvents` | event formatting, and the SDK's reading of it | `Filters` |
| `PatternWire` | from Redis' bytes to what the SDK reads, cut anywhere | composes `RespParser` and `SseEvents` with the push handler |
| `Health` | health cache and readiness probes | |
| `AtomicStore` | abstract: a transaction is one atomic step or none, everyone is told one outcome | |
| `Transactions` | `/multi-exec` beside `/pipeline` over Redis connections | implements `AtomicStore`; `Filters` |
| `CommandGate` | the option scan against Redis' own parser | |
| `Replies` | reply translation, and the SDK's decoding of it | |
| `Metrics` | counters and histograms | |
| `RequestPath` | a request from the socket to its response | composes `Replies` and `Metrics` with configuration, guards, routes, validation and timeout; `Filters` |
| `Filters` | `Keep`: the elements of a set out of a sequence, in their order | |
| `SequenceLemmas` | proved facts about sequences, and induction over data | `Filters` |
| `Subscriptions_proofs`, `Health_proofs`, `PatternConnection_proofs`, `Transactions_proofs`, `SseStream_proofs`, `RequestPath_proofs` | the theorems about these components | `SequenceLemmas` |
| `Parsing_proofs` | the theorems about the two parsers, `CommandGate` and `PatternWire` | `SequenceLemmas` |
| `MC*` | the constants of the instances TLC checks | |

What is left: `PatternSubscription`, `PatternConnection` composed with the pattern handler of `SseStream`, for
messages that are handed over after a close in the same chunk.

## 3. How the modules correspond to the code

**Subscriptions.** `pc[r]` is where a handler awaits: `idle`, `connecting` (opening its
connection), `subscribing` (exact only), `confirming` (the confirmation is being written),
`streaming` (the race), `closing` (past its cleanup, Hono closes the stream) and `done`, or
`refused`. An action is the code from one await to the next: `ExactConnects` includes the check
of the shutdown flag, the registration of the entry and of the abort listener; `Teardown` is the
finally block. `used` is the limiter's count, `active` the registry, `conn` the dedicated
connection, `disconnected` the handler's flag. `aborted` says that the stream was aborted; `woken`
that the exact handler's listener heard it, which it does only if it was registered before.
`Signal` is the signal handler up to and including `closeAllSubscriptions`, one synchronous
stretch. `Drained` ends the process when every request is over, `ForcedExit` when the force timer
or a second signal comes first.

**SseStream.** The messages of one data callback are handled in one stretch, so `Receive(k)` and
`Flush` write several messages while no write can settle; `WriteAll` is the bounded writer over such
a stretch. `wire` lists the events handed to the stream, `settled` how many of those writes have
settled. `kind` is the exact handler's buffer or the pattern
handler's copy of it; only the latter has `bad` channels and listens for an abort with a flag. Both are
chosen in `Init` and never change.

**PatternConnection.** `at` is the command whose promise `connect()` or `psubscribe()` awaits and
`outcome` how it settled; the code resumes in a later step, so a close can come between. `chunk`
counts the values left in the running data callback; until it is 0 nothing else runs. `socket`
(is `this.socket` set?) and `transport` (what the operating system has) are separate, because a
socket opens before, and sometimes after, anyone waits for it. A write takes all of a command, a part, or
nothing; the code notices only the last, and Redis never answers a part.

**RespParser, SseEvents, PatternWire.** Bytes and characters are short strings; a word such as `pmessage`
is one of them, a two-byte character is two bytes; `Symbol` is the set of all of them. `Push` is one data event: parse values until
the buffer runs short or the parser throws. `PatternWire` takes a script of values (or bytes that must be rejected), cuts its
encoding anywhere, and runs `handlePushMessage` and the handler's callback on what the parser returns.
What a script may hold is an assumption: values as Redis encodes them, simple ones and arrays of simple ones
(`ValuesAssumption`), bytes the parser rejects exactly at the last of them (`RawAssumption`), and messages that are
text, of patterns the handler accepted (`MessagesAssumption`).
JSON is numbers made of 1, strings and arrays of one number, with the line breaks that JSON allows between
tokens. The SDK splits an event at its first commas and parses the rest.

**Health.** Times are ages that saturate: `sincePing` is the age of `lastPingTime`, `ping[c]` that of
the PING caller c awaits. `proven` and `wedgedProbe` are history variables for the properties only.

**Transactions.** `at[t]` is the round trip awaited, `wire` and `inbox` what is under way on a
connection, `multi` and `queued` the state Redis keeps per connection, `log` what Redis executed, in
atomic blocks. Bytes written to a dedicated connection that was closed may still be executed until
`Forget`. A pipeline is all its commands at once on `Shared`, whose client reconnects and keeps an
offline queue. A single command is a pipeline with one valid entry.
`AtomicStore` sees only `log` and what each client was told. Replies carry the identity of their command, so
`EntriesMatch` is about what ran; that values stand in the entries of their commands is `Faithful`, of `RequestPath`.

**RequestPath, Replies, Metrics.** A request is a record: method, path segments, `Authorization` as scheme and
token, query pairs, format and encoding headers, and a body that is text, malformed JSON, an array or a batch of arrays. `env` is
the environment the process was started in; nothing happens unless `Starts`. `Handle` is everything up to
the first await: an answer at once, or `Send`, which records in `calls` what goes to Redis (`NotACommand`
where a pipeline's entry was rejected). `Complete` resumes with Redis' replies and shapes them,
`RequestTimesOut` sends the 504 and leaves the handler waiting. Replies are tagged values of any nesting;
`Protocol` is the table of what a RESP3 server answers, as Bun hands it over (an integer is a number, whose digits
beyond 2^53 are lost before this code sees them), and what a RESP2 server would have. The translation
recurses over a reply's parts (`AtDepth`, `Parts`), which exist only as deep as `normalizeResp3` looks; a reply that
goes on below is the one it throws at (`TooDeep`). `Words` are all the texts a request may turn into arguments,
and a query's token is none of them. `Metrics` keeps the counters as a bag and a duration as the number of its bucket.

**CommandGate.** One representative per list of commands; the argument list grows token by token, and
`RedisReads` is the option parser of Redis itself.

Redis, Bun and Hono are not part of this code (so `PatternConnection` lets Redis send bytes that are no
RESP at any time, but no well-formed reply that nobody asked for). They are modelled from how the code
uses them and marked external in the map.

## 4. Runs

| Run | Instance | What it shows |
|---|---|---|
| `subs` | 1 exact, 2 pattern, 1 malformed request, 2 slots; one consumer may stop reading | slots and connections stay in step at every interleaving; shutdown misses nobody; the handlers implement `SubscriptionPool`; a heard abort frees the slot even of a client that never reads; drops and incompatible channels free those that do; the drain ends by itself |
| `subs_lost_abort` | violation | an abort while an exact subscription is connecting is lost |
| `sse` | both handlers, 6 messages of which any may be incompatible, 3 outstanding writes | the stream implements `OrderedStream`, nothing is held back, the backlog is bounded; a stuck writer or a gap ends the subscription |
| `sse_error_first` | violation | the error event can precede the confirmation |
| `pattern_socket` | AUTH, SELECT, PSUBSCRIBE, pushes, partial writes | replies matched, no leaked socket, no open subscription on a dead one; the set-up settles whatever Redis does |
| `parsing` | every list of up to 8 tokens, also behind a GROUP header; 2 values of every kind the code tells apart, cut at every byte | gate and Redis agree on what blocks; chunk borders are invisible; what the SDK reads is what was published |
| `health_cache` | 3 callers, cache 1, timeout 5 | the flag never contradicts the connection; no stampede; a silent Redis is found; no ok while draining |
| `health_stale` | violation | an old result is served as fresh while a PING is in flight |
| `tx_safety` | 1 transaction, 1 pipeline, 3 commands each | whole blocks, `AtomicStore` is implemented, an early failure never runs, entries match; handlers finish and clients are answered, though Redis may be silent |
| `request_path` | one request of some 500 kinds beside another, 6 environments | only admitted commands reach Redis; answers are what a RESP2 server would have said; metrics count what was sent; a blank timeout is no disabled one |
| `pipeline_deep` | violation: batches of a reply that is too deep and one that is not | `OwnEntryOnly` fails: a pipeline answers 500 for all its commands, though all have run |
| `xread_shape` | violation | the reply of XREAD does not get its RESP2 shape |

Every property of a passing run has a mutant: a plausible bug, written next to the definition it
would replace and marked `MUTANT of`, that the run must report.

`CommandGate` and `PatternWire` share the run `parsing`: they have no variable in common, so `MCParsing` lets the argument
list grow only beside a connection on which nothing arrives, and every state of either is reached.

`CHECK_DEADLOCK FALSE` is given only where the system stops: subscriptions end, a finite set of
requests is served, an argument list is complete.

## 5. Bounds and why they are enough

- **Requests.** Subscriptions interact through the limiter, the registry and shutdown only, so three
  and two slots show contention, a full pool, and both kinds racing; a malformed request
  beside them must be refused without touching any of it. Two
  transactions share no connection, and a transaction meets plain commands only on Redis' side, so one of
  each with three commands reaches every way a block could be mixed up.
- **Six messages and `MaxOutstanding = 3`** (1024 in the code): the bound can be met exactly, overrun by
  one chunk, by a flush, and after writes have settled.
- **RequestPath.** Requests share `env`, the shutdown flag and the metrics only, so one of every kind beside one of two
  kinds shows each pair of actions. `MaxNormalizeDepth = 2` (64) is met exactly and exceeded by one; a batch of 3 exceeds
  `MaxCommands = 2`; two duration buckets (11) tell "first" from "each". `Protocol` has one command per shape of reply; XREAD,
  which is known to fail, is in the run `xread_shape` alone. `OwnEntryOnly`, also known to fail, is checked in `pipeline_deep` alone.
- **PatternWire.** Two items, each cut at every byte: what a chunk leaves in the buffer meets what follows. Limits of
  the parser and of names (`MaxDepth`, `MaxBulk`, `MaxName`) are small enough to be exceeded. The proofs need none of this.
- **PatternConnection** needs one message before, one after, and one in the same chunk as a close.
- **Health.** `PingTimeout = 5`, `PingCache = 1` are the code's 5 s and 1 s. Three callers let two PINGs
  overlap with a cached answer. Ages saturate, so there is no bound on time.
- **CommandGate.** `XREADGROUP GROUP STREAMS c BLOCK 1 STREAMS k id`, the shortest list in which a value
  hides a blocking option, has eight tokens; each list is also tried behind a first header.

## 6. Fairness

- `CodeFairness` (`Subscriptions`): a connect and a SUBSCRIBE settle, because the code bounds both with
  10 s timers; a resolved promise resumes its handler; writes and closes of an *aborted* stream settle,
  because Hono cancels the stream. Nothing is assumed of clients or of Redis.
- `ConsumersRead` adds that pending writes settle for every request outside `Stalled`: a client reads, or
  Bun reaps its connection after `idleTimeout: 255` (`src/index.ts:46`). `Stalled` names the consumers of
  whom nothing is assumed. `HeardAbortReleases` holds for them, too; `DropReleases` and
  `IncompatibleReleases` do not, because the handler awaits the confirmation, or the error event, they never
  read; and `DrainCompletes` says that the only thing a drain can be left waiting for is the closing
  response of a stalled consumer whose stream was not aborted.
- `SseStream!LiveSpec`: the handler resumes, and writes settle while the consumer reads.
- `PatternConnection!LiveSpec`, `Transactions!LiveSpec`, `RequestPath!LiveSpec`: only the code's timers
  (`COMMAND_TIMEOUT_MS`, `UPREDIS_REQUEST_TIMEOUT`) and promises. Redis owes
  nothing. With the request timeout disabled (0) a pipeline on a silent connection has no bound at all,
  and `EveryRequestAnswered` would not hold of it; `AnsweredUnlessDisabled` says so by its name.

## 7. Proofs

Every theorem holds for all values of the constants, under the named assumptions of the modules only:
finite or disjoint sets of requests, positive caps, sizes and timeouts, for `RequestPath` the fields an
HTTP request has (`InputsAssumption`) and a number of buckets, and for `PatternWire` what Redis sends (section 3). Each
proof module has an inductive invariant `Inv`, proved as `InvHolds` (`GateInv` and `WireInv` where two components share one); `Init => Inv` and one step or lemma per action lead there, and the theorems follow from it.

`SequenceLemmas`. Induction over data needs a theorem with a predicate, which the provers cannot
instantiate. It is stated for sets instead: a set of numbers that holds 0 and with each number the next is
`Nat` (`SetInduction`), a set of sequences that holds the empty one and all extensions of its members is `Seq(T)`
(`SeqInduction`). A recursive function is first shown to exist (`KeptExists`, and `SumsExist`, `FlatExists` and their
like elsewhere), after which its equation may be used.

`Subscriptions_proofs`: the inductive invariant is `TypeOK /\ Slots /\ Closing`.
`Slots` (`SlotAccounting` and the cap) is inductive given the types: `NextIsSlotStep` reduces
all handlers to four shapes (take a slot, give one back, move without touching the limiter, nothing), and
three lemmas count the holders for each. `ShutdownClosesAll` is not inductive alone: that the
snapshot misses nobody needs `RegistryExact` while the server runs, that nobody registers later
without closing needs `RegistryEmptied`, and both need a connection's state to follow its handler
(`ConnMatchesPc`). From the invariant follow `SlotsAccounted`, `ShutdownCloses`, `RegistryIsExact`,
`ConnectionsCapped` (open connections are a subset of the holders, hence at most the cap)
and `ImplementsPool`: each step is a step of `SubscriptionPool` or a stutter.

`Health_proofs`: `HealthyMeansConnected` is inductive with the types. `NoStampede` needs `NoneYounger`,
that every PING in flight is at least as old as `lastPingTime` says. `WedgeIsDetected` needs `WedgePending`: where
the first PING sent to a silent Redis is until it times out. `OkIsServing` uses the invariant for
answers from the cache, which read a flag set by another caller's PING.

`PatternConnection_proofs`: replies carry no names, so matching them (`RepliesAreMatched`) rests on two facts.
`SingleFlight`: at most the awaited command is pending. `Conversation`: what Redis owes and has sent is at
most one reply, to this very command, and pushes come only behind the last one. `SocketFollowsHandler` ties
`socket`, `closed` and the transport to where the handler is; from it follow `SocketsAreReleased` and `OpenIsUp`.

`Transactions_proofs`, for any number of transactions, pipelines and commands. `TxInv` says, for each
transaction, how far Redis has come with its dedicated connection: nothing before it is up (`Idle`), one request
(`Asking`) or one reply (`Answered`) under way, and what a reply that arrived, or a block not yet executed, implies
(`Replied`). `Local` frames it: a step of one request leaves the others' `TxInv` alone. All pipelines share a
connection, so theirs is one invariant: only commands that were sent, each pipeline's in order (`SharedWire`),
replies only to commands that ran (`SharedReplies`), and what is still to run comes after what ran (`SharedOrder`).
From these follow `BlocksAreWhole`, `EarlyFailureIsFinal`, `EntriesAreTheirOwn` and the refinement
`ImplementsAtomicStore`, whose steps need that a block is executed at most once.

`SseStream_proofs`, for any number of messages and any bound of the writer: the messages on the wire are
1, 2, ..., those in the buffer follow (`Consecutive`), the confirmation is in front (`Confirmed`), a report is of the
first message that cannot be represented (`Reported`), and the writer's counter is the number of unsettled
messages (`Counter`). The writer's stretch over k messages is proved once, as what it does to runs of
consecutive numbers. From it follow `BacklogIsBounded`, `NothingIsWithheld` and `ImplementsOrderedStream`.

`Parsing_proofs`, `CommandGate`, for argument lists of any length and any set of extra blocked commands: gate and Redis
read a list from a position on, so the two are compared from the end of the list backwards (`ScanAgrees`). From the
agreement follow `GateIsTight` (nothing that blocks passes) and `GateIsFair` (nothing harmless is refused).

`Parsing_proofs`, `PatternWire`, for any alphabet, limits, scripts of any length, values of any size and any way to cut
them. What the parser finds in a buffer it finds wherever the buffer is part of a longer one,
except that "more" may turn into a result (`ParsedInWindow`); this is what makes a cut harmless, and it is proved by
induction on the nesting and the elements. What Redis encodes is parsed as what it is, and none of its
beginnings is parsed at all (`ItemParsed`): lengths are read as they were spelled (`DigitsRead`), lines end at the first
CR LF, and a text survives its bytes (`Utf8Read`). So the loop in `push` returns the items that are complete and keeps
the bytes behind them, or throws at the first that is to be rejected (`ParseChain`, `ParseArrived`). The inductive
invariant `WireInv` says this of the subscription: the number of bytes that have arrived decides which items have been
handled, whether one was fatal, and what waits in the buffer. To `SplitInvisible` it adds that `stream` spells `script`,
and `EventsAre`: the handler has made one event of each message up to the first it cannot represent.
`EventsFaithfulHolds` adds the reading: a payload becomes one line of JSON that means the same
(`PayloadIs`), a name without commas is a field (`CommaIs`), so the SDK finds the fields where the server put them
(`EventRead`), and the error event where it may stand for a message (`ErrorRead`).

`RequestPath_proofs`, for any requests, environments, replies and limits. `Admitted`: whatever was sent had passed
all guards of a server that started. `Shaped`: what a handler answered in time is made of replies to its calls.
`Counts`: the state of `metrics.ts` counts the answers, by method and status and by method. `MetricsCountAnswers`
(the property `CountedAsSent`) adds that cumulative sums never fall and never exceed `+Inf`, because a duration falls into one
bucket at most (`CumulativeHit`). `OnlyAdmittedAreSent` (`Guarded`) needs what flattening the query's pairs yields
(`QueryWords`). `Faithful` is a statement about the table of replies as much as
about the code, so `AnswersAreFaithful` has that as its hypothesis: if the translation of each single reply is
right (`TableFaithful`), then every successful answer of every route is, whatever the number of commands, the errors, losses and
timeouts among them. The hypothesis is no formality: the replies of `request_path` satisfy it, the one of
`xread_shape` does not. `OnlyDepthSpreads` says how far the finding of `pipeline_deep` reaches: under the same hypothesis, every
batch that ran, except a pipeline with a reply that is too deep, is answered with 200 and in each entry its own command's
error or RESP2 value; a transaction with such a reply is among them.

**Model-checked only:** all liveness properties (fairness and ENABLED are out of the prover's reach), and that the
translation of each reply in the table is right (the hypothesis of `AnswersAreFaithful`, which `request_path` tries on
every reply, with and without base64). JSON is the small language of `SseEvents` in the proofs too.

## 8. Findings

- `subs_lost_abort` (code bug, `src/routes/pubsub.ts:171`). The exact handler registers its abort
  listener after its connection is open and never looks at `stream.aborted`. A client that
  leaves in between is not noticed: slot and connection are kept until Redis drops or the server
  stops. The pattern handler registers first and checks again.
- `sse_error_first` (`src/routes/pubsub.ts:312`). The error event of an incompatible channel is written
  past the buffer and can be the first event of a stream whose first event should be the confirmation.
- `health_stale` (`src/redis.ts:94`). `lastPingTime` is set when a PING is sent, so callers that overlap
  it are given the previous result as fresh, however old it is.
- `xread_shape` (`src/translate/response.ts:68`). Every RESP3 map becomes a flat array, but the RESP2 reply of XREAD
  is an array of `[stream, entries]` pairs: the client gets one level less.
- `pipeline_deep` (`src/routes/pipeline.ts:74`). `normalizeResp3` throws at a reply nested deeper than
  `MAX_NORMALIZE_DEPTH`, and the mapping of `/pipeline` does not catch it, unlike `shapeExecResults`: after all commands have
  run, the client gets one 500 and none of the results. `docs/audit/runs/2026-10-28-sweep.md:93` says "Pipeline
  command errors deliberately remain HTTP 200 error slots", and `tests/integration/pipeline.test.ts:39` that a
  "per-command error does not abort pipeline".

Further observations, not findings: the bound on unsettled writes (`src/routes/pubsub.ts:74`) also hits
one burst longer than it, although the consumer had taken everything before, because no write settles
within a callback. A pattern subscription whose connect timed out frees its slot
while its socket may still be opening (it is terminated as it opens, `NoLeakedSocket`), so the number of
sockets can exceed the cap for a moment. Values parsed before bad bytes in the same chunk
are lost with the connection. With an incompatible channel, messages still in the buffer are written after
the error event; `Ordered` orders messages among themselves and reports among themselves. A 504 says nothing about whether a
transaction ran, nor does a timeout of EXEC.

## 9. Not modelled

- Redis URLs: only which commands a URL makes the handshake send (`HasPassword`, `HasDb`); the text is data.
- Options that are numbers or names only (ports, log level, body size), and the advice on weak tokens.
- Log lines, response headers, `x-request-id`: no property depends on them. Hashing of tokens: a comparison in
  constant time is no matter of states.
- The process-level handlers of uncaught errors, which log or exit.
- Keep-alive comments: their only effect on the state is a flag that stops further comments and messages on a
  stream that is already cancelled.
- Branches of the translation for values Bun's client does not return (`DataView`, `undefined`, a bigint that escaped
  normalisation).
- The sum of durations in a histogram, and the text of the exposition.
