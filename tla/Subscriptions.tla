--------------------------- MODULE Subscriptions ---------------------------
(***************************************************************************)
(* The life of the two kinds of SSE subscription (exact channel, pattern), *)
(* the slot limiter that caps them, the registry that graceful shutdown    *)
(* walks, and the shutdown itself.  A handler is a process that runs from  *)
(* one await to the next: every action below is the code between two       *)
(* awaits, or one event of the environment.                                *)
(*                                                                         *)
(* pc of a request:                                                        *)
(*   idle --> refused                        4xx/5xx, nothing is held      *)
(*   idle --> connecting                     slot reserved, Redis connect  *)
(*            connecting --> subscribing     exact: SUBSCRIBE is awaited   *)
(*            subscribing/connecting --> confirming   first SSE event      *)
(*            confirming --> streaming       waits for abort or Redis drop *)
(*   ... --> closing --> done                slot released, response ends  *)
(***************************************************************************)
EXTENDS Integers, FiniteSets

CONSTANTS
  Exact,             \* requests to /subscribe/:channel
  Pattern,           \* requests to /psubscribe/:pattern
  Malformed,         \* requests whose target fails isValidSubscriptionTarget
  Stalled,           \* requests whose consumer may stop reading for good
  MaxSubscriptions   \* config.maxSubscriptions

Requests == Exact \cup Pattern

ASSUME RequestsAssumption ==
  /\ IsFiniteSet(Requests)
  /\ Exact \cap Pattern = {}
  /\ Malformed \subseteq Requests
  /\ Stalled \subseteq Requests

ASSUME MaxAssumption == MaxSubscriptions \in Nat \ {0}

VARIABLES
  pc,            \* where each request's handler is
  used,          \* the limiter's counter
  active,        \* activeSubscriptions
  conn,          \* each request's dedicated Redis connection
  aborted,       \* streams with stream.aborted set
  woken,         \* handlers whose abortPromise has resolved
  disconnected,  \* the pattern handler's `disconnected` flag
  phase          \* "running", "draining", "exit0" or "exit1"

vars == <<pc, used, active, conn, aborted, woken, disconnected, phase>>

PCs == {"idle", "refused", "connecting", "subscribing", "confirming",
        "streaming", "closing", "done"}

\* Handlers past activeSubscriptions.add and before their finally block.
Registered == {"subscribing", "confirming", "streaming"}

\* Handlers that hold a slot of the limiter.
Holding == {"connecting"} \cup Registered

TypeOK ==
  /\ pc \in [Requests -> PCs]
  /\ used \in Nat
  /\ active \subseteq Requests
  /\ conn \in [Requests -> {"none", "opening", "open", "closed"}]
  /\ aborted \subseteq Requests
  /\ woken \subseteq aborted
  /\ disconnected \subseteq Pattern
  /\ phase \in {"running", "draining", "exit0", "exit1"}

Init ==
  /\ pc = [r \in Requests |-> "idle"]
  /\ used = 0
  /\ active = {}
  /\ conn = [r \in Requests |-> "none"]
  /\ aborted = {}
  /\ woken = {}
  /\ disconnected = {}
  /\ phase = "running"

-----------------------------------------------------------------------------
(* Helpers *)

Alive == phase \in {"running", "draining"}

At(r, p) == Alive /\ pc[r] = p

Goto(r, p) == pc' = [pc EXCEPT ![r] = p]

\* SlotLimiter.reserve() when it returns true.
Reserve == used < MaxSubscriptions /\ used' = used + 1

\* MUTANT of Release: the counter is not floored and loses two.
ReleaseTwice == used' = used - 2

Release == used' = IF used > 0 THEN used - 1 ELSE used

\* MUTANT of Listening: the pattern handler, too, registers late.
ListeningLate(r) == pc[r] \in Registered

\* Whether the handler has called stream.onAbort: the pattern handler does so
\* before its first await, the exact handler only once it is connected.
Listening(r) == r \in Pattern \/ pc[r] \in Registered

\* stream.abort() on every stream of S: the first call runs the listeners
\* registered by then, later calls do nothing.
Abort(S) ==
  LET fresh == S \ aborted
      heard == {r \in fresh : Listening(r)}
  IN  /\ aborted' = aborted \cup fresh
      /\ woken' = woken \cup heard
      /\ disconnected' = disconnected \cup (heard \cap Pattern)

Untouched == UNCHANGED <<aborted, woken, phase>>

-----------------------------------------------------------------------------
(* Entering the handler: one synchronous stretch from shutdownGuard to the
   first await inside streamSSE *)

\* MUTANT of Refuse: the cap bites one subscription too early.
RefuseEarly(r) ==
  /\ At(r, "idle")
  /\ phase # "running" \/ r \in Malformed \/ used + 1 >= MaxSubscriptions
  /\ Goto(r, "refused")
  /\ UNCHANGED <<used, active, conn, disconnected>> /\ Untouched

Refuse(r) ==
  /\ At(r, "idle")
  /\ phase # "running" \/ r \in Malformed \/ used >= MaxSubscriptions
  /\ Goto(r, "refused")
  /\ UNCHANGED <<used, active, conn, disconnected>> /\ Untouched

Admit(r) ==
  /\ At(r, "idle")
  /\ phase = "running"
  /\ r \notin Malformed
  /\ Reserve
  /\ Goto(r, "connecting")
  /\ conn' = [conn EXCEPT ![r] = "opening"]
  /\ UNCHANGED <<active, disconnected>> /\ Untouched

-----------------------------------------------------------------------------
(* The connection settles *)

\* MUTANT of GiveUp: an early exit forgets its slot.
GiveUpKeepingSlot(r) ==
  /\ Goto(r, "closing")
  /\ conn' = [conn EXCEPT ![r] = "closed"]
  /\ UNCHANGED <<used, active>>

\* The exits before the try block: slot and connection are given back, and
\* stream.close() is awaited.  An entry added in the same stretch is deleted.
GiveUp(r) ==
  /\ Goto(r, "closing")
  /\ Release
  /\ conn' = [conn EXCEPT ![r] = "closed"]
  /\ UNCHANGED active

Register(r, p) ==
  /\ Goto(r, p)
  /\ active' = active \cup {r}
  /\ conn' = [conn EXCEPT ![r] = "open"]
  /\ UNCHANGED used

ConnectFails(r) ==
  /\ At(r, "connecting")
  /\ GiveUp(r)
  /\ UNCHANGED disconnected /\ Untouched

\* MUTANT of ExactConnects: the shutdown race after the await is not checked.
ExactConnectsBlindly(r) ==
  /\ r \in Exact
  /\ At(r, "connecting")
  /\ Register(r, "subscribing")
  /\ UNCHANGED disconnected /\ Untouched

ExactConnects(r) ==
  /\ r \in Exact
  /\ At(r, "connecting")
  /\ IF phase = "running" THEN Register(r, "subscribing") ELSE GiveUp(r)
  /\ UNCHANGED disconnected /\ Untouched

\* createPatternSubscription resolves with the PSUBSCRIBE reply.  Messages of
\* the same chunk are handled before the handler resumes: `bad` says that one
\* of them came from a channel the wire format cannot carry.
PatternConnects(r, bad) ==
  /\ r \in Pattern
  /\ At(r, "connecting")
  /\ disconnected' = disconnected \cup (IF bad THEN {r} ELSE {})
  /\ IF phase = "running" /\ r \notin disconnected'
       THEN Register(r, "confirming")
       ELSE GiveUp(r)
  /\ Untouched

-----------------------------------------------------------------------------
(* Registered handlers *)

\* MUTANT of Teardown: the dedicated connection stays open.
TeardownLeakingConnection(r) ==
  /\ Goto(r, "closing")
  /\ active' = active \ {r}
  /\ Release
  /\ UNCHANGED <<conn, disconnected>> /\ Untouched

\* The finally block, up to the stream.close() that streamSSE makes.
Teardown(r) ==
  /\ Goto(r, "closing")
  /\ active' = active \ {r}
  /\ Release
  /\ conn' = [conn EXCEPT ![r] = "closed"]
  /\ UNCHANGED disconnected /\ Untouched

SubscribeSucceeds(r) ==
  /\ At(r, "subscribing")
  /\ conn[r] = "open"
  /\ Goto(r, "confirming")
  /\ UNCHANGED <<used, active, conn, disconnected>> /\ Untouched

\* An error reply, a connection lost or closed meanwhile, or the 10 s timer.
SubscribeFails(r) ==
  /\ At(r, "subscribing")
  /\ Teardown(r)

\* The confirmation write settles: the consumer read it, or it was given up.
ConfirmWritten(r) ==
  /\ At(r, "confirming")
  /\ Goto(r, "streaming")
  /\ UNCHANGED <<used, active, conn, disconnected>> /\ Untouched

ConfirmRejected(r) ==
  /\ At(r, "confirming")
  /\ r \in aborted
  /\ Teardown(r)

ConfirmSettles(r) == ConfirmWritten(r) \/ ConfirmRejected(r)

\* MUTANT of Woken: the race does not look at the Redis connection.
WokenByAbortOnly(r) == r \in woken

\* Promise.race([abortPromise, redisClosePromise / sub.closed])
Woken(r) == r \in woken \/ conn[r] = "closed"

StreamEnds(r) ==
  /\ At(r, "streaming")
  /\ Woken(r)
  /\ Teardown(r)

\* MUTANT of Closes: a response ends only when its client goes away.
ClosesWithClientOnly(r) ==
  /\ At(r, "closing") /\ r \in aborted
  /\ Goto(r, "done")
  /\ UNCHANGED <<used, active, conn, disconnected>> /\ Untouched

\* stream.close() settles and the response is over.
Closes(r) ==
  /\ At(r, "closing")
  /\ Goto(r, "done")
  /\ UNCHANGED <<used, active, conn, disconnected>> /\ Untouched

\* A pattern matched a channel that cannot be represented: the handler stops
\* writing data and aborts once its error event has been written.
IncompatibleChannel(r) ==
  /\ r \in Pattern \ disconnected
  /\ Alive /\ pc[r] \in {"confirming", "streaming"}
  /\ conn[r] = "open"
  /\ disconnected' = disconnected \cup {r}
  /\ UNCHANGED <<pc, used, active, conn>> /\ Untouched

\* MUTANT of ErrorWritten: the stream is not aborted after the error event.
ErrorWrittenOnly(r) == r \in disconnected \ aborted /\ Alive /\ UNCHANGED vars

ErrorWritten(r) ==
  /\ r \in disconnected \ aborted
  /\ Alive
  /\ Abort({r})
  /\ UNCHANGED <<pc, used, active, conn, phase>>

\* The bounded writer has too many unsettled writes and calls onStuck.
Stuck(r) ==
  /\ At(r, "streaming")
  /\ conn[r] = "open"
  /\ r \notin aborted \cup disconnected
  /\ Abort({r})
  /\ UNCHANGED <<pc, used, active, conn, phase>>

-----------------------------------------------------------------------------
(* The environment *)

\* The client goes away: the response body is cancelled, which aborts it.
ClientDisconnects(r) ==
  /\ Alive /\ pc[r] \in Holding \cup {"closing"}
  /\ r \notin aborted
  /\ Abort({r})
  /\ UNCHANGED <<pc, used, active, conn, phase>>

RedisDrops(r) ==
  /\ Alive /\ pc[r] \in Registered
  /\ conn[r] = "open"
  /\ conn' = [conn EXCEPT ![r] = "closed"]
  /\ UNCHANGED <<pc, used, active, disconnected>> /\ Untouched

-----------------------------------------------------------------------------
(* Graceful shutdown *)

\* The first signal: setShuttingDown and closeAllSubscriptions run in one
\* synchronous stretch over a snapshot of the registry.
Signal ==
  /\ phase = "running"
  /\ phase' = "draining"
  /\ active' = {}
  /\ Abort(active)
  /\ conn' = [r \in Requests |-> IF r \in active THEN "closed" ELSE conn[r]]
  /\ UNCHANGED <<pc, used>>

\* server.stop() resolves once every response is over (finished, or aborted).
Drained ==
  /\ phase = "draining"
  /\ \A r \in Requests : pc[r] \in {"idle", "refused", "done"} \/ r \in aborted
  /\ phase' = "exit0"
  /\ UNCHANGED <<pc, used, active, conn, aborted, woken, disconnected>>

\* A second signal, or the shutdown timer.
ForcedExit ==
  /\ phase = "draining"
  /\ phase' = "exit1"
  /\ UNCHANGED <<pc, used, active, conn, aborted, woken, disconnected>>

-----------------------------------------------------------------------------

Handler(r) ==
  \/ Refuse(r) \/ Admit(r)
  \/ ConnectFails(r) \/ ExactConnects(r) \/ \E bad \in BOOLEAN : PatternConnects(r, bad)
  \/ SubscribeSucceeds(r) \/ SubscribeFails(r)
  \/ ConfirmWritten(r) \/ ConfirmRejected(r)
  \/ StreamEnds(r) \/ Closes(r)
  \/ IncompatibleChannel(r) \/ ErrorWritten(r) \/ Stuck(r)

Environment(r) == ClientDisconnects(r) \/ RedisDrops(r)

Shutdown == Signal \/ Drained \/ ForcedExit

Next == (\E r \in Requests : Handler(r) \/ Environment(r)) \/ Shutdown

Spec == Init /\ [][Next]_vars

-----------------------------------------------------------------------------
(* Fairness *)

\* What the event loop and the code's own timers guarantee: a connect and a
\* SUBSCRIBE settle (10 s timers), a resolved promise resumes its handler, a
\* write or close on an aborted stream settles, and the drain is noticed.
CodeFairness ==
  /\ \A r \in Requests :
       /\ WF_vars(ConnectFails(r) \/ ExactConnects(r) \/ \E bad \in BOOLEAN : PatternConnects(r, bad))
       /\ WF_vars(SubscribeSucceeds(r) \/ SubscribeFails(r))
       /\ WF_vars(r \in aborted /\ ConfirmSettles(r))
       /\ WF_vars(StreamEnds(r))
       /\ WF_vars(r \in aborted /\ Closes(r))
  /\ WF_vars(Drained)

\* Every other consumer reads what it is sent, or its connection is reaped
\* (Bun's idleTimeout), so that pending writes settle.
ConsumersRead ==
  \A r \in Requests \ Stalled :
    WF_vars(ConfirmSettles(r)) /\ WF_vars(Closes(r)) /\ WF_vars(ErrorWritten(r))

LiveSpec == Spec /\ CodeFairness /\ ConsumersRead

-----------------------------------------------------------------------------
(* Safety *)

Holders == {r \in Requests : pc[r] \in Holding}

\* The limiter's counter is the number of handlers that hold a slot: no exit
\* path releases twice or not at all (pubsub.ts releases in six places).
SlotAccounting == used = Cardinality(Holders)

\* The connections to Redis that are open or being opened never exceed the
\* cap, whatever the interleaving of connects, drops and shutdown.
Connections == {r \in Requests : conn[r] \in {"opening", "open"}}

ConnectionsBounded == Cardinality(Connections) <= MaxSubscriptions

\* A connection outlives no handler: one that is open or being opened belongs
\* to a handler that still holds its slot and will close it.
NoOrphanConnection ==
  \A r \in Requests : conn[r] \in {"opening", "open"} => pc[r] \in Holding

\* While the server runs, the registry that shutdown walks holds exactly the
\* handlers with a finally block ahead of them.
RegistryExact ==
  phase = "running" => active = {r \in Requests : pc[r] \in Registered}

\* From the signal on, every handler past its registration has had its stream
\* aborted and its connection closed, also one that was connecting when
\* closeAllSubscriptions took its snapshot.
ShutdownClosesAll ==
  phase # "running" =>
    \A r \in Requests : pc[r] \in Registered => r \in aborted /\ conn[r] = "closed"

(* The cap is the abstract pool's *)
Status ==
  [r \in Requests |->
     CASE pc[r] = "idle" -> "new"
       [] pc[r] = "refused" -> "refused"
       [] pc[r] \in Holding -> "held"
       [] OTHER -> "released"]

Pool == INSTANCE SubscriptionPool WITH status <- Status, open <- phase = "running"

\* The handlers implement the abstract pool: in particular a well-formed
\* request is refused only when MaxSubscriptions slots are really held.
PoolSpec == Pool!Spec

-----------------------------------------------------------------------------
(* Liveness *)

\* Past its slot, or the process is gone.
Freed(r) == pc[r] \notin Holding \/ ~Alive

\* A subscription whose abort was heard gives its slot back, also when its
\* consumer has stalled.
HeardAbortReleases ==
  \A r \in Requests : (r \in woken \/ r \in aborted \cap Pattern) ~> Freed(r)

\* A subscription whose Redis connection dropped gives its slot back, unless
\* its consumer leaves the confirmation unread.
DropReleases ==
  \A r \in Requests \ Stalled : (conn[r] = "closed") ~> Freed(r)

\* A pattern subscription that met an incompatible channel is torn down once
\* its error event is read.
IncompatibleReleases ==
  \A r \in Pattern \ Stalled : (r \in disconnected) ~> Freed(r)

\* A drain ends without the force timer: the only thing it can wait for is a
\* stalled consumer of a response that was closing before the signal, or that
\* was still connecting then, which shutdown does not abort.
DrainCompletes ==
  (phase = "draining") ~>
    (~Alive \/ \E r \in Stalled \ aborted : pc[r] = "closing")

\* Every subscription whose client has gone gives its slot back: "Released on
\* every exit path below" (pubsub.ts:118), "Resolves when client disconnects"
\* (pubsub.ts:169).
EveryDisconnectReleases ==
  \A r \in Requests : (r \in aborted) ~> Freed(r)
=============================================================================
