------------------------------- MODULE Health -------------------------------
(***************************************************************************)
(* The readiness probe: isRedisHealthy with its one-second cache of the    *)
(* last PING, the connect and close callbacks of the shared client that    *)
(* write the same flag, and the /health and /readyz handlers that await    *)
(* it.  Time is kept as ages that Tick advances and that saturate once     *)
(* they no longer matter, so no bound on a clock is needed.                *)
(***************************************************************************)
EXTENDS Integers

CONSTANTS
  Callers,       \* requests to /health or /readyz
  PingCache,     \* PING_CACHE_MS, in ticks
  PingTimeout    \* RUNTIME_PING_TIMEOUT_MS, in ticks

ASSUME PingCacheAssumption == PingCache \in Nat \ {0}
ASSUME PingTimeoutAssumption == PingTimeout \in Nat \ {0}

VARIABLES
  connected,      \* client.connected
  answering,      \* does Redis answer? (external)
  lastPingOk,
  sincePing,      \* age of lastPingTime, saturating at PingCache
  ping,           \* per caller: age of the PING it awaits, or NoPing
  reply,          \* per caller: "none", then the status of its response
  shuttingDown,
  proven,         \* history: time since Redis last proved alive, saturating
  wedgedProbe     \* history: age of the first PING sent since Redis fell silent

vars == <<connected, answering, lastPingOk, sincePing, ping, reply, shuttingDown,
          proven, wedgedProbe>>

NoPing == -1

\* Where the history ages saturate: one beyond what the properties tell apart.
ProvenHorizon == PingCache + 1
WedgeHorizon == PingTimeout + 1

Pinging == {c \in Callers : ping[c] # NoPing}

TypeOK ==
  /\ connected \in BOOLEAN
  /\ answering \in BOOLEAN
  /\ lastPingOk \in BOOLEAN
  /\ shuttingDown \in BOOLEAN
  /\ sincePing \in 0 .. PingCache
  /\ ping \in [Callers -> NoPing .. PingTimeout]
  /\ reply \in [Callers -> {"none", "ok", "degraded", "shutting_down"}]
  /\ proven \in 0 .. ProvenHorizon
  /\ wedgedProbe \in NoPing .. WedgeHorizon

\* After initRedis: its PING was answered, and lastPingTime is still 0.
Init ==
  /\ connected = TRUE
  /\ answering = TRUE
  /\ lastPingOk = TRUE
  /\ sincePing = PingCache
  /\ ping = [c \in Callers |-> NoPing]
  /\ reply = [c \in Callers |-> "none"]
  /\ shuttingDown = FALSE
  /\ proven = 0
  /\ wedgedProbe = NoPing

-----------------------------------------------------------------------------
(* The handlers *)

\* MUTANT of Status: shuttingDown() is not consulted after the await.
StatusOfRedis(ok) == IF ok THEN "ok" ELSE "degraded"

\* What the handler returns once isRedisHealthy() has resolved with ok.
Status(ok) ==
  IF shuttingDown THEN "shutting_down" ELSE IF ok THEN "ok" ELSE "degraded"

Respond(c, ok) == reply' = [reply EXCEPT ![c] = Status(ok)]

New(c) == reply[c] = "none" /\ c \notin Pinging

\* Fast path: the client reports that it is disconnected.
AskDisconnected(c) ==
  /\ New(c)
  /\ ~connected
  /\ lastPingOk' = FALSE
  /\ Respond(c, FALSE)
  /\ UNCHANGED <<connected, answering, sincePing, ping, shuttingDown, proven, wedgedProbe>>

AskCached(c) ==
  /\ New(c)
  /\ connected
  /\ sincePing < PingCache
  /\ Respond(c, lastPingOk)
  /\ UNCHANGED <<connected, answering, lastPingOk, sincePing, ping, shuttingDown,
                 proven, wedgedProbe>>

\* MUTANT of AskProbe: lastPingTime is not set before the PING.
AskProbeUnmarked(c) ==
  /\ New(c)
  /\ connected
  /\ sincePing >= PingCache
  /\ ping' = [ping EXCEPT ![c] = 0]
  /\ wedgedProbe' = IF ~answering /\ wedgedProbe = NoPing THEN 0 ELSE wedgedProbe
  /\ UNCHANGED <<connected, answering, lastPingOk, sincePing, reply, shuttingDown, proven>>

\* lastPingTime is set, then the PING is sent and awaited.
AskProbe(c) ==
  /\ New(c)
  /\ connected
  /\ sincePing >= PingCache
  /\ sincePing' = 0
  /\ ping' = [ping EXCEPT ![c] = 0]
  /\ wedgedProbe' = IF ~answering /\ wedgedProbe = NoPing THEN 0 ELSE wedgedProbe
  /\ UNCHANGED <<connected, answering, lastPingOk, reply, shuttingDown, proven>>

\* The awaited PING settles: the flag is set, and the flag is returned.
Settle(c, ok) ==
  /\ lastPingOk' = ok
  /\ ping' = [ping EXCEPT ![c] = NoPing]
  /\ Respond(c, ok)
  /\ UNCHANGED <<connected, answering, sincePing, shuttingDown, wedgedProbe>>

\* PONG.  Redis answers in the order of the requests.
PingAnswered(c) ==
  /\ c \in Pinging
  /\ connected /\ answering
  /\ \A d \in Pinging : ping[d] <= ping[c]
  /\ Settle(c, TRUE)
  /\ proven' = 0

\* An error reply, or a PING lost with its connection.
PingErrors(c) ==
  /\ c \in Pinging
  /\ answering \/ ~connected
  /\ Settle(c, FALSE)
  /\ UNCHANGED proven

\* MUTANT of PingTimesOut: a late PING leaves the flag as it was.
PingTimesOutUnnoticed(c) ==
  /\ ping[c] = PingTimeout
  /\ ping' = [ping EXCEPT ![c] = NoPing]
  /\ Respond(c, lastPingOk)
  /\ UNCHANGED <<connected, answering, lastPingOk, sincePing, shuttingDown, proven, wedgedProbe>>

PingTimesOut(c) ==
  /\ ping[c] = PingTimeout
  /\ Settle(c, FALSE)
  /\ UNCHANGED proven

-----------------------------------------------------------------------------
(* The shared client's callbacks and the environment *)

OnConnect ==
  /\ ~connected
  /\ answering
  /\ connected' = TRUE
  /\ lastPingOk' = TRUE
  /\ proven' = 0
  /\ UNCHANGED <<answering, sincePing, ping, reply, shuttingDown, wedgedProbe>>

\* MUTANT of OnClose: the flag keeps its value.
OnCloseUnnoticed ==
  /\ connected
  /\ connected' = FALSE
  /\ UNCHANGED <<answering, lastPingOk, sincePing, ping, reply, shuttingDown, proven, wedgedProbe>>

OnClose ==
  /\ connected
  /\ connected' = FALSE
  /\ lastPingOk' = FALSE
  /\ UNCHANGED <<answering, sincePing, ping, reply, shuttingDown, proven, wedgedProbe>>

\* Redis stops answering while the TCP connection stays up.
Wedge ==
  /\ answering
  /\ answering' = FALSE
  /\ UNCHANGED <<connected, lastPingOk, sincePing, ping, reply, shuttingDown, proven, wedgedProbe>>

Recover ==
  /\ ~answering
  /\ answering' = TRUE
  /\ wedgedProbe' = NoPing
  /\ UNCHANGED <<connected, lastPingOk, sincePing, ping, reply, shuttingDown, proven>>

SetShuttingDown ==
  /\ ~shuttingDown
  /\ shuttingDown' = TRUE
  /\ UNCHANGED <<connected, answering, lastPingOk, sincePing, ping, reply, proven, wedgedProbe>>

Older(age, horizon) == IF age < horizon THEN age + 1 ELSE horizon

\* MUTANT of Tick: a timer that is due need not fire.
TickPastTimers ==
  /\ sincePing' = Older(sincePing, PingCache)
  /\ ping' = [c \in Callers |-> IF c \in Pinging THEN ping[c] + 1 ELSE NoPing]
  /\ proven' = Older(proven, ProvenHorizon)
  /\ wedgedProbe' = IF wedgedProbe = NoPing THEN NoPing ELSE Older(wedgedProbe, WedgeHorizon)
  /\ UNCHANGED <<connected, answering, lastPingOk, reply, shuttingDown>>

\* Time passes; a timer that is due fires first.
Tick ==
  /\ \A c \in Callers : ping[c] < PingTimeout
  /\ sincePing' = Older(sincePing, PingCache)
  /\ ping' = [c \in Callers |-> IF c \in Pinging THEN ping[c] + 1 ELSE NoPing]
  /\ proven' = Older(proven, ProvenHorizon)
  /\ wedgedProbe' = IF wedgedProbe = NoPing THEN NoPing ELSE Older(wedgedProbe, WedgeHorizon)
  /\ UNCHANGED <<connected, answering, lastPingOk, reply, shuttingDown>>

-----------------------------------------------------------------------------

Handler(c) ==
  \/ AskDisconnected(c) \/ AskCached(c) \/ AskProbe(c)
  \/ PingAnswered(c) \/ PingErrors(c) \/ PingTimesOut(c)

Next ==
  \/ \E c \in Callers : Handler(c)
  \/ OnConnect \/ OnClose
  \/ Wedge \/ Recover \/ SetShuttingDown \/ Tick

Spec == Init /\ [][Next]_vars

-----------------------------------------------------------------------------
(* Properties *)

\* The flag is never left at TRUE while the client is disconnected, although
\* probes in flight and the callbacks write it in any order.
HealthyMeansConnected == lastPingOk => connected

\* However many callers ask, PINGs in flight are at least a cache window apart
\* ("prevent concurrent callers from stampeding", redis.ts:93).
NoStampede ==
  \A c, d \in Pinging :
    c # d => ping[c] - ping[d] >= PingCache \/ ping[d] - ping[c] >= PingCache

\* A Redis that is connected but silent is reported as soon as the first probe
\* sent since then has timed out, whatever later probes are still in flight.
WedgeDetected == wedgedProbe > PingTimeout => ~lastPingOk

\* "ok" is never answered by a server that is shutting down or disconnected,
\* also when the signal or the drop came while the probe was awaited.
OkOnlyWhileServing ==
  [][\A c \in Callers :
       reply[c] = "none" /\ reply'[c] = "ok" => ~shuttingDown /\ connected]_vars

\* "Return cached result within the cache window" (redis.ts:89): an "ok" given
\* while Redis is silent rests on a sign of life no older than the window.
CachedWithinWindow ==
  [][\A c \in Callers :
       reply[c] = "none" /\ reply'[c] = "ok" /\ ~answering => proven' <= PingCache]_vars
=============================================================================
