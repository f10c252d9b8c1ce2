--------------------------- MODULE Health_proofs ---------------------------
(***************************************************************************)
(* Proofs about Health for any callers, cache window and PING timeout.     *)
(*                                                                         *)
(* NoStampede is not inductive alone: that a new PING is a window away     *)
(* from those in flight follows from the cache only because every PING in  *)
(* flight is at least as old as lastPingTime says (NoneYounger).           *)
(* WedgeDetected needs to know where the first PING sent to a silent Redis *)
(* is before it has timed out (WedgePending).                              *)
(***************************************************************************)
EXTENDS Health, TLAPS

\* lastPingTime was set by the latest PING, so none in flight is younger.
NoneYounger == \A c \in Pinging : ping[c] >= sincePing

\* Until the first PING sent to a silent Redis has failed it is in flight.
WedgePending ==
  wedgedProbe # NoPing =>
    /\ ~answering
    /\ ~lastPingOk \/ \E c \in Pinging : ping[c] = wedgedProbe

Inv == TypeOK /\ HealthyMeansConnected /\ NoneYounger /\ NoStampede /\ WedgePending

\* The values the steps assign lie in the ranges of TypeOK.
LEMMA Ranges ==
  /\ 0 \in 0 .. PingCache /\ PingCache \in 0 .. PingCache
  /\ 0 \in NoPing .. PingTimeout /\ NoPing \in NoPing .. PingTimeout
  /\ 0 \in 0 .. ProvenHorizon
  /\ 0 \in NoPing .. WedgeHorizon /\ NoPing \in NoPing .. WedgeHorizon
BY PingCacheAssumption, PingTimeoutAssumption DEF ProvenHorizon, WedgeHorizon, NoPing

\* Growing older keeps an age within its range.
LEMMA OlderInRange ==
  ASSUME NEW h \in Nat, NEW low \in Int, low <= 0, NEW age \in low .. h
  PROVE  Older(age, h) \in low .. h
BY DEF Older

\* The invariant holds once initRedis has returned.
LEMMA InitInv == Init => Inv
<1> SUFFICES ASSUME Init PROVE Inv
  OBVIOUS
<1> USE DEF Init
<1>1. TypeOK
  BY Ranges DEF TypeOK
<1>2. Pinging = {}
  BY DEF Pinging
<1>3. NoneYounger /\ NoStampede /\ WedgePending
  BY <1>2 DEF NoneYounger, NoStampede, WedgePending
<1> QED
  BY <1>1, <1>3 DEF Inv, HealthyMeansConnected

\* Every step keeps the types, whether a handler's or the client's.
LEMMA TypesPreserved == TypeOK /\ [Next]_vars => TypeOK'
<1> SUFFICES ASSUME TypeOK, [Next]_vars PROVE TypeOK'
  OBVIOUS
<1> USE Ranges DEF TypeOK
<1>1. CASE UNCHANGED vars
  BY <1>1 DEF vars
<1>2. ASSUME NEW c \in Callers, Handler(c)
      PROVE  TypeOK'
  <2>1. CASE AskDisconnected(c)
    BY <2>1 DEF AskDisconnected, Respond, Status
  <2>2. CASE AskCached(c)
    BY <2>2 DEF AskCached, Respond, Status
  <2>3. CASE AskProbe(c)
    BY <2>3 DEF AskProbe
  <2>4. CASE PingAnswered(c)
    BY <2>4 DEF PingAnswered, Settle, Respond, Status
  <2>5. CASE PingErrors(c)
    BY <2>5 DEF PingErrors, Settle, Respond, Status
  <2>6. CASE PingTimesOut(c)
    BY <2>6 DEF PingTimesOut, Settle, Respond, Status
  <2> QED
    BY <1>2, <2>1, <2>2, <2>3, <2>4, <2>5, <2>6 DEF Handler
<1>3. CASE OnConnect \/ OnClose \/ Wedge \/ Recover \/ SetShuttingDown
  BY <1>3 DEF OnConnect, OnClose, Wedge, Recover, SetShuttingDown
<1>4. CASE Tick
  <2>1. sincePing' \in 0 .. PingCache
    BY <1>4, OlderInRange, PingCacheAssumption DEF Tick
  <2>2. \A c \in Callers : ping'[c] \in NoPing .. PingTimeout
    BY <1>4, PingTimeoutAssumption DEF Tick, Pinging, NoPing
  <2>3. ping' \in [Callers -> NoPing .. PingTimeout]
    BY <1>4, <2>2 DEF Tick
  <2>4. proven' \in 0 .. ProvenHorizon
    BY <1>4, OlderInRange, PingCacheAssumption DEF Tick, ProvenHorizon
  <2>5. wedgedProbe' \in NoPing .. WedgeHorizon
    BY <1>4, OlderInRange, PingTimeoutAssumption DEF Tick, WedgeHorizon, NoPing
  <2> QED
    BY <1>4, <2>1, <2>3, <2>4, <2>5 DEF Tick
<1> QED
  BY <1>1, <1>2, <1>3, <1>4 DEF Next

\* Every step keeps the flag down while the client is disconnected.
LEMMA FlagPreserved ==
  ASSUME TypeOK, HealthyMeansConnected, [Next]_vars
  PROVE  HealthyMeansConnected'
<1> USE DEF HealthyMeansConnected, TypeOK
<1>1. CASE UNCHANGED vars
  BY <1>1 DEF vars
<1>2. ASSUME NEW c \in Callers, Handler(c)
      PROVE  HealthyMeansConnected'
  BY <1>2 DEF Handler, AskDisconnected, AskCached, AskProbe, PingAnswered, PingErrors,
              PingTimesOut, Settle
<1>3. CASE OnConnect \/ OnClose \/ Wedge \/ Recover \/ SetShuttingDown \/ Tick
  BY <1>3 DEF OnConnect, OnClose, Wedge, Recover, SetShuttingDown, Tick
<1> QED
  BY <1>1, <1>2, <1>3 DEF Next

\* Every step keeps the PINGs in flight a window apart and none too young.
LEMMA AgesPreserved ==
  ASSUME TypeOK, NoneYounger, NoStampede, [Next]_vars
  PROVE  NoneYounger' /\ NoStampede'
<1> USE PingCacheAssumption, PingTimeoutAssumption DEF TypeOK, NoneYounger, NoStampede, Pinging, NoPing
<1>1. CASE UNCHANGED <<ping, sincePing>>
  BY <1>1
<1>2. ASSUME NEW c \in Callers, AskProbe(c)
      PROVE  NoneYounger' /\ NoStampede'
  BY <1>2 DEF AskProbe, New
<1>3. ASSUME NEW c \in Callers, NEW ok \in BOOLEAN, Settle(c, ok)
      PROVE  NoneYounger' /\ NoStampede'
  BY <1>3 DEF Settle
<1>4. CASE Tick
  BY <1>4 DEF Tick, Older
<1>5. ASSUME NEW c \in Callers, AskDisconnected(c) \/ AskCached(c)
      PROVE  UNCHANGED <<ping, sincePing>>
  BY <1>5 DEF AskDisconnected, AskCached
<1>6. CASE OnConnect \/ OnClose \/ Wedge \/ Recover \/ SetShuttingDown
  BY <1>1, <1>6 DEF OnConnect, OnClose, Wedge, Recover, SetShuttingDown
<1>7. CASE UNCHANGED vars
  BY <1>1, <1>7 DEF vars
<1> QED
  BY <1>1, <1>2, <1>3, <1>4, <1>5, <1>6, <1>7
     DEF Next, Handler, PingAnswered, PingErrors, PingTimesOut

\* Every step keeps the first PING to a silent Redis in flight or the flag down.
LEMMA WedgePreserved ==
  ASSUME TypeOK, WedgePending, [Next]_vars PROVE WedgePending'
<1> USE DEF TypeOK, WedgePending
<1>1. CASE UNCHANGED <<answering, lastPingOk, ping, wedgedProbe>>
  BY <1>1 DEF Pinging
<1>2. ASSUME NEW c \in Callers, AskProbe(c)
      PROVE  WedgePending'
  <2>1. /\ ping'[c] = 0 /\ c \in Pinging' /\ UNCHANGED <<answering, lastPingOk>>
        /\ \A d \in Pinging : d \in Pinging' /\ ping'[d] = ping[d]
    BY <1>2 DEF AskProbe, New, Pinging, NoPing
  <2>2. CASE ~answering /\ wedgedProbe = NoPing
    BY <1>2, <2>1, <2>2 DEF AskProbe
  <2>3. CASE ~(~answering /\ wedgedProbe = NoPing)
    <3>1. wedgedProbe' = wedgedProbe
      BY <1>2, <2>3 DEF AskProbe
    <3> QED
      BY <2>1, <3>1
  <2> QED
    BY <2>2, <2>3
<1>3. ASSUME NEW c \in Callers, PingAnswered(c)
      PROVE  WedgePending'
  BY <1>3 DEF PingAnswered, Settle
<1>4. ASSUME NEW c \in Callers, PingErrors(c) \/ PingTimesOut(c) \/ AskDisconnected(c)
      PROVE  WedgePending'
  BY <1>4 DEF PingErrors, PingTimesOut, AskDisconnected, Settle
<1>5. CASE OnConnect \/ OnClose \/ Wedge \/ Recover
  BY <1>5 DEF OnConnect, OnClose, Wedge, Recover, Pinging
<1>6. CASE Tick
  <2>1. UNCHANGED <<answering, lastPingOk>>
    BY <1>6 DEF Tick
  <2>2. wedgedProbe = NoPing => wedgedProbe' = NoPing
    BY <1>6 DEF Tick
  <2>3. ASSUME NEW c \in Pinging, ping[c] = wedgedProbe
        PROVE  c \in Pinging' /\ ping'[c] = wedgedProbe'
    <3>1. /\ ping[c] \in NoPing .. PingTimeout /\ ping[c] # NoPing /\ ping[c] < PingTimeout
          /\ ping'[c] = ping[c] + 1
      BY <1>6 DEF Tick, Pinging
    <3>2. wedgedProbe < WedgeHorizon /\ ping[c] + 1 # NoPing
      BY <2>3, <3>1, PingTimeoutAssumption DEF WedgeHorizon, NoPing
    <3>3. wedgedProbe' = wedgedProbe + 1
      BY <1>6, <2>3, <3>1, <3>2 DEF Tick, Older
    <3> QED
      BY <2>3, <3>1, <3>2, <3>3 DEF Pinging
  <2> QED
    BY <2>1, <2>2, <2>3
<1>7. CASE (\E c \in Callers : AskCached(c)) \/ SetShuttingDown \/ UNCHANGED vars
  BY <1>1, <1>7 DEF AskCached, SetShuttingDown, vars
<1> QED
  BY <1>2, <1>3, <1>4, <1>5, <1>6, <1>7 DEF Next, Handler

\* The invariant holds in every reachable state.
THEOREM InvHolds == Spec => []Inv
<1>1. Inv /\ [Next]_vars => Inv'
  BY TypesPreserved, FlagPreserved, AgesPreserved, WedgePreserved DEF Inv
<1> QED
  BY <1>1, InitInv, PTL DEF Spec

(* The variables keep their types, for any callers and any timeouts. *)
THEOREM TypeCorrect == Spec => []TypeOK
<1>1. Inv => TypeOK
  BY DEF Inv
<1> QED
  BY <1>1, InvHolds, PTL

(* lastPingOk is never TRUE while the client is disconnected: no PING in flight
   and no callback overwrites what onclose has set (redis.ts:33-38, 98-103). *)
THEOREM HealthyIsConnected == Spec => []HealthyMeansConnected
<1>1. Inv => HealthyMeansConnected
  BY DEF Inv
<1> QED
  BY <1>1, InvHolds, PTL

(* PINGs in flight are a cache window apart, however many callers there are and
   however long a PING takes (redis.ts:93-94). *)
THEOREM ProbesApart == Spec => []NoStampede
<1>1. Inv => NoStampede
  BY DEF Inv
<1> QED
  BY <1>1, InvHolds, PTL

(* A Redis that is connected but silent is known to be once the first PING sent
   since has timed out: nothing that settles later raises the flag again
   (redis.ts:98-103). *)
THEOREM WedgeIsDetected == Spec => []WedgeDetected
<1>1. ASSUME Inv PROVE WedgeDetected
  <2> SUFFICES ASSUME wedgedProbe > PingTimeout, lastPingOk PROVE FALSE
    BY DEF WedgeDetected
  <2>1. wedgedProbe # NoPing
    BY PingTimeoutAssumption DEF NoPing
  <2>2. PICK c \in Pinging : ping[c] = wedgedProbe
    BY <1>1, <2>1 DEF Inv, WedgePending
  <2>3. ping[c] \in Int /\ ping[c] <= PingTimeout
    BY <1>1, PingTimeoutAssumption DEF Inv, TypeOK, Pinging, NoPing
  <2> QED
    BY <2>2, <2>3, PingTimeoutAssumption
<1> QED
  BY <1>1, InvHolds, PTL

(* No probe answers "ok" on a server that is shutting down or has lost its
   client, whenever the signal or the drop came (health.ts:24-34, 52-57). *)
THEOREM OkIsServing == Spec => OkOnlyWhileServing
<1>1. Inv /\ [Next]_vars =>
        [\A c \in Callers :
           reply[c] = "none" /\ reply'[c] = "ok" => ~shuttingDown /\ connected]_vars
  <2> SUFFICES ASSUME Inv, Next, NEW d \in Callers, reply[d] = "none", reply'[d] = "ok"
               PROVE  ~shuttingDown /\ connected
    BY DEF vars
  <2> USE DEF Inv, TypeOK, HealthyMeansConnected, Respond, Status
  <2>1. ASSUME NEW c \in Callers, Handler(c)
        PROVE  ~shuttingDown /\ connected
    BY <2>1 DEF Handler, AskDisconnected, AskCached, AskProbe, PingAnswered, PingErrors,
                PingTimesOut, Settle
  <2>2. CASE OnConnect \/ OnClose \/ Wedge \/ Recover \/ SetShuttingDown \/ Tick
    BY <2>2 DEF OnConnect, OnClose, Wedge, Recover, SetShuttingDown, Tick
  <2> QED
    BY <2>1, <2>2 DEF Next
<1> QED
  BY <1>1, InvHolds, PTL DEF Spec, OkOnlyWhileServing
=============================================================================
