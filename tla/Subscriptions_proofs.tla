------------------------ MODULE Subscriptions_proofs ------------------------
(***************************************************************************)
(* Proofs about Subscriptions for any sets of requests and any cap.        *)
(*                                                                         *)
(* SlotAccounting is inductive given the types: each step takes a slot and *)
(* adds one holder, gives one back and removes one, or touches neither.    *)
(* What shutdown closes is not inductive alone: it needs that the registry *)
(* is exact while the server runs (so that the snapshot misses nobody) and *)
(* empty afterwards, and that a connection's state follows its handler's   *)
(* pc.  Inv puts these together.                                           *)
(***************************************************************************)
EXTENDS Subscriptions, FiniteSetTheorems, TLAPS

CapRespected == used <= MaxSubscriptions

\* The state of a dedicated connection follows its handler.
ConnMatchesPc ==
  \A r \in Requests :
    /\ pc[r] \in {"idle", "refused"} => conn[r] = "none"
    /\ pc[r] = "connecting" => conn[r] = "opening"
    /\ pc[r] \in Registered => conn[r] \in {"open", "closed"}
    /\ pc[r] \in {"closing", "done"} => conn[r] = "closed"

RegistryEmptied == phase # "running" => active = {}

Slots == SlotAccounting /\ CapRespected

Closing == ConnMatchesPc /\ RegistryExact /\ RegistryEmptied /\ ShutdownClosesAll

Inv == TypeOK /\ Slots /\ Closing

-----------------------------------------------------------------------------
(* Counting holders *)

\* Holders is a subset of the finite set of requests, so it can be counted.
LEMMA HoldersFinite == IsFiniteSet(Holders) /\ Cardinality(Holders) \in Nat
<1>1. IsFiniteSet(Requests) /\ Holders \subseteq Requests
  BY RequestsAssumption DEF Holders
<1> QED
  BY <1>1, FS_Subset, FS_CardinalityType

\* A handler that leaves the holding states takes itself out of Holders.
LEMMA Frees ==
  ASSUME TypeOK, Slots, NEW r \in Requests,
         pc[r] \in Holding, Goto(r, "closing"), Release
  PROVE  Slots'
<1>1. Holders' = Holders \ {r} /\ r \in Holders
  BY DEF TypeOK, Holders, Holding, Registered, Goto
<1>2. Cardinality(Holders') = Cardinality(Holders) - 1 /\ Cardinality(Holders) \in Nat
  BY <1>1, HoldersFinite, FS_RemoveElement
<1>3. IsFiniteSet(Holders') /\ Cardinality(Holders') \in Nat
  BY <1>1, HoldersFinite, FS_RemoveElement, FS_CardinalityType
<1> QED
  BY <1>2, <1>3, MaxAssumption DEF Slots, SlotAccounting, CapRespected, Release, TypeOK

\* A handler that reserves a slot puts itself into Holders.
LEMMA Takes ==
  ASSUME TypeOK, Slots, NEW r \in Requests,
         pc[r] = "idle", Goto(r, "connecting"), Reserve
  PROVE  Slots'
<1>1. Holders' = Holders \cup {r} /\ r \notin Holders
  BY DEF TypeOK, Holders, Holding, Registered, Goto
<1>2. Cardinality(Holders') = Cardinality(Holders) + 1
  BY <1>1, HoldersFinite, FS_AddElement
<1> QED
  BY <1>2, MaxAssumption DEF Slots, SlotAccounting, CapRespected, Reserve, TypeOK

\* A handler that moves within, or outside, the holding states changes nothing.
LEMMA Keeps ==
  ASSUME TypeOK, Slots, NEW r \in Requests, NEW p \in PCs,
         Goto(r, p), p \in Holding <=> pc[r] \in Holding, UNCHANGED used
  PROVE  Slots'
<1>1. Holders' = Holders
  BY DEF TypeOK, Holders, Goto
<1> QED
  BY <1>1 DEF Slots, SlotAccounting, CapRespected

\* A step that touches neither pc nor used keeps the accounting.
LEMMA Stays ==
  ASSUME Slots, UNCHANGED <<pc, used>>
  PROVE  Slots'
BY DEF Slots, SlotAccounting, CapRespected, Holders

-----------------------------------------------------------------------------
(* The shape of a step: what Next does to pc and used *)

\* Every step takes a slot, gives one back, moves a handler without touching
\* the limiter, or leaves both alone.
SlotStep ==
  \/ \E r \in Requests : pc[r] = "idle" /\ Goto(r, "connecting") /\ Reserve
  \/ \E r \in Requests : pc[r] \in Holding /\ Goto(r, "closing") /\ Release
  \/ \E r \in Requests, p \in PCs :
       Goto(r, p) /\ (p \in Holding <=> pc[r] \in Holding) /\ UNCHANGED used
  \/ UNCHANGED <<pc, used>>

\* Every step of the specification has that shape (pubsub.ts takes and gives
\* back slots nowhere else).
LEMMA NextIsSlotStep ==
  ASSUME TypeOK, [Next]_vars
  PROVE  SlotStep
<1> USE DEF At, Holding, Registered, PCs
<1>1. CASE UNCHANGED vars
  BY <1>1 DEF SlotStep, vars
<1>2. CASE Shutdown
  BY <1>2 DEF SlotStep, Shutdown, Signal, Drained, ForcedExit
<1>3. ASSUME NEW r \in Requests, Environment(r)
      PROVE  SlotStep
  BY <1>3 DEF SlotStep, Environment, ClientDisconnects, RedisDrops
<1>4. ASSUME NEW r \in Requests, Handler(r)
      PROVE  SlotStep
  <2>1. CASE Admit(r)
    BY <2>1 DEF SlotStep, Admit
  <2>2. CASE Refuse(r)
    BY <2>2 DEF SlotStep, Refuse
  <2>3. CASE ConnectFails(r)
    BY <2>3 DEF SlotStep, ConnectFails, GiveUp
  <2>4. CASE ExactConnects(r)
    BY <2>4 DEF SlotStep, ExactConnects, Register, GiveUp
  <2>5. CASE \E bad \in BOOLEAN : PatternConnects(r, bad)
    BY <2>5 DEF SlotStep, PatternConnects, Register, GiveUp
  <2>6. CASE SubscribeSucceeds(r)
    BY <2>6 DEF SlotStep, SubscribeSucceeds
  <2>7. CASE SubscribeFails(r) \/ ConfirmRejected(r) \/ StreamEnds(r)
    BY <2>7 DEF SlotStep, SubscribeFails, ConfirmRejected, StreamEnds, Teardown
  <2>8. CASE ConfirmWritten(r)
    BY <2>8 DEF SlotStep, ConfirmWritten
  <2>9. CASE Closes(r)
    BY <2>9 DEF SlotStep, Closes
  <2>10. CASE IncompatibleChannel(r) \/ ErrorWritten(r) \/ Stuck(r)
    BY <2>10 DEF SlotStep, IncompatibleChannel, ErrorWritten, Stuck
  <2> QED
    BY <1>4, <2>1, <2>2, <2>3, <2>4, <2>5, <2>6, <2>7, <2>8, <2>9, <2>10 DEF Handler
<1> QED
  BY <1>1, <1>2, <1>3, <1>4 DEF Next

\* Every step keeps the counter equal to the number of holders and within the cap.
LEMMA SlotsPreserved ==
  ASSUME TypeOK, Slots, [Next]_vars
  PROVE  Slots'
<1>1. SlotStep
  BY NextIsSlotStep
<1>2. CASE \E r \in Requests : pc[r] = "idle" /\ Goto(r, "connecting") /\ Reserve
  BY <1>2, Takes
<1>3. CASE \E r \in Requests : pc[r] \in Holding /\ Goto(r, "closing") /\ Release
  BY <1>3, Frees
<1>4. CASE \E r \in Requests, p \in PCs :
             Goto(r, p) /\ (p \in Holding <=> pc[r] \in Holding) /\ UNCHANGED used
  BY <1>4, Keeps
<1>5. CASE UNCHANGED <<pc, used>>
  BY <1>5, Stays
<1> QED
  BY <1>1, <1>2, <1>3, <1>4, <1>5 DEF SlotStep

-----------------------------------------------------------------------------
(* Types *)

\* Every step keeps the types.
LEMMA TypesPreserved ==
  ASSUME TypeOK, [Next]_vars
  PROVE  TypeOK'
<1> USE DEF At, Untouched, Goto
<1>1. CASE UNCHANGED vars
  BY <1>1 DEF TypeOK, vars
<1>2. CASE Shutdown
  BY <1>2 DEF TypeOK, PCs, Shutdown, Signal, Drained, ForcedExit, Abort
<1>3. ASSUME NEW r \in Requests, Environment(r)
      PROVE  TypeOK'
  BY <1>3 DEF TypeOK, PCs, Environment, ClientDisconnects, RedisDrops, Abort
<1>4. ASSUME NEW r \in Requests, Handler(r)
      PROVE  TypeOK'
  <2>1. CASE Admit(r) \/ Refuse(r)
    BY <2>1 DEF TypeOK, PCs, Admit, Refuse, Reserve
  <2>2. CASE ConnectFails(r) \/ ExactConnects(r)
    BY <2>2 DEF TypeOK, PCs, ConnectFails, ExactConnects, Register, GiveUp, Release
  <2>3. ASSUME NEW bad \in BOOLEAN, PatternConnects(r, bad)
        PROVE  TypeOK'
    BY <2>3 DEF TypeOK, PCs, PatternConnects, Register, GiveUp, Release
  <2>4. CASE SubscribeFails(r) \/ ConfirmRejected(r) \/ StreamEnds(r)
    BY <2>4 DEF TypeOK, PCs, SubscribeFails, ConfirmRejected, StreamEnds, Teardown, Release
  <2>5. CASE SubscribeSucceeds(r) \/ ConfirmWritten(r) \/ Closes(r)
    BY <2>5 DEF TypeOK, PCs, SubscribeSucceeds, ConfirmWritten, Closes
  <2>6. CASE IncompatibleChannel(r) \/ ErrorWritten(r) \/ Stuck(r)
    BY <2>6 DEF TypeOK, PCs, IncompatibleChannel, ErrorWritten, Stuck, Abort
  <2> QED
    BY <1>4, <2>1, <2>2, <2>3, <2>4, <2>5, <2>6 DEF Handler
<1> QED
  BY <1>1, <1>2, <1>3, <1>4 DEF Next

(* The variables keep their types: TypeOK, for any requests and cap. *)
THEOREM TypeCorrect == Spec => []TypeOK
<1>1. Init => TypeOK
  BY DEF Init, TypeOK, PCs
<1>2. TypeOK /\ [Next]_vars => TypeOK'
  BY TypesPreserved
<1> QED
  BY <1>1, <1>2, PTL DEF Spec

-----------------------------------------------------------------------------
(* The limiter *)

(* The limiter's counter is the number of handlers that hold a slot, so that
   no exit path of either handler releases twice or forgets to (pubsub.ts). *)
THEOREM SlotsAccounted == Spec => []SlotAccounting
<1>1. Init => Slots
  BY FS_EmptySet, MaxAssumption
     DEF Init, Slots, SlotAccounting, CapRespected, Holders, Holding, Registered
<1>2. TypeOK /\ Slots /\ [Next]_vars => Slots'
  BY SlotsPreserved
<1>3. Slots => SlotAccounting
  BY DEF Slots
<1> QED
  BY <1>1, <1>2, <1>3, TypeCorrect, PTL DEF Spec

-----------------------------------------------------------------------------
(* What shutdown closes *)

\* Every step keeps the registry exact while the server runs and empty
\* afterwards, and whatever it would have closed is closed.
LEMMA ClosingPreserved ==
  ASSUME TypeOK, Closing, [Next]_vars
  PROVE  Closing'
<1> USE DEF Closing, ConnMatchesPc, RegistryExact, RegistryEmptied,
            ShutdownClosesAll, Registered, Holding, TypeOK, At, Untouched, Goto
<1>1. CASE UNCHANGED vars
  BY <1>1 DEF vars
<1>2. CASE Shutdown
  <2>1. CASE Signal
    BY <2>1 DEF Signal, Abort, PCs
  <2>2. CASE Drained \/ ForcedExit
    BY <2>2 DEF Drained, ForcedExit
  <2> QED
    BY <1>2, <2>1, <2>2 DEF Shutdown
<1>3. ASSUME NEW r \in Requests, Environment(r)
      PROVE  Closing'
  BY <1>3 DEF Environment, ClientDisconnects, RedisDrops, Abort
<1>4. ASSUME NEW r \in Requests, Handler(r)
      PROVE  Closing'
  <2>1. CASE Admit(r) \/ Refuse(r)
    BY <2>1 DEF Admit, Refuse
  <2>2. CASE ConnectFails(r) \/ ExactConnects(r)
    BY <2>2 DEF ConnectFails, ExactConnects, Register, GiveUp
  <2>3. ASSUME NEW bad \in BOOLEAN, PatternConnects(r, bad)
        PROVE  Closing'
    BY <2>3 DEF PatternConnects, Register, GiveUp
  <2>4. CASE SubscribeFails(r) \/ ConfirmRejected(r) \/ StreamEnds(r)
    BY <2>4 DEF SubscribeFails, ConfirmRejected, StreamEnds, Teardown
  <2>5. CASE SubscribeSucceeds(r) \/ ConfirmWritten(r) \/ Closes(r)
    BY <2>5 DEF SubscribeSucceeds, ConfirmWritten, Closes
  <2>6. CASE IncompatibleChannel(r) \/ ErrorWritten(r) \/ Stuck(r)
    BY <2>6 DEF IncompatibleChannel, ErrorWritten, Stuck, Abort
  <2> QED
    BY <1>4, <2>1, <2>2, <2>3, <2>4, <2>5, <2>6 DEF Handler
<1> QED
  BY <1>1, <1>2, <1>3, <1>4 DEF Next

\* The invariant holds when the server starts.
LEMMA InitInv == Init => Inv
<1> USE DEF Init, Inv
<1>1. Init => TypeOK
  BY DEF TypeOK, PCs
<1>2. Init => Slots
  BY FS_EmptySet, MaxAssumption
     DEF Slots, SlotAccounting, CapRespected, Holders, Holding, Registered
<1>3. Init => Closing
  BY DEF Closing, ConnMatchesPc, RegistryExact, RegistryEmptied, ShutdownClosesAll, Registered
<1> QED
  BY <1>1, <1>2, <1>3

\* The invariant is inductive.
LEMMA StepInv == Inv /\ [Next]_vars => Inv'
BY TypesPreserved, SlotsPreserved, ClosingPreserved DEF Inv

\* The invariant holds in every reachable state.
THEOREM InvHolds == Spec => []Inv
BY InitInv, StepInv, PTL DEF Spec

(* From the signal on, no handler past its registration is left with a live
   stream or an open connection (closeAllSubscriptions and the rechecks of
   pubsub.ts:154 and 342 together). *)
THEOREM ShutdownCloses == Spec => []ShutdownClosesAll
<1>1. Inv => ShutdownClosesAll
  BY DEF Inv, Closing
<1> QED
  BY <1>1, InvHolds, PTL

(* The registry that closeAllSubscriptions walks holds exactly the handlers that
   still have their finally block ahead of them, as long as the server runs. *)
THEOREM RegistryIsExact == Spec => []RegistryExact
<1>1. Inv => RegistryExact
  BY DEF Inv, Closing
<1> QED
  BY <1>1, InvHolds, PTL

(* A connection that is open or being opened belongs to a handler that holds
   a slot, so there are never more of them than the cap (pubsub.ts:33-40). *)
THEOREM ConnectionsCapped == Spec => [](NoOrphanConnection /\ ConnectionsBounded)
<1>1. Inv => NoOrphanConnection
  BY DEF Inv, Closing, ConnMatchesPc, NoOrphanConnection, TypeOK, PCs, Holding, Registered
<1>2. Inv => ConnectionsBounded
  <2> SUFFICES ASSUME Inv PROVE ConnectionsBounded
    OBVIOUS
  <2>1. Connections \subseteq Holders
    BY <1>1 DEF NoOrphanConnection, Connections, Holders
  <2>2. Cardinality(Connections) <= Cardinality(Holders)
    BY <2>1, HoldersFinite, FS_Subset
  <2>3. Cardinality(Connections) \in Nat
    BY <2>1, HoldersFinite, FS_Subset, FS_CardinalityType
  <2> QED
    BY <2>2, <2>3, HoldersFinite, MaxAssumption
       DEF Inv, Slots, SlotAccounting, CapRespected, ConnectionsBounded, TypeOK
<1> QED
  BY <1>1, <1>2, InvHolds, PTL

-----------------------------------------------------------------------------
(* The handlers implement the abstract pool *)

\* The slots the abstract pool counts are those of the handlers that hold one.
LEMMA HeldAreHolders == ASSUME TypeOK PROVE Pool!Held = Holders
BY DEF TypeOK, Pool!Held, Status, Holders, Holding, Registered

\* What becomes of the abstract status when r moves to p.
LEMMA StatusMoves ==
  ASSUME TypeOK, NEW r \in Requests, NEW p \in PCs, Goto(r, p)
  PROVE  /\ p = "refused" => Status' = [Status EXCEPT ![r] = "refused"]
         /\ p \in Holding => Status' = [Status EXCEPT ![r] = "held"]
         /\ p \in {"closing", "done"} => Status' = [Status EXCEPT ![r] = "released"]
<1> USE DEF TypeOK, PCs, Holding, Registered, Goto
<1>1. ASSUME NEW s, Status' = [q \in Requests |-> IF q = r THEN s ELSE Status[q]]
      PROVE  Status' = [Status EXCEPT ![r] = s]
  BY <1>1 DEF Status
<1>2. p = "refused" => Status' = [q \in Requests |-> IF q = r THEN "refused" ELSE Status[q]]
  BY DEF Status
<1>3. p \in Holding => Status' = [q \in Requests |-> IF q = r THEN "held" ELSE Status[q]]
  BY DEF Status
<1>4. p \in {"closing", "done"} =>
        Status' = [q \in Requests |-> IF q = r THEN "released" ELSE Status[q]]
  BY DEF Status
<1> QED
  BY <1>1, <1>2, <1>3, <1>4

\* Status maps every handler to one of the pool's states.
LEMMA StatusValues ==
  ASSUME TypeOK, NEW r \in Requests
  PROVE  /\ pc[r] = "idle" => Status[r] = "new"
         /\ pc[r] \in Holding => Status[r] = "held"
         /\ pc[r] \in {"closing", "done"} => Status[r] = "released"
BY DEF TypeOK, PCs, Status, Holding, Registered

\* A move that keeps the abstract status is a stutter of the pool.
LEMMA StatusStays ==
  ASSUME TypeOK, NEW r \in Requests, NEW p \in PCs, Goto(r, p), UNCHANGED phase,
         \/ pc[r] \in Holding /\ p \in Holding
         \/ pc[r] \in {"closing", "done"} /\ p \in {"closing", "done"}
  PROVE  UNCHANGED Pool!vars
<1>1. Status' = Status
  BY DEF TypeOK, PCs, Status, Holding, Registered, Goto
<1> QED
  BY <1>1 DEF Pool!vars

\* Every step of the handlers and of shutdown is a step of the pool or a stutter.
LEMMA PoolStep == ASSUME Inv, [Next]_vars PROVE [Pool!Next]_(Pool!vars)
<1> USE DEF At, Untouched
<1>t. TypeOK /\ used = Pool!Cardinality(Pool!Held)
  <2>1. TypeOK /\ used = Cardinality(Pool!Held)
    BY HeldAreHolders DEF Inv, Slots, SlotAccounting
  <2>2. Pool!Cardinality(Pool!Held) = Cardinality(Pool!Held)
    BY DEF Cardinality, Pool!Cardinality
  <2> QED
    BY <2>1, <2>2
<1>1. CASE UNCHANGED vars
  BY <1>1 DEF vars, Pool!vars, Status
<1>2. CASE Signal
  <2>1. Status' = Status
    BY <1>2 DEF Signal, Status
  <2>2. Pool!Stop
    BY <2>1, <1>2 DEF Signal, Pool!Stop
  <2> QED
    BY <2>2 DEF Pool!Next
<1>3. CASE Drained \/ ForcedExit
  <2>1. Status' = Status
    BY <1>3 DEF Drained, ForcedExit, Status
  <2> QED
    BY <2>1, <1>3 DEF Drained, ForcedExit, Pool!vars
<1>4. ASSUME NEW r \in Requests, UNCHANGED <<pc, phase>>
      PROVE  UNCHANGED Pool!vars
  BY <1>4 DEF Pool!vars, Status
<1>5. ASSUME NEW r \in Requests, Environment(r)
      PROVE  UNCHANGED Pool!vars
  BY <1>4, <1>5 DEF Environment, ClientDisconnects, RedisDrops
<1>6. ASSUME NEW r \in Requests, Admit(r)
      PROVE  Pool!Accept(r)
  <2>1. Status' = [Status EXCEPT ![r] = "held"] /\ Status[r] = "new"
    BY <1>6, <1>t, StatusMoves, StatusValues DEF Admit, PCs, Holding
  <2> QED
    BY <2>1, <1>6, <1>t DEF Admit, Reserve, Pool!Accept
<1>7. ASSUME NEW r \in Requests, Refuse(r)
      PROVE  Pool!Refuse(r)
  <2>1. Status' = [Status EXCEPT ![r] = "refused"] /\ Status[r] = "new"
    BY <1>7, <1>t, StatusMoves, StatusValues DEF Refuse, PCs
  <2> QED
    BY <2>1, <1>7, <1>t DEF Refuse, Pool!Refuse
<1>8. ASSUME NEW r \in Requests, pc[r] \in Holding, Goto(r, "closing"), UNCHANGED phase
      PROVE  Pool!Release(r)
  <2>1. Status' = [Status EXCEPT ![r] = "released"] /\ Status[r] = "held"
    BY <1>8, <1>t, StatusMoves, StatusValues DEF PCs
  <2> QED
    BY <2>1, <1>8 DEF Pool!Release
<1>9. ASSUME NEW r \in Requests, Handler(r)
      PROVE  Pool!Accept(r) \/ Pool!Refuse(r) \/ Pool!Release(r) \/ UNCHANGED Pool!vars
  <2>1. CASE Admit(r) \/ Refuse(r)
    BY <2>1, <1>6, <1>7
  <2>2. CASE ConnectFails(r) \/ SubscribeFails(r) \/ ConfirmRejected(r) \/ StreamEnds(r)
    BY <2>2, <1>8 DEF ConnectFails, GiveUp, SubscribeFails, ConfirmRejected, StreamEnds,
       Teardown, Holding, Registered
  <2>3. CASE ExactConnects(r)
    <3>1. CASE GiveUp(r)
      BY <3>1, <2>3, <1>8 DEF ExactConnects, GiveUp, Holding
    <3>2. CASE Register(r, "subscribing")
      BY <3>2, <2>3, <1>t, StatusStays DEF ExactConnects, Register, Holding, Registered, PCs
    <3> QED
      BY <2>3, <3>1, <3>2 DEF ExactConnects
  <2>4. ASSUME NEW bad \in BOOLEAN, PatternConnects(r, bad)
        PROVE  Pool!Release(r) \/ UNCHANGED Pool!vars
    <3>1. CASE GiveUp(r)
      BY <3>1, <2>4, <1>8 DEF PatternConnects, GiveUp, Holding
    <3>2. CASE Register(r, "confirming")
      BY <3>2, <2>4, <1>t, StatusStays DEF PatternConnects, Register, Holding, Registered, PCs
    <3> QED
      BY <2>4, <3>1, <3>2 DEF PatternConnects
  <2>5. CASE SubscribeSucceeds(r) \/ ConfirmWritten(r) \/ Closes(r)
    BY <2>5, <1>t, StatusStays
       DEF SubscribeSucceeds, ConfirmWritten, Closes, Holding, Registered, PCs
  <2>6. CASE IncompatibleChannel(r) \/ ErrorWritten(r) \/ Stuck(r)
    BY <2>6, <1>4 DEF IncompatibleChannel, ErrorWritten, Stuck
  <2> QED
    BY <1>9, <2>1, <2>2, <2>3, <2>4, <2>5, <2>6 DEF Handler
<1> QED
  BY <1>1, <1>2, <1>3, <1>5, <1>9 DEF Next, Shutdown, Pool!Next

(* The handlers, the limiter and the shutdown implement the abstract pool: a
   well-formed request is refused only when the cap is really reached or the
   server has stopped accepting, and a slot is never given out after that. *)
THEOREM ImplementsPool == Spec => PoolSpec
<1>1. Init => Pool!Init
  <2>1. Init => Status = [r \in Requests |-> "new"]
    <3> SUFFICES ASSUME Init PROVE Status = [r \in Requests |-> "new"]
      OBVIOUS
    <3>1. TypeOK /\ \A r \in Requests : pc[r] = "idle"
      BY InitInv DEF Init, Inv
    <3>2. \A r \in Requests : Status[r] = "new"
      BY <3>1, StatusValues
    <3> QED
      BY <3>2 DEF Status
  <2>2. Init => (phase = "running") = TRUE
    BY Zenon DEF Init
  <2> QED
    BY <2>1, <2>2 DEF Pool!Init
<1>2. Inv /\ [Next]_vars => [Pool!Next]_(Pool!vars)
  BY PoolStep
<1> QED
  BY <1>1, <1>2, InvHolds, PTL DEF Spec, PoolSpec, Pool!Spec
=============================================================================
