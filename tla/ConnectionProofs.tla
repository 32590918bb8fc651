--------------------------- MODULE ConnectionProofs ---------------------------
(***************************************************************************)
(* Proofs about the two ends of a connection: ConnectionAdmission, the     *)
(* daemon's, for every finite set of sockets and every pair of limits that *)
(* ConnectionLimits.Validate accepts, and HttpRequest, the client's, for   *)
(* every response limit and every bound on what the daemon sends.          *)
(*                                                                         *)
(* The inductive invariant of admission has three layers: Shape (types),   *)
(* Consistent (how the fields of one connection fit together) and Counted  *)
(* (the pending counter and the two limits).                               *)
(***************************************************************************)
EXTENDS ConnectionAdmission, HttpRequest, FiniteSetTheorems, TLAPS

Shape ==
  /\ listening \in BOOLEAN
  /\ sock \in [Conns -> SockStates]
  /\ active \in SUBSET Conns
  /\ pending \in Int
  /\ authenticated \in [Conns -> BOOLEAN]
  /\ expired \in [Conns -> BOOLEAN]
  /\ late \in [Conns -> BOOLEAN]
  /\ timer \in [Conns -> TimerStates]
  /\ request \in [Conns -> RequestStates]
  /\ closing \in [Conns -> CloseStates]

\* A socket the accept loop has not admitted carries no admission state.
FreshOutside(c) ==
  sock[c] \in {"absent", "accepted", "rejected"} =>
    /\ c \notin active
    /\ ~authenticated[c] /\ ~expired[c]
    /\ timer[c] = "unset" /\ request[c] = "none" /\ closing[c] = "no"

\* The slot outlives the socket: Close closes first and releases second.
SlotOutlivesSocket(c) ==
  /\ sock[c] = "open" => c \in active /\ closing[c] = "no"
  /\ closing[c] # "no" => sock[c] = "closed"

\* The decision to close for the deadline is taken with expired set.
ExpiryIsDecided(c) ==
  /\ timer[c] = "closing" => expired[c]
  /\ request[c] = "closing" => expired[c]
  /\ request[c] = "serving" => authenticated[c]
  /\ request[c] = "promoting" => c \in active /\ ~authenticated[c] /\ ~expired[c]
  /\ ~(authenticated[c] /\ expired[c])
  /\ timer[c] = "armed" => c \in active

Consistent ==
  /\ \A c \in Conns : FreshOutside(c) /\ SlotOutlivesSocket(c) /\ ExpiryIsDecided(c)
  /\ \A c, d \in Transient : c = d

Counted ==
  /\ PendingExact
  /\ Cardinality(active) <= MaxConnections
  /\ pending <= MaxUnauthenticated

IInv == Shape /\ Consistent /\ Counted

-----------------------------------------------------------------------------
(* Initial states.                                                         *)

LEMMA InitIInv == Init => IInv
<1> SUFFICES ASSUME Init PROVE IInv
  OBVIOUS
<1>1. Shape
  BY DEF Init, Shape, SockStates, TimerStates, RequestStates, CloseStates
<1>2. Consistent
  BY DEF Init, Consistent, FreshOutside, SlotOutlivesSocket, ExpiryIsDecided,
         Transient
<1>3. Counted
  <2>1. Unauthenticated = {}
    BY DEF Init, Unauthenticated
  <2>2. QED
    BY <2>1, FS_EmptySet, LimitsAssumption DEF Init, Counted, PendingExact
<1>4. QED
  BY <1>1, <1>2, <1>3 DEF IInv

-----------------------------------------------------------------------------
(* Types.                                                                  *)

LEMMA ShapeStep == Shape /\ [Next]_vars => Shape'
<1> SUFFICES ASSUME Shape, [Next]_vars PROVE Shape'
  OBVIOUS
<1> USE DEF Shape, SockStates, TimerStates, RequestStates, CloseStates
<1>1. CASE AcceptFails
  BY <1>1 DEF AcceptFails
<1>2. ASSUME NEW c \in Conns, AcceptLoop(c) PROVE Shape'
  BY <1>2 DEF AcceptLoop, AcceptRaw, Admit, Reject, CloseRejected
<1>3. ASSUME NEW c \in Conns, DeadlinePasses(c) \/ TimerFires(c) PROVE Shape'
  BY <1>3 DEF DeadlinePasses, TimerFires
<1>4. ASSUME NEW c \in Conns, Expire(c) PROVE Shape'
  BY <1>4 DEF Expire
<1>5. ASSUME NEW c \in Conns, BeginClose(c) PROVE Shape'
  BY <1>5 DEF BeginClose
<1>6. ASSUME NEW c \in Conns, ExpireReturns(c) \/ LateCloseReturns(c) PROVE Shape'
  BY <1>6 DEF ExpireReturns, LateCloseReturns
<1>7. ASSUME NEW c \in Conns, NEW bearer \in {"valid", "invalid"},
             ReadRequest(c, bearer)
      PROVE  Shape'
  BY <1>7 DEF ReadRequest
<1>8. ASSUME NEW c \in Conns, Authenticate(c) PROVE Shape'
  <2>1. CASE AuthenticateRefused(c) \/ AuthenticateAgain(c)
    BY <2>1 DEF AuthenticateRefused, AuthenticateAgain
  <2>2. CASE AuthenticateLate(c)
    BY <2>2 DEF AuthenticateLate
  <2>3. CASE BeforeDeadline(c)
    BY <2>3 DEF BeforeDeadline
  <2>4. CASE Promote(c)
    BY <2>4 DEF Promote, StopTimer
  <2>5. QED
    BY <1>8, <2>1, <2>2, <2>3, <2>4 DEF Authenticate
<1>9. ASSUME NEW c \in Conns, Deny(c) \/ Respond(c) PROVE Shape'
  BY <1>9 DEF Deny, Respond
<1>10. ASSUME NEW c \in Conns, ReleaseSlot(c) PROVE Shape'
  BY <1>10 DEF ReleaseSlot, StopTimer
<1>11. CASE UNCHANGED vars
  BY <1>11 DEF vars
<1>12. QED
  BY <1>1, <1>2, <1>3, <1>4, <1>5, <1>6, <1>7, <1>8, <1>9, <1>10, <1>11
  DEF Next, Callback, Handler, CloseByExpiry, CloseByHandler, CloseByServer

-----------------------------------------------------------------------------
(* How the fields of a connection fit together.                            *)

LEMMA ConsistentStep == Shape /\ Consistent /\ [Next]_vars => Consistent'
<1> SUFFICES ASSUME Shape, Consistent, [Next]_vars PROVE Consistent'
  OBVIOUS
<1> USE DEF Shape, Consistent, FreshOutside, SlotOutlivesSocket,
            ExpiryIsDecided, Transient, Locked
<1>1. CASE AcceptFails
  BY <1>1 DEF AcceptFails
<1>2. ASSUME NEW c \in Conns, AcceptRaw(c) PROVE Consistent'
  BY <1>2 DEF AcceptRaw
<1>3. ASSUME NEW c \in Conns, Admit(c) PROVE Consistent'
  BY <1>3 DEF Admit
<1>4. ASSUME NEW c \in Conns, Reject(c) \/ CloseRejected(c) PROVE Consistent'
  BY <1>4 DEF Reject, CloseRejected
<1>5. ASSUME NEW c \in Conns, DeadlinePasses(c) \/ TimerFires(c)
      PROVE  Consistent'
  BY <1>5 DEF DeadlinePasses, TimerFires
<1>6. ASSUME NEW c \in Conns, Expire(c) PROVE Consistent'
  BY <1>6 DEF Expire, ShouldClose
<1>7. ASSUME NEW c \in Conns, BeginClose(c) PROVE Consistent'
  BY <1>7 DEF BeginClose
<1>8. ASSUME NEW c \in Conns, ExpireReturns(c) \/ LateCloseReturns(c)
      PROVE  Consistent'
  BY <1>8 DEF ExpireReturns, LateCloseReturns
<1>9. ASSUME NEW c \in Conns, NEW bearer \in {"valid", "invalid"},
             ReadRequest(c, bearer)
      PROVE  Consistent'
  BY <1>9 DEF ReadRequest
<1>10. ASSUME NEW c \in Conns, \/ AuthenticateRefused(c) \/ AuthenticateAgain(c)
                               \/ BeforeDeadline(c)
       PROVE  Consistent'
  BY <1>10 DEF AuthenticateRefused, AuthenticateAgain, BeforeDeadline
<1>11. ASSUME NEW c \in Conns, AuthenticateLate(c) PROVE Consistent'
  BY <1>11 DEF AuthenticateLate
<1>12. ASSUME NEW c \in Conns, Promote(c) PROVE Consistent'
  BY <1>12 DEF Promote, StopTimer
<1>13. ASSUME NEW c \in Conns, Deny(c) \/ Respond(c) PROVE Consistent'
  BY <1>13 DEF Deny, Respond
<1>14. ASSUME NEW c \in Conns, ReleaseSlot(c) PROVE Consistent'
  BY <1>14 DEF ReleaseSlot, StopTimer
<1>15. CASE UNCHANGED vars
  BY <1>15 DEF vars
<1>16. QED
  BY <1>1, <1>2, <1>3, <1>4, <1>5, <1>6, <1>7, <1>8, <1>9, <1>10, <1>11,
     <1>12, <1>13, <1>14, <1>15
  DEF Next, AcceptLoop, Callback, Handler, Authenticate, CloseByExpiry,
      CloseByHandler, CloseByServer

-----------------------------------------------------------------------------
(* The counter and the limits.                                             *)

\* Only admission, promotion and the release of a slot touch what is counted.
LEMMA OnlyThreeCount ==
  ASSUME [Next]_vars
  PROVE  \/ UNCHANGED <<active, pending, authenticated>>
         \/ \E c \in Conns : Admit(c) \/ Promote(c) \/ ReleaseSlot(c)
<1>1. CASE AcceptFails
  BY <1>1 DEF AcceptFails
<1>2. ASSUME NEW c \in Conns,
             \/ AcceptRaw(c) \/ Reject(c) \/ CloseRejected(c)
             \/ DeadlinePasses(c) \/ TimerFires(c) \/ Callback(c)
             \/ \E bearer \in {"valid", "invalid"} : ReadRequest(c, bearer)
             \/ AuthenticateRefused(c) \/ AuthenticateAgain(c)
             \/ AuthenticateLate(c) \/ BeforeDeadline(c) \/ CloseByHandler(c)
             \/ LateCloseReturns(c) \/ Deny(c) \/ Respond(c)
             \/ CloseByServer(c)
      PROVE  UNCHANGED <<active, pending, authenticated>>
  BY <1>2 DEF AcceptRaw, Reject, CloseRejected, DeadlinePasses, TimerFires,
     Callback, Expire, CloseByExpiry, ExpireReturns, ReadRequest,
     AuthenticateRefused, AuthenticateAgain, AuthenticateLate, BeforeDeadline,
     CloseByHandler, LateCloseReturns, Deny, Respond, CloseByServer, BeginClose
<1>3. CASE UNCHANGED vars
  BY <1>3 DEF vars
<1>4. QED
  BY <1>1, <1>2, <1>3 DEF Next, AcceptLoop, Handler, Authenticate

\* The sets that are counted are finite.
LEMMA CountedSetsFinite ==
  ASSUME Shape
  PROVE  IsFiniteSet(active) /\ IsFiniteSet(Unauthenticated)
BY ConnsAssumption, FS_Subset DEF Shape, Unauthenticated

LEMMA CountedStep ==
  Shape /\ Consistent /\ Counted /\ [Next]_vars => Counted'
<1> SUFFICES ASSUME Shape, Consistent, Counted, [Next]_vars PROVE Counted'
  OBVIOUS
<1> USE DEF Counted, PendingExact
<1>0. /\ IsFiniteSet(active) /\ IsFiniteSet(Unauthenticated)
      /\ Cardinality(active) \in Nat /\ Cardinality(Unauthenticated) \in Nat
      /\ MaxConnections \in Nat /\ MaxUnauthenticated \in Nat
  BY CountedSetsFinite, FS_CardinalityType, LimitsAssumption
<1>1. CASE UNCHANGED <<active, pending, authenticated>>
  BY <1>1 DEF Unauthenticated
<1>2. ASSUME NEW c \in Conns, Admit(c) PROVE Counted'
  <2>1. /\ c \notin active /\ ~authenticated[c]
        /\ active' = active \cup {c}
        /\ pending' = pending + 1
        /\ authenticated' = authenticated
        /\ Cardinality(active) < MaxConnections
        /\ pending < MaxUnauthenticated
    BY <1>0, <1>2 DEF Admit, Full, Consistent, FreshOutside
  <2>2. Unauthenticated' = Unauthenticated \cup {c} /\ c \notin Unauthenticated
    BY <2>1 DEF Unauthenticated
  <2>3. Cardinality(active') = Cardinality(active) + 1
    BY <1>0, <2>1, FS_AddElement
  <2>4. Cardinality(Unauthenticated') = Cardinality(Unauthenticated) + 1
    BY <1>0, <2>2, FS_AddElement
  <2>5. QED
    BY <1>0, <2>1, <2>3, <2>4
<1>3. ASSUME NEW c \in Conns, Promote(c) PROVE Counted'
  <2>1. /\ c \in active /\ ~authenticated[c]
        /\ active' = active
        /\ pending' = pending - 1
        /\ authenticated' = [authenticated EXCEPT ![c] = TRUE]
    BY <1>3 DEF Promote, Consistent, ExpiryIsDecided
  <2>2. Unauthenticated' = Unauthenticated \ {c} /\ c \in Unauthenticated
    BY <2>1 DEF Unauthenticated, Shape
  <2>3. Cardinality(Unauthenticated') = Cardinality(Unauthenticated) - 1
    BY <1>0, <2>2, FS_RemoveElement
  <2>4. QED
    BY <1>0, <2>1, <2>3
<1>4. ASSUME NEW c \in Conns, ReleaseSlot(c) PROVE Counted'
  <2>1. active' = active \ {c} /\ authenticated' = authenticated
    BY <1>4 DEF ReleaseSlot
  <2>2. Unauthenticated' = Unauthenticated \ {c}
    BY <2>1 DEF Unauthenticated
  <2>3. Cardinality(active') <= Cardinality(active)
    BY <1>0, <2>1, FS_Subset
  <2>4. pending' = IF c \in Unauthenticated THEN pending - 1 ELSE pending
    BY <1>4 DEF ReleaseSlot, Unauthenticated
  <2>5. Cardinality(Unauthenticated') = IF c \in Unauthenticated
                                        THEN Cardinality(Unauthenticated) - 1
                                        ELSE Cardinality(Unauthenticated)
    BY <1>0, <2>2, FS_RemoveElement
  <2>6. Cardinality(active') \in Nat
    BY <1>0, <2>1, FS_RemoveElement, FS_CardinalityType
  <2>7. QED
    BY <1>0, <2>3, <2>4, <2>5, <2>6
<1>5. QED
  BY <1>1, <1>2, <1>3, <1>4, OnlyThreeCount

LEMMA IInvStep == IInv /\ [Next]_vars => IInv'
BY ShapeStep, ConsistentStep, CountedStep DEF IInv

LEMMA Invariance == Spec => []IInv
BY InitIInv, IInvStep, PTL DEF Spec

-----------------------------------------------------------------------------
(* The properties.                                                         *)

(***************************************************************************)
(* Every field keeps its type; in particular the pending counter of        *)
(* BoundedListener never becomes negative.                                 *)
(***************************************************************************)
THEOREM TypeCorrect == Spec => []TypeOK
<1>1. IInv => TypeOK
  BY CountedSetsFinite, FS_CardinalityType
  DEF IInv, Shape, Counted, PendingExact, TypeOK
<1>2. QED
  BY <1>1, Invariance, PTL

(***************************************************************************)
(* The pending counter is the number of unauthenticated admitted           *)
(* connections, whatever the interleaving of promotion, expiry and Close.  *)
(***************************************************************************)
THEOREM PendingIsExact == Spec => []PendingExact
<1>1. IInv => PendingExact
  BY DEF IInv, Counted
<1>2. QED
  BY <1>1, Invariance, PTL

(***************************************************************************)
(* At most MaxConnections admitted sockets are open, at most               *)
(* MaxUnauthenticated of them unauthenticated, and at most one open socket *)
(* is outside the admitted set.                                            *)
(***************************************************************************)
THEOREM OpenSocketsAreBounded == Spec => []SocketsBounded
<1>1. ASSUME IInv PROVE SocketsBounded
  <2>1. /\ IsFiniteSet(active) /\ IsFiniteSet(Unauthenticated)
        /\ Cardinality(active) \in Nat /\ Cardinality(Unauthenticated) \in Nat
        /\ MaxConnections \in Nat /\ MaxUnauthenticated \in Nat
    BY <1>1, CountedSetsFinite, FS_CardinalityType, LimitsAssumption DEF IInv
  <2>2. /\ Cardinality(OpenSockets \cap active) <= Cardinality(active)
        /\ Cardinality(OpenSockets \cap active) \in Nat
    BY <2>1, FS_Subset, FS_CardinalityType
  <2>3. /\ Cardinality(OpenSockets \cap Unauthenticated)
              <= Cardinality(Unauthenticated)
        /\ Cardinality(OpenSockets \cap Unauthenticated) \in Nat
    BY <2>1, FS_Subset, FS_CardinalityType
  <2>4. OpenSockets \ active \subseteq Transient
    BY <1>1 DEF IInv, Consistent, SlotOutlivesSocket, OpenSockets, Transient
  <2>5. QED
    BY <1>1, <2>1, <2>2, <2>3, <2>4
    DEF IInv, Counted, PendingExact, Consistent, SocketsBounded
<1>2. QED
  BY <1>1, Invariance, PTL

(***************************************************************************)
(* A slot is never given away while its socket is open.                    *)
(***************************************************************************)
THEOREM SlotsOutliveSockets == Spec => []SlotHeldWhileOpen
<1>1. IInv => SlotHeldWhileOpen
  BY DEF IInv, Consistent, SlotOutlivesSocket, SlotHeldWhileOpen
<1>2. QED
  BY <1>1, Invariance, PTL

(***************************************************************************)
(* The race between the bearer and the deadline has one winner.            *)
(***************************************************************************)
THEOREM BearerAndDeadlineHaveOneWinner == Spec => []OneWinner
<1>1. IInv => OneWinner
  BY DEF IInv, Consistent, ExpiryIsDecided, OneWinner
<1>2. QED
  BY <1>1, Invariance, PTL

(***************************************************************************)
(* No timer stays armed for a connection that lost its slot.               *)
(***************************************************************************)
THEOREM TimersDoNotLeak == Spec => []NoOrphanTimer
<1>1. IInv => NoOrphanTimer
  BY DEF IInv, Consistent, ExpiryIsDecided, NoOrphanTimer
<1>2. QED
  BY <1>1, Invariance, PTL

(***************************************************************************)
(* A slot that is given back leaves neither a count nor a timer behind.    *)
(***************************************************************************)
THEOREM SlotsAreAccountedFor == Spec => []SlotsAccountedFor
<1>1. PendingExact /\ NoOrphanTimer => SlotsAccountedFor
  BY DEF SlotsAccountedFor
<1>2. QED
  BY <1>1, PendingIsExact, TimersDoNotLeak, PTL

-----------------------------------------------------------------------------
(* The refinement.                                                         *)

StageFn == [c \in Conns |-> StageOf(c)]

\* StageOf under the invariant, without the order of its cases.
LEMMA StageCases ==
  ASSUME IInv, NEW c \in Conns
  PROVE  /\ sock[c] \in {"absent", "accepted"} => StageOf(c) = "outside"
         /\ c \in active /\ authenticated[c] => StageOf(c) = "member"
         /\ c \in active /\ expired[c] => StageOf(c) = "expired"
         /\ c \in active /\ ~authenticated[c] /\ ~expired[c]
              => StageOf(c) = "waiting"
         /\ c \notin active /\ sock[c] \notin {"absent", "accepted"}
              => StageOf(c) = "gone"
BY DEF IInv, Consistent, FreshOutside, ExpiryIsDecided, StageOf

\* The pool's two sets are the listener's.
LEMMA PoolSets ==
  ASSUME IInv
  PROVE  Pool!Held = active /\ Pool!Unproven = Unauthenticated
<1> USE DEF Pool!Held, Pool!Unproven, Pool!In
<1>1. ASSUME NEW c \in Conns
      PROVE  /\ StageOf(c) \in {"waiting", "member", "expired"} <=> c \in active
             /\ StageOf(c) \in {"waiting", "expired"} <=> c \in Unauthenticated
  <2>1. /\ c \in active => sock[c] \notin {"absent", "accepted"}
        /\ ~(authenticated[c] /\ expired[c])
        /\ authenticated[c] \in BOOLEAN /\ expired[c] \in BOOLEAN
    BY DEF IInv, Shape, Consistent, FreshOutside, ExpiryIsDecided
  <2>2. QED
    BY <2>1, StageCases DEF Unauthenticated
<1>2. active \subseteq Conns /\ Unauthenticated \subseteq Conns
  BY DEF IInv, Shape, Unauthenticated
<1>3. QED
  BY <1>1, <1>2

\* FiniteSets reached through the instance is FiniteSets.
LEMMA PoolCardinality == \A S : Pool!Cardinality(S) = Cardinality(S)
BY DEF Pool!Cardinality, Cardinality

\* The pool has a place exactly when the accept loop does not reject.
LEMMA PoolHasPlace == ASSUME IInv PROVE Pool!HasPlace <=> ~Full
<1>1. /\ Cardinality(active) \in Nat /\ pending = Cardinality(Unauthenticated)
      /\ Cardinality(Unauthenticated) \in Nat
      /\ MaxConnections \in Nat /\ MaxUnauthenticated \in Nat
  BY CountedSetsFinite, FS_CardinalityType, LimitsAssumption
  DEF IInv, Counted, PendingExact
<1>2. QED
  BY <1>1, PoolSets, PoolCardinality DEF Pool!HasPlace, Full

\* A step that moves one connection's stage is a move of the pool.
LEMMA OneMoves ==
  ASSUME NEW c \in Conns, NEW to,
         \A d \in Conns \ {c} : StageOf(d)' = StageOf(d),
         StageOf(c)' = to
  PROVE  StageFn' = [StageFn EXCEPT ![c] = to]
BY DEF StageFn

\* A step that changes none of the fields StageOf reads leaves the pool alone.
LEMMA StageStutter ==
  ASSUME \A c \in Conns : StageOf(c)' = StageOf(c)
  PROVE  StageFn' = StageFn
BY DEF StageFn

\* The invariant gives the stages before and after a step.
LEMMA StagesOfAStep ==
  ASSUME IInv, IInv', NEW c \in Conns
  PROVE  /\ sock'[c] \in {"absent", "accepted"} => StageOf(c)' = "outside"
         /\ c \in active' /\ authenticated'[c] => StageOf(c)' = "member"
         /\ c \in active' /\ expired'[c] => StageOf(c)' = "expired"
         /\ c \in active' /\ ~authenticated'[c] /\ ~expired'[c]
              => StageOf(c)' = "waiting"
         /\ c \notin active' /\ sock'[c] \notin {"absent", "accepted"}
              => StageOf(c)' = "gone"
BY DEF IInv, Consistent, FreshOutside, ExpiryIsDecided, StageOf

LEMMA RefinementStep ==
  ASSUME IInv, IInv', [Next]_vars
  PROVE  [Pool!Next]_StageFn
<1> USE DEF IInv, Shape
<1>0. \A c \in Conns : StageFn[c] = StageOf(c)
  BY DEF StageFn
<1>1. CASE UNCHANGED <<active, authenticated, expired, sock>>
  <2>1. \A c \in Conns : StageOf(c)' = StageOf(c)
    BY <1>1 DEF StageOf
  <2>2. QED
    BY <2>1, StageStutter
<1>2. ASSUME NEW c \in Conns, Admit(c) PROVE Pool!Admit(c)
  <2>1. \A d \in Conns \ {c} : StageOf(d)' = StageOf(d)
    BY <1>2 DEF Admit, StageOf
  <2>2. StageOf(c) = "outside"
    BY <1>2, StageCases DEF Admit
  <2>3. StageOf(c)' = "waiting"
    <3>1. c \in active' /\ ~authenticated'[c] /\ ~expired'[c]
      BY <1>2 DEF Admit, Consistent, FreshOutside
    <3>2. QED
      BY <3>1, StagesOfAStep
  <2>4. QED
    BY <1>0, <1>2, <2>1, <2>2, <2>3, OneMoves, PoolHasPlace
    DEF Pool!Admit, Pool!Move, Admit, StageFn
<1>3. ASSUME NEW c \in Conns, Reject(c) PROVE Pool!TurnAway(c)
  <2>1. \A d \in Conns \ {c} : StageOf(d)' = StageOf(d)
    BY <1>3 DEF Reject, StageOf
  <2>2. StageOf(c) = "outside"
    BY <1>3, StageCases DEF Reject
  <2>3. StageOf(c)' = "gone"
    <3>1. c \notin active' /\ sock'[c] = "rejected"
      BY <1>3 DEF Reject, Consistent, FreshOutside
    <3>2. QED
      BY <3>1, StagesOfAStep
  <2>4. QED
    BY <1>0, <1>3, <2>1, <2>2, <2>3, OneMoves, PoolHasPlace
    DEF Pool!TurnAway, Pool!Move, Reject, StageFn
<1>4. ASSUME NEW c \in Conns, Promote(c) PROVE Pool!Prove(c)
  <2>1. \A d \in Conns \ {c} : StageOf(d)' = StageOf(d)
    BY <1>4 DEF Promote, StageOf
  <2>2. StageOf(c) = "waiting"
    BY <1>4, StageCases DEF Promote, Consistent, ExpiryIsDecided
  <2>3. StageOf(c)' = "member"
    BY <1>4, StagesOfAStep DEF Promote, Consistent, ExpiryIsDecided
  <2>4. QED
    BY <1>0, <2>1, <2>2, <2>3, OneMoves DEF Pool!Prove, Pool!Move, StageFn
<1>5. ASSUME NEW c \in Conns, c \in active, ~authenticated[c], ~expired[c],
             expired' = [expired EXCEPT ![c] = TRUE],
             UNCHANGED <<active, authenticated, sock>>
      PROVE  Pool!Expire(c)
  <2>1. \A d \in Conns \ {c} : StageOf(d)' = StageOf(d)
    BY <1>5 DEF StageOf
  <2>2. StageOf(c) = "waiting"
    BY <1>5, StageCases
  <2>3. StageOf(c)' = "expired"
    BY <1>5, StagesOfAStep
  <2>4. QED
    BY <1>0, <2>1, <2>2, <2>3, OneMoves DEF Pool!Expire, Pool!Move, StageFn
<1>6. ASSUME NEW c \in Conns, ReleaseSlot(c), c \in active PROVE Pool!Leave(c)
  <2>1. \A d \in Conns \ {c} : StageOf(d)' = StageOf(d)
    BY <1>6 DEF ReleaseSlot, StageOf
  <2>2. StageOf(c) \in {"waiting", "member", "expired"}
    BY <1>6, StageCases
  <2>3. StageOf(c)' = "gone"
    <3>1. c \notin active' /\ sock'[c] = "closed"
      BY <1>6 DEF ReleaseSlot, Consistent, SlotOutlivesSocket
    <3>2. QED
      BY <3>1, StagesOfAStep
  <2>4. QED
    BY <1>0, <2>1, <2>2, <2>3, OneMoves DEF Pool!Leave, Pool!Move, StageFn
<1>7. ASSUME NEW c \in Conns,
             \/ AcceptRaw(c) \/ CloseRejected(c) \/ BeginClose(c)
             \/ ReleaseSlot(c) /\ c \notin active
      PROVE  UNCHANGED StageFn
  <2>1. \A d \in Conns : StageOf(d)' = StageOf(d)
    <3>1. CASE AcceptRaw(c)
      BY <3>1 DEF AcceptRaw, StageOf
    <3>2. CASE CloseRejected(c)
      BY <3>2 DEF CloseRejected, StageOf
    <3>3. CASE BeginClose(c)
      BY <3>3 DEF BeginClose, StageOf
    <3>4. CASE ReleaseSlot(c) /\ c \notin active
      BY <3>4 DEF ReleaseSlot, StageOf
    <3>5. QED
      BY <1>7, <3>1, <3>2, <3>3, <3>4
  <2>2. QED
    BY <2>1, StageStutter
<1>8. ASSUME NEW c \in Conns, Expire(c)
      PROVE  [Pool!Next]_StageFn
  <2>1. CASE ShouldClose(c)
    <3>1. Pool!Expire(c)
      BY <1>5, <1>8, <2>1 DEF Expire, ShouldClose
    <3>2. QED
      BY <3>1 DEF Pool!Next
  <2>2. CASE ~ShouldClose(c)
    BY <1>1, <1>8, <2>2 DEF Expire
  <2>3. QED
    BY <2>1, <2>2
<1>9. ASSUME NEW c \in Conns, AuthenticateLate(c) PROVE Pool!Expire(c)
  BY <1>5, <1>9 DEF AuthenticateLate
<1>10. CASE AcceptFails
  BY <1>1, <1>10 DEF AcceptFails
<1>11. ASSUME NEW c \in Conns,
              \/ DeadlinePasses(c) \/ TimerFires(c) \/ ExpireReturns(c)
              \/ \E bearer \in {"valid", "invalid"} : ReadRequest(c, bearer)
              \/ AuthenticateRefused(c) \/ AuthenticateAgain(c)
              \/ BeforeDeadline(c) \/ LateCloseReturns(c) \/ Deny(c)
              \/ Respond(c)
       PROVE  UNCHANGED <<active, authenticated, expired, sock>>
  BY <1>11 DEF DeadlinePasses, TimerFires, ExpireReturns, ReadRequest,
     AuthenticateRefused, AuthenticateAgain, BeforeDeadline, LateCloseReturns,
     Deny, Respond
<1>12. CASE UNCHANGED vars
  BY <1>1, <1>12 DEF vars
<1>13. ASSUME NEW c \in Conns,
              \/ AcceptLoop(c) \/ DeadlinePasses(c) \/ TimerFires(c)
              \/ Callback(c)
              \/ \E bearer \in {"valid", "invalid"} : ReadRequest(c, bearer)
              \/ Handler(c) \/ Respond(c) \/ CloseByServer(c)
              \/ ReleaseSlot(c)
       PROVE  [Pool!Next]_StageFn
  BY <1>1, <1>2, <1>3, <1>4, <1>6, <1>7, <1>8, <1>9, <1>11, <1>13
  DEF AcceptLoop, Callback, Handler, Authenticate, CloseByExpiry,
      CloseByHandler, CloseByServer, Pool!Next
<1>14. QED
  BY <1>10, <1>12, <1>13 DEF Next

LEMMA RefinementInit == Init => Pool!Init
<1> SUFFICES ASSUME Init PROVE Pool!Init
  OBVIOUS
<1>1. \A c \in Conns : StageOf(c) = "outside"
  BY DEF Init, StageOf
<1>2. QED
  BY <1>1 DEF Pool!Init

(***************************************************************************)
(* The lock-grained admission implements the atomic pool: a connection is  *)
(* turned away only when the pool is full, proves itself or expires but    *)
(* not both, and leaves once.                                              *)
(***************************************************************************)
THEOREM AdmissionImplementsPool == Spec => ImplementsPool
<1>1. IInv /\ IInv' /\ [Next]_vars => [Pool!Next]_StageFn
  BY RefinementStep
<1>2. StageFn = [c \in Conns |-> StageOf(c)]
  BY DEF StageFn
<1>3. QED
  BY RefinementInit, <1>1, Invariance, PTL
  DEF Spec, ImplementsPool, Pool!Spec, StageFn

(***************************************************************************)
(* The client's end                                                        *)
(***************************************************************************)
USE HttpAssumption DEF HttpAssumption

\* The answer is pending exactly as long as the timer is armed.
OneSettles == result = "pending" <=> timeout = "armed"

\* A task that has not ended has read no more than fits.
ReadFits == task # "ended" => size <= MaxResponseBytes

\* What an answer rests on is fixed once it is given: the task has ended, and
\* the body of an answer is closed.
ValueFixed ==
    result \in Answers =>
      /\ task = "ended" /\ body = "closed"
      /\ sender = "ended" /\ size = sent /\ size <= MaxResponseBytes /\ timeout = "cleared"
TooLargeFixed ==
    result = "ERR_RESPONSE_TOO_LARGE" =>
      /\ task = "ended"
      /\ declared > MaxResponseBytes \/ size > MaxResponseBytes

RequestIInv == RequestTypeOK /\ OneSettles /\ ReadFits /\ ValueFixed /\ TooLargeFixed

LEMMA InitRequestIInv == RequestInit => RequestIInv
<1> SUFFICES ASSUME RequestInit PROVE RequestIInv
  OBVIOUS
<1>1. RequestTypeOK
  BY DEF RequestInit, RequestTypeOK
<1>2. ReadFits
  BY DEF RequestInit, ReadFits
<1>3. OneSettles /\ ValueFixed /\ TooLargeFixed
  BY DEF RequestInit, OneSettles, ValueFixed, TooLargeFixed, Answers
<1> QED
  BY <1>1, <1>2, <1>3 DEF RequestIInv

\* How a task ends: it settles the answer when it is still open.
LEMMA FinishSettles ==
  ASSUME RequestTypeOK, OneSettles, NEW outcome \in Answers \cup Errors, Finish(outcome)
  PROVE  /\ task' = "ended" /\ result' \in Answers \cup Errors /\ result' # "pending"
         /\ timeout' \in {"fired", "cleared"}
         /\ result = "pending" => result' = outcome /\ timeout' = "cleared"
         /\ result # "pending" => result' = result /\ timeout' = timeout
  BY DEF RequestTypeOK, OneSettles, Finish, Answers, Errors

\* A task that fails leaves nothing behind that its answer rests on.
LEMMA FailurePreserves ==
  ASSUME RequestIInv, task # "ended", NEW outcome \in Errors, Finish(outcome),
         signal' \in {"clear", "aborted"}, socket' \in {"open", "closed"},
         decoder' \in {"none", "open", "closing", "closed"},
         body' \in {"none", "readable", "closed"},
         declared' \in Nat, size' \in Nat, sent' = sent, sender' = sender,
         outcome = "ERR_RESPONSE_TOO_LARGE" =>
           declared' > MaxResponseBytes \/ size' > MaxResponseBytes
  PROVE  RequestIInv'
<1> USE DEF RequestIInv
<1>1. /\ task' = "ended" /\ result' \in Answers \cup Errors /\ result' # "pending"
      /\ timeout' \in {"fired", "cleared"}
      /\ result = "pending" => result' = outcome
      /\ result # "pending" => result' = result
  BY FinishSettles
<1>2. result \notin Answers \cup {"ERR_RESPONSE_TOO_LARGE"}
  BY DEF ValueFixed, TooLargeFixed
<1>3. RequestTypeOK'
  BY <1>1 DEF RequestTypeOK
<1>4. OneSettles'
  BY <1>1 DEF OneSettles
<1>5. ReadFits'
  BY <1>1 DEF ReadFits
<1>6. result' \notin Answers
  BY <1>1, <1>2 DEF Answers, Errors
<1>7. ValueFixed'
  BY <1>6 DEF ValueFixed
<1>8. TooLargeFixed'
  BY <1>1, <1>2 DEF TooLargeFixed
<1> QED
  BY <1>3, <1>4, <1>5, <1>7, <1>8

LEMMA FetchPreserves ==
  RequestIInv /\ (FetchFails \/ StatusRefused \/ NoBody) => RequestIInv'
<1> SUFFICES ASSUME RequestIInv, FetchFails \/ StatusRefused \/ NoBody PROVE RequestIInv'
  OBVIOUS
<1>1. PICK outcome \in {"ERR_DAEMON", "timed out"} :
        Finish(outcome) /\ socket' = "closed" /\ task = "fetch"
        /\ UNCHANGED <<signal, decoder, body, declared, sent, sender, size>>
  BY DEF FetchFails, StatusRefused, NoBody
<1> QED
  BY <1>1, FailurePreserves DEF RequestIInv, RequestTypeOK, Answers, Errors

LEMMA ResponsePreserves ==
  ASSUME RequestIInv, NEW encoded \in BOOLEAN, NEW length \in Lengths,
         LateResponse(encoded, length) \/ ResponseArrives(encoded, length) \/ DeclaredTooLarge(length)
  PROVE  RequestIInv'
<1> USE DEF RequestIInv
<1>0. length \in Nat /\ Seen(encoded, length) \in Nat
  BY DEF Lengths, Seen
<1>1. CASE LateResponse(encoded, length)
  <2> USE <1>1 DEF LateResponse
  <2>1. task # "ended" /\ Finish("timed out") /\ "timed out" \in Errors
    BY DEF Answers, Errors
  <2>2. decoder' \in {"closing", "none"} /\ socket' \in {"open", "closed"} /\ body' = "closed"
    BY DEF RequestTypeOK
  <2>3. declared' \in Nat /\ size' \in Nat /\ sent' = sent /\ sender' = sender
    BY <1>0 DEF RequestTypeOK
  <2>4. signal' \in {"clear", "aborted"}
    BY DEF RequestTypeOK
  <2> HIDE DEF LateResponse
  <2> QED
    BY <2>1, <2>2, <2>3, <2>4, FailurePreserves
<1>2. CASE ResponseArrives(encoded, length)
  <2> USE <1>2 DEF ResponseArrives
  <2>1. task' = "read" /\ decoder' \in {"open", "none"} /\ body' = "readable"
    OBVIOUS
  <2>2. RequestTypeOK'
    BY <1>0, <2>1 DEF RequestTypeOK
  <2>3. OneSettles' /\ ReadFits'
    BY DEF OneSettles, ReadFits
  <2>4. ValueFixed'
    BY DEF ValueFixed
  <2>5. TooLargeFixed'
    BY DEF TooLargeFixed
  <2> QED
    BY <2>2, <2>3, <2>4, <2>5
<1>3. CASE DeclaredTooLarge(length)
  <2> USE <1>3 DEF DeclaredTooLarge
  <2>1. task # "ended" /\ Finish("ERR_RESPONSE_TOO_LARGE") /\ "ERR_RESPONSE_TOO_LARGE" \in Errors
    BY DEF Answers, Errors
  <2>2. body' = "closed" /\ socket' = "closed" /\ signal' = "aborted" /\ decoder' = decoder
    OBVIOUS
  <2>3. declared' \in Nat /\ declared' > MaxResponseBytes
    BY <1>0
  <2>4. size' = size /\ sent' = sent /\ sender' = sender
    OBVIOUS
  <2>5. size \in Nat /\ decoder \in {"none", "open", "closing", "closed"}
    BY DEF RequestTypeOK
  <2> HIDE DEF DeclaredTooLarge
  <2> QED
    BY <2>1, <2>2, <2>3, <2>4, <2>5, FailurePreserves
<1> QED
  BY <1>1, <1>2, <1>3

\* Destroying the body of a request keeps the types of what it changes.
LEMMA DestroyTypes ==
  ASSUME RequestTypeOK, DestroyBody
  PROVE  /\ body' \in {"none", "closed"}
         /\ decoder' \in {"none", "open", "closing", "closed"}
         /\ socket' \in {"open", "closed"}
  BY DEF RequestTypeOK, DestroyBody

LEMMA BodyPreserves ==
  ASSUME RequestIInv, Completes \/ ConnectionBreaks \/ DecodingFails
  PROVE  RequestIInv'
<1>1. CASE Completes
  BY <1>1 DEF Completes, RequestIInv, RequestTypeOK, OneSettles, ReadFits, ValueFixed, TooLargeFixed
<1>2. CASE ConnectionBreaks
  <2>1. /\ task # "ended" /\ Finish("ERR_DAEMON") /\ body' = "closed" /\ socket' = "closed"
        /\ UNCHANGED <<signal, declared, sent, sender, size>>
    BY <1>2 DEF ConnectionBreaks
  <2>2. decoder' \in {"none", "open", "closing", "closed"}
    BY <1>2 DEF ConnectionBreaks, RequestIInv, RequestTypeOK
  <2>3. signal \in {"clear", "aborted"} /\ declared \in Nat /\ size \in Nat
    BY DEF RequestIInv, RequestTypeOK
  <2> QED
    BY <2>1, <2>2, <2>3, FailurePreserves DEF Answers, Errors
<1>3. CASE DecodingFails
  <2>1. /\ task # "ended" /\ Finish("ERR_DAEMON") /\ DestroyBody
        /\ UNCHANGED <<signal, declared, sent, sender, size>>
    BY <1>3 DEF DecodingFails
  <2>2. RequestTypeOK /\ signal \in {"clear", "aborted"} /\ declared \in Nat /\ size \in Nat
    BY DEF RequestIInv, RequestTypeOK
  <2> QED
    BY <2>1, <2>2, DestroyTypes, FailurePreserves DEF Answers, Errors
<1> QED
  BY <1>1, <1>2, <1>3

LEMMA ReadPreserves ==
  ASSUME RequestIInv, ReadStep PROVE RequestIInv'
<1>1. ASSUME NEW n \in 1..MaxSent, ReadChunk(n) PROVE RequestIInv'
  BY <1>1 DEF ReadChunk, Fits, RequestIInv, RequestTypeOK, OneSettles, ReadFits, ValueFixed, TooLargeFixed
<1>2. ASSUME NEW n \in 1..MaxSent, ReadTooMuch(n) PROVE RequestIInv'
  <2>1. /\ task # "ended" /\ Finish("ERR_RESPONSE_TOO_LARGE") /\ DestroyBody
        /\ signal' = "aborted" /\ UNCHANGED <<declared, sent, sender>>
    BY <1>2 DEF ReadTooMuch
  <2>2. RequestTypeOK /\ declared \in Nat /\ size \in Nat
    BY DEF RequestIInv, RequestTypeOK
  <2>3. size' \in Nat /\ size' > MaxResponseBytes
    BY <1>2, <2>2 DEF ReadTooMuch, Fits
  <2> QED
    BY <2>1, <2>2, <2>3, DestroyTypes, FailurePreserves DEF Answers, Errors
<1>3. ASSUME NEW outcome \in Answers \cup {"ERR_DAEMON"}, ReadEnds(outcome) PROVE RequestIInv'
  BY <1>3, FinishSettles
     DEF ReadEnds, RequestIInv, RequestTypeOK, OneSettles, ReadFits, ValueFixed, TooLargeFixed, Answers, Errors
<1> QED
  BY <1>1, <1>2, <1>3 DEF ReadStep

LEMMA TimeoutPreserves ==
  ASSUME RequestIInv, TimeoutFires PROVE RequestIInv'
<1> USE DEF RequestIInv
<1>1. timeout' = "fired" /\ signal' = "aborted" /\ result' = "timed out"
      /\ UNCHANGED <<declared, sent, sender, size>>
  BY DEF TimeoutFires
<1>2. /\ task' = task \/ task' = "ended"
      /\ DestroyBody \/ UNCHANGED <<body, decoder, socket>>
  BY DEF TimeoutFires
<1>3. /\ body' \in {"none", "readable", "closed"}
      /\ decoder' \in {"none", "open", "closing", "closed"} /\ socket' \in {"open", "closed"}
  BY <1>2, DestroyTypes DEF RequestTypeOK
<1>4. /\ task' \in {"fetch", "read", "ended"} /\ timeout' \in {"armed", "fired", "cleared"}
      /\ declared' \in Nat /\ sent' \in Nat /\ size' \in Nat
      /\ signal' \in {"clear", "aborted"} /\ sender' \in {"sending", "ended"}
  BY <1>1, <1>2 DEF RequestTypeOK
<1>5. result' \in {"pending"} \cup Answers \cup Errors
  BY <1>1 DEF Answers, Errors
<1>6. RequestTypeOK'
  BY <1>3, <1>4, <1>5 DEF RequestTypeOK
<1>7. OneSettles' /\ ReadFits'
  BY <1>1, <1>2 DEF OneSettles, ReadFits
<1>8. ValueFixed' /\ TooLargeFixed'
  BY <1>1 DEF ValueFixed, TooLargeFixed, Answers
<1> QED
  BY <1>6, <1>7, <1>8

LEMMA LoopPreserves ==
  ASSUME RequestIInv, DecoderCloses \/ TimeoutFires \/ AbortReachesSocket PROVE RequestIInv'
<1>1. CASE DecoderCloses
  BY <1>1 DEF DecoderCloses, RequestIInv, RequestTypeOK, OneSettles, ReadFits, ValueFixed, TooLargeFixed
<1>2. CASE TimeoutFires
  BY <1>2, TimeoutPreserves
<1>3. CASE AbortReachesSocket
  <2>1. CASE task = "fetch"
    BY <1>3, <2>1, FailurePreserves DEF AbortReachesSocket, RequestIInv, RequestTypeOK, Answers, Errors
  <2>2. CASE task # "fetch"
    BY <1>3, <2>2
       DEF AbortReachesSocket, RequestIInv, RequestTypeOK, OneSettles, ReadFits, ValueFixed, TooLargeFixed
  <2> QED
    BY <2>1, <2>2
<1> QED
  BY <1>1, <1>2, <1>3

LEMMA RequestPreserves == RequestIInv /\ [RequestNext]_requestVars => RequestIInv'
<1> SUFFICES ASSUME RequestIInv, [RequestNext]_requestVars PROVE RequestIInv'
  OBVIOUS
<1>1. CASE FetchFails \/ StatusRefused \/ NoBody
  BY <1>1, FetchPreserves
<1>2. ASSUME NEW encoded \in BOOLEAN, NEW length \in Lengths,
             LateResponse(encoded, length) \/ ResponseArrives(encoded, length)
      PROVE  RequestIInv'
  BY <1>2, ResponsePreserves
<1>3. ASSUME NEW length \in Lengths, DeclaredTooLarge(length) PROVE RequestIInv'
  BY <1>3, ResponsePreserves
<1>4. ASSUME NEW n \in 1..MaxSent, Sends(n) PROVE RequestIInv'
  BY <1>4 DEF Sends, RequestIInv, RequestTypeOK, OneSettles, ReadFits, ValueFixed, TooLargeFixed
<1>5. CASE Completes \/ ConnectionBreaks \/ DecodingFails
  BY <1>5, BodyPreserves
<1>6. CASE ReadStep
  BY <1>6, ReadPreserves
<1>7. CASE DecoderCloses \/ TimeoutFires \/ AbortReachesSocket
  BY <1>7, LoopPreserves
<1>8. CASE UNCHANGED requestVars
  BY <1>8 DEF requestVars, RequestIInv, RequestTypeOK, OneSettles, ReadFits, ValueFixed, TooLargeFixed
<1> QED
  BY <1>1, <1>2, <1>3, <1>4, <1>5, <1>6, <1>7, <1>8 DEF RequestNext, DaemonStep

\* The inductive invariant holds in every state of a request.
THEOREM RequestInvariance == RequestSpec => []RequestIInv
  BY InitRequestIInv, RequestPreserves, PTL DEF RequestSpec

\* Every variable keeps its type (request in http.ts, pinnedFetch in tls.ts).
THEOREM RequestTypeCorrect == RequestSpec => []RequestTypeOK
<1>1. RequestIInv => RequestTypeOK
  BY DEF RequestIInv
<1> QED
  BY <1>1, RequestInvariance, PTL

\* Whatever order the timer, the response and its chunks come in, an answer comes
\* from a whole body that fits, an error of size from a body that does not, and
\* a settled request has no timer armed.
THEOREM HonestAnswers == RequestSpec => []AnswerHonest
<1>1. RequestIInv => AnswerHonest
  BY DEF RequestIInv, OneSettles, ValueFixed, TooLargeFixed, AnswerHonest
<1> QED
  BY <1>1, RequestInvariance, PTL
=============================================================================
