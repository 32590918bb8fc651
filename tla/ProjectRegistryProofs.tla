----------------------- MODULE ProjectRegistryProofs -----------------------
(***************************************************************************)
(* Proofs about ProjectRegistry for any number of projects, handlers and   *)
(* handles and every limit.  The inductive invariant adds to the checked   *)
(* invariants nothing but a form of SoleCloser without set equalities.     *)
(***************************************************************************)
EXTENDS ProjectRegistry, FiniteSetTheorems, TLAPS

\* A root that a close request took is open, unregistered and its own.
TakenOwned(r) ==
  pc[r] = "taken" =>
    /\ held[r] \in open
    /\ \A p \in Projects : roots[p] # held[r]
    /\ \A q \in Requests : pc[q] = "taken" /\ held[q] = held[r] => q = r

\* A scope anchor is open, unregistered and its handler's own.
PinnedOwned(r) ==
  pc[r] = "pinned" =>
    /\ scope[r] \in open
    /\ \A p \in Projects : roots[p] # scope[r]
    /\ \A q \in Requests : pc[q] = "pinned" /\ scope[q] = scope[r] => q = r
    /\ \A q \in Requests : pc[q] = "taken" => held[q] # scope[r]

Owned == \A r \in Requests : TakenOwned(r) /\ PinnedOwned(r)

NotLeaked(h) == \/ \E p \in Projects : roots[p] = h
                \/ \E r \in Requests : pc[r] = "taken" /\ held[r] = h
                \/ \E r \in Requests : pc[r] = "pinned" /\ scope[r] = h

NoneLeaked == \A h \in open : NotLeaked(h)

Core == TypeOK /\ RegistryConsistent /\ Owned /\ NoneLeaked

-----------------------------------------------------------------------------
LEMMA InitCore == Init => Core
<1> SUFFICES ASSUME Init PROVE Core
  OBVIOUS
<1> USE RegistryAssumption
<1>1. TypeOK
  <2>1. 0 \in 0..IdleTimeout
    OBVIOUS
  <2>2. idle \in [Projects -> 0..IdleTimeout]
    BY <2>1 DEF Init
  <2>3. QED
    BY <2>2 DEF Init, TypeOK, Typing, RootInHand, Borrowing, HandleOrNone, PCs
<1>2. RegistryConsistent
  BY DEF Init, RegistryConsistent, Registered
<1>3. Owned
  <2>1. \A r \in Requests : pc[r] = "idle"
    BY DEF Init
  <2>2. QED
    BY <2>1 DEF Owned, TakenOwned, PinnedOwned
<1>4. NoneLeaked
  BY DEF Init, NoneLeaked
<1>5. QED
  BY <1>1, <1>2, <1>3, <1>4 DEF Core

(***************************************************************************)
(* What expireRootsLocked leaves: a consistent registry that is a part of  *)
(* the old one, with exactly the reclaimed roots closed.                   *)
(***************************************************************************)
LEMMA AfterReclaim ==
  ASSUME Core
  PROVE  /\ LiveRoots \in [Projects -> HandleOrNone]
         /\ LiveLeases \in SUBSET leased
         /\ LiveOpen \in SUBSET open
         /\ \A p \in Projects : p \in LiveLeases <=> LiveRoots[p] # NoHandle
         /\ \A p \in LiveLeases : LiveRoots[p] = roots[p] /\ roots[p] \in LiveOpen
         /\ \A h \in open : h \in LiveOpen <=> \A p \in Stale : roots[p] # h
         /\ \A p \in Stale : roots[p] \in open
<1> USE RegistryAssumption DEF Core, TypeOK, Typing, RegistryConsistent, Registered
<1>1. Stale \subseteq leased /\ leased \subseteq Projects
  BY DEF Stale
<1>2. \A h \in open : h \in RootsOf(Stale) <=> \E p \in Stale : roots[p] = h
  BY DEF RootsOf
<1>3. \A p \in LiveLeases : roots[p] \in open /\ roots[p] \notin RootsOf(Stale)
  BY <1>1 DEF LiveLeases, RootsOf
<1>4. QED
  BY <1>1, <1>2, <1>3 DEF LiveRoots, LiveLeases, LiveOpen, HandleOrNone

LEMMA FreshFacts ==
  ASSUME Core, NEW h \in Fresh
  PROVE  /\ h \in Handles /\ h # NoHandle /\ h \notin open
         /\ \A p \in Projects : roots[p] # h
         /\ \A r \in Requests : held[r] # h /\ scope[r] # h
BY RegistryAssumption DEF Fresh

-----------------------------------------------------------------------------
(* Types.                                                                  *)

LEMMA TypingStep == Core /\ [Next]_vars => Typing'
<1> SUFFICES ASSUME Core, [Next]_vars PROVE Typing'
  OBVIOUS
<1> USE RegistryAssumption DEF PCs, HandleOrNone
<1>0. TypeOK
  BY DEF Core
<1>1. CASE Tick
  BY <1>0, <1>1 DEF Tick, TypeOK, Typing
<1>2. CASE CloseServer
  BY <1>0, <1>2 DEF CloseServer, TypeOK, Typing
<1>3. ASSUME NEW r \in Requests, NEW p \in Projects, OpenProject(r, p)
      PROVE  Typing'
  <2>1. CASE OpenRefused(r, p) \/ OpenNotAllowed(r, p)
    BY <1>0, <2>1, AfterReclaim
    DEF OpenRefused, OpenNotAllowed, ReclaimOnly, Reply, TypeOK, Typing
  <2>2. CASE OpenRegisters(r, p)
    BY <1>0, <2>2, AfterReclaim DEF OpenRegisters, Reply, TypeOK, Typing, Fresh
  <2>3. QED
    BY <1>3, <2>1, <2>2 DEF OpenProject
<1>4. ASSUME NEW r \in Requests, NEW p \in Projects, TakeRoot(r, p)
      PROVE  Typing'
  BY <1>0, <1>4, AfterReclaim DEF TakeRoot, Reply, TypeOK, Typing
<1>5. ASSUME NEW r \in Requests, NEW p \in Projects,
             NEW kind \in {"plain", "scoping"}, LookUp(r, p, kind)
      PROVE  Typing'
  BY <1>0, <1>5, AfterReclaim DEF LookUp, ReclaimOnly, Reply, TypeOK, Typing
<1>6. ASSUME NEW r \in Requests, Proceed(r) PROVE Typing'
  BY <1>0, <1>6 DEF Proceed, CloseTaken, PlainOperation, PinScope, PinFails,
     ScopedOperation, Respond, Reply, TypeOK, Typing, Fresh
<1>7. CASE UNCHANGED vars
  BY <1>0, <1>7 DEF vars, TypeOK, Typing
<1>8. QED
  BY <1>1, <1>2, <1>3, <1>4, <1>5, <1>6, <1>7 DEF Next, Arrive

LEMMA RootInHandStep == Core /\ [Next]_vars => RootInHand'
<1> SUFFICES ASSUME Core, [Next]_vars, NEW q \in Requests
             PROVE  /\ pc'[q] \in Borrowing => held'[q] # NoHandle
                    /\ pc'[q] = "pinned" => scope'[q] # NoHandle
  BY DEF RootInHand
<1> USE DEF Borrowing
<1>0. /\ Typing /\ NoHandle \notin Handles
      /\ pc[q] \in Borrowing => held[q] # NoHandle
      /\ pc[q] = "pinned" => scope[q] # NoHandle
  BY RegistryAssumption DEF Core, TypeOK, RootInHand
<1>1. ASSUME UNCHANGED <<pc, held, scope>>
      PROVE  /\ pc'[q] \in Borrowing => held'[q] # NoHandle
             /\ pc'[q] = "pinned" => scope'[q] # NoHandle
  BY <1>0, <1>1
<1>2. CASE Tick \/ CloseServer \/ UNCHANGED vars
  BY <1>1, <1>2 DEF Tick, CloseServer, vars
<1>3. ASSUME NEW r \in Requests, NEW p \in Projects, OpenProject(r, p)
      PROVE  /\ pc'[q] \in Borrowing => held'[q] # NoHandle
             /\ pc'[q] = "pinned" => scope'[q] # NoHandle
  BY <1>0, <1>3 DEF OpenProject, OpenRefused, OpenNotAllowed, OpenRegisters,
     Reply, Typing
<1>4. ASSUME NEW r \in Requests, NEW p \in Projects, TakeRoot(r, p)
      PROVE  /\ pc'[q] \in Borrowing => held'[q] # NoHandle
             /\ pc'[q] = "pinned" => scope'[q] # NoHandle
  BY <1>0, <1>4 DEF TakeRoot, Reply, Typing, LiveRoots
<1>5. ASSUME NEW r \in Requests, NEW p \in Projects,
             NEW kind \in {"plain", "scoping"}, LookUp(r, p, kind)
      PROVE  /\ pc'[q] \in Borrowing => held'[q] # NoHandle
             /\ pc'[q] = "pinned" => scope'[q] # NoHandle
  BY <1>0, <1>5 DEF LookUp, Reply, Typing, LiveRoots
<1>6. ASSUME NEW r \in Requests, Proceed(r)
      PROVE  /\ pc'[q] \in Borrowing => held'[q] # NoHandle
             /\ pc'[q] = "pinned" => scope'[q] # NoHandle
  <2>1. CASE PinScope(r)
    BY <1>0, <2>1 DEF PinScope, Reply, Typing, Fresh
  <2>2. CASE \/ CloseTaken(r) \/ PlainOperation(r) \/ PinFails(r)
             \/ ScopedOperation(r) \/ Respond(r)
    BY <1>0, <2>2 DEF CloseTaken, PlainOperation, PinFails, ScopedOperation,
       Respond, Reply, Typing
  <2>3. QED
    BY <1>6, <2>1, <2>2 DEF Proceed
<1>7. QED
  BY <1>2, <1>3, <1>4, <1>5, <1>6 DEF Next, Arrive

LEMMA TypeStep == Core /\ [Next]_vars => TypeOK'
BY TypingStep, RootInHandStep DEF TypeOK

-----------------------------------------------------------------------------
(* The two maps.                                                           *)

LEMMA RegistryStep == Core /\ [Next]_vars => RegistryConsistent'
<1> SUFFICES ASSUME Core, [Next]_vars PROVE RegistryConsistent'
  OBVIOUS
<1> USE RegistryAssumption
<1>0. TypeOK /\ RegistryConsistent /\ Owned
  BY DEF Core
<1>1. CASE Tick
  BY <1>0, <1>1 DEF Tick, RegistryConsistent, Registered
<1>2. CASE CloseServer
  BY <1>0, <1>2 DEF CloseServer, RegistryConsistent, Registered
<1>3. ASSUME NEW r \in Requests, NEW p \in Projects,
             ReclaimOnly, UNCHANGED closed
      PROVE  RegistryConsistent'
  BY <1>0, <1>3, AfterReclaim DEF ReclaimOnly, RegistryConsistent, Registered, TypeOK, Typing
<1>4. ASSUME NEW r \in Requests, NEW p \in Projects, OpenRegisters(r, p)
      PROVE  RegistryConsistent'
  <2>1. PICK h \in Fresh : /\ roots' = [LiveRoots EXCEPT ![p] = h]
                           /\ open' = (LiveOpen \ RootsOf({p})) \cup {h}
    BY <1>4 DEF OpenRegisters
  <2>2. leased' = LiveLeases \cup {p} /\ ~closed /\ closed' = closed
    BY <1>4 DEF OpenRegisters, OverLimit
  <2>3. /\ h \in Handles /\ h # NoHandle /\ h \notin open
        /\ \A q \in Projects : roots[q] # h
    BY FreshFacts
  <2>4. leased' = Registered(roots)'
    BY <1>0, <2>1, <2>2, <2>3, AfterReclaim DEF Registered, TypeOK, Typing
  <2>5. \A q \in LiveLeases \ {p} : roots'[q] = roots[q] /\ roots[q] \in open'
    <3> SUFFICES ASSUME NEW q \in LiveLeases \ {p}
                 PROVE  roots'[q] = roots[q] /\ roots[q] \in open'
      OBVIOUS
    <3>1. /\ q \in leased /\ q \in Projects /\ roots[q] # NoHandle
          /\ LiveRoots[q] = roots[q] /\ roots[q] \in LiveOpen
      BY <1>0, AfterReclaim DEF TypeOK, Typing, RegistryConsistent, Registered
    <3>2. roots[p] # roots[q]
      BY <1>0, <3>1 DEF RegistryConsistent, Registered
    <3>3. LiveRoots \in [Projects -> HandleOrNone]
      BY AfterReclaim
    <3>4. QED
      BY <2>1, <3>1, <3>2, <3>3 DEF RootsOf
  <2>6. roots'[p] = h /\ h \in open'
    BY <2>1, AfterReclaim
  <2>7. \A q \in leased' : roots'[q] \in open'
    BY <2>2, <2>5, <2>6
  <2>8. \A q, s \in leased' : roots'[q] = roots'[s] => q = s
    <3>1. LiveLeases \subseteq leased /\ leased \subseteq Projects
      BY <1>0, AfterReclaim DEF TypeOK, Typing
    <3>2. \A q \in LiveLeases \ {p} : roots'[q] # h
      BY <2>3, <2>5, <3>1
    <3>3. \A q, s \in LiveLeases \ {p} : roots'[q] = roots'[s] => q = s
      BY <1>0, <2>5, <3>1 DEF RegistryConsistent
    <3>4. QED
      BY <2>2, <2>6, <3>2, <3>3
  <2>9. QED
    BY <2>2, <2>4, <2>7, <2>8 DEF RegistryConsistent
<1>5. ASSUME NEW r \in Requests, NEW p \in Projects, TakeRoot(r, p)
      PROVE  RegistryConsistent'
  <2>1. /\ roots' = [LiveRoots EXCEPT ![p] = NoHandle]
        /\ leased' = LiveLeases \ {p} /\ open' = LiveOpen /\ closed' = closed
    BY <1>5 DEF TakeRoot
  <2>2. leased' = Registered(roots)'
    BY <1>0, <2>1, AfterReclaim DEF Registered, TypeOK, Typing
  <2>3. \A q \in leased' : roots'[q] = roots[q] /\ roots[q] \in open'
    BY <1>0, <2>1, AfterReclaim DEF TypeOK, Typing
  <2>4. QED
    BY <1>0, <2>1, <2>2, <2>3, AfterReclaim DEF RegistryConsistent
<1>6. ASSUME NEW r \in Requests, UNCHANGED <<closed, roots, leased>>,
             \A h \in open : h \in open' \/ \A p \in Projects : roots[p] # h
      PROVE  RegistryConsistent'
  BY <1>0, <1>6 DEF RegistryConsistent, Registered, TypeOK, Typing
<1>7. ASSUME NEW r \in Requests, Proceed(r) PROVE RegistryConsistent'
  <2>1. CASE CloseTaken(r)
    BY <1>0, <1>6, <2>1 DEF CloseTaken, Owned, TakenOwned
  <2>2. CASE ScopedOperation(r)
    BY <1>0, <1>6, <2>2 DEF ScopedOperation, Owned, PinnedOwned
  <2>3. CASE PlainOperation(r) \/ PinScope(r) \/ PinFails(r) \/ Respond(r)
    BY <1>6, <2>3 DEF PlainOperation, PinScope, PinFails, Respond
  <2>4. QED
    BY <1>7, <2>1, <2>2, <2>3 DEF Proceed
<1>8. CASE UNCHANGED vars
  BY <1>0, <1>8 DEF vars, RegistryConsistent, Registered
<1>9. ASSUME NEW r \in Requests, Arrive(r) PROVE RegistryConsistent'
  BY <1>3, <1>4, <1>5, <1>9
  DEF Arrive, OpenProject, OpenRefused, OpenNotAllowed, LookUp
<1>10. QED
  BY <1>1, <1>2, <1>7, <1>8, <1>9 DEF Next

-----------------------------------------------------------------------------
(* Ownership of the handles outside the map.                               *)

(***************************************************************************)
(* What a critical section may do to handles: it closes registered roots   *)
(* only, registers fresh ones only, and leaves the other handlers alone.   *)
(***************************************************************************)
ClosesOnlyRegistered ==
  \A h \in open : h \in open' \/ \E p \in Projects : roots[p] = h

RegistersOnlyFresh ==
  \A p \in Projects : roots'[p] \in {roots[p], NoHandle} \cup Fresh

OthersUntouched(r) ==
  /\ scope' = scope
  /\ \A q \in Requests \ {r} : pc'[q] = pc[q] /\ held'[q] = held[q]

TakesOneOut(r) ==
  pc'[r] = "taken" => /\ held'[r] \in open'
                      /\ \E p \in Projects : roots[p] = held'[r]
                      /\ \A p \in Projects : roots'[p] # held'[r]

NothingForgotten(r) ==
  \A h \in open' : \/ \E p \in Projects : roots'[p] = h
                   \/ h \in open /\ \A p \in Projects : roots[p] # h
                   \/ pc'[r] = "taken" /\ held'[r] = h

CriticalSection(r) ==
  /\ ClosesOnlyRegistered /\ RegistersOnlyFresh /\ OthersUntouched(r)
  /\ TakesOneOut(r) /\ NothingForgotten(r)

LEMMA ReclaimIsCriticalSection ==
  ASSUME Core, NEW r \in Requests, ReclaimOnly, OthersUntouched(r),
         pc'[r] # "taken"
  PROVE  CriticalSection(r)
<1> USE DEF ReclaimOnly
<1>0. TypeOK /\ RegistryConsistent
  BY DEF Core
<1>1. Stale \subseteq Projects
  BY <1>0 DEF TypeOK, Typing, Stale
<1>2. ClosesOnlyRegistered
  BY <1>1, AfterReclaim DEF ClosesOnlyRegistered
<1>3. RegistersOnlyFresh
  BY AfterReclaim DEF RegistersOnlyFresh, LiveRoots
<1>4. NothingForgotten(r)
  <2> SUFFICES ASSUME NEW h \in open', \A p \in Projects : roots'[p] # h
               PROVE  h \in open /\ \A p \in Projects : roots[p] # h
    BY DEF NothingForgotten
  <2>1. h \in open /\ \A p \in Stale : roots[p] # h
    BY AfterReclaim
  <2>2. QED
    BY <2>1 DEF LiveRoots
<1>5. QED
  BY <1>2, <1>3, <1>4 DEF CriticalSection, TakesOneOut

LEMMA OpenIsCriticalSection ==
  ASSUME Core, NEW r \in Requests, NEW p \in Projects, OpenRegisters(r, p)
  PROVE  CriticalSection(r)
<1>0. TypeOK /\ RegistryConsistent
  BY DEF Core
<1>1. PICK h \in Fresh : /\ roots' = [LiveRoots EXCEPT ![p] = h]
                         /\ open' = (LiveOpen \ RootsOf({p})) \cup {h}
  BY DEF OpenRegisters
<1>2. /\ h \in Handles /\ h # NoHandle /\ h \notin open
      /\ \A q \in Projects : roots[q] # h
  BY FreshFacts
<1>3. pc'[r] = "ok" /\ OthersUntouched(r)
  BY <1>0 DEF OpenRegisters, Reply, OthersUntouched, TypeOK, Typing
<1>4. Stale \subseteq Projects
  BY <1>0 DEF TypeOK, Typing, Stale
<1>5. /\ \A k \in LiveOpen : k \in open'  \/ k = roots[p]
      /\ \A k \in open' : k = h \/ (k \in LiveOpen /\ k # roots[p])
      /\ roots'[p] = h
      /\ \A q \in Projects \ {p} : roots'[q] = LiveRoots[q]
  <2>1. /\ LiveRoots \in [Projects -> HandleOrNone]
        /\ LiveOpen \subseteq Handles
    BY <1>0, AfterReclaim DEF TypeOK, Typing
  <2>2. \A k \in Handles : k \in RootsOf({p}) <=> k = roots[p]
    BY RegistryAssumption DEF RootsOf
  <2>3. QED
    BY <1>1, <2>1, <2>2
<1>6. ClosesOnlyRegistered
  BY <1>4, <1>5, AfterReclaim DEF ClosesOnlyRegistered
<1>7. RegistersOnlyFresh
  BY <1>5 DEF RegistersOnlyFresh, LiveRoots
<1>8. NothingForgotten(r)
  <2> SUFFICES ASSUME NEW k \in open', \A q \in Projects : roots'[q] # k
               PROVE  k \in open /\ \A q \in Projects : roots[q] # k
    BY DEF NothingForgotten
  <2>1. k \in LiveOpen /\ k # roots[p]
    BY <1>5
  <2>2. k \in open /\ \A q \in Stale : roots[q] # k
    BY <2>1, AfterReclaim
  <2>3. QED
    BY <1>5, <2>1, <2>2 DEF LiveRoots
<1>9. QED
  BY <1>3, <1>6, <1>7, <1>8 DEF CriticalSection, TakesOneOut

LEMMA TakeIsCriticalSection ==
  ASSUME Core, NEW r \in Requests, NEW p \in Projects, TakeRoot(r, p)
  PROVE  CriticalSection(r)
<1>0. TypeOK /\ RegistryConsistent
  BY DEF Core
<1>1. /\ roots' = [LiveRoots EXCEPT ![p] = NoHandle] /\ open' = LiveOpen
      /\ scope' = scope
  BY DEF TakeRoot
<1>2. /\ roots'[p] = NoHandle
      /\ \A q \in Projects \ {p} : roots'[q] = LiveRoots[q]
  BY <1>1, AfterReclaim
<1>3. OthersUntouched(r)
  BY <1>0 DEF TakeRoot, Reply, OthersUntouched, TypeOK, Typing
<1>4. /\ LiveRoots[p] = NoHandle => pc'[r] = "failed"
      /\ LiveRoots[p] # NoHandle => pc'[r] = "taken" /\ held'[r] = roots[p]
  BY <1>0 DEF TakeRoot, Reply, TypeOK, Typing
<1>5. Stale \subseteq Projects
  BY <1>0 DEF TypeOK, Typing, Stale
<1>6. ClosesOnlyRegistered
  BY <1>1, <1>5, AfterReclaim DEF ClosesOnlyRegistered
<1>7. RegistersOnlyFresh
  BY <1>2 DEF RegistersOnlyFresh, LiveRoots
<1>8. TakesOneOut(r)
  <2> SUFFICES ASSUME LiveRoots[p] # NoHandle
               PROVE  /\ roots[p] \in open'
                      /\ \A q \in Projects : roots'[q] # roots[p]
    BY <1>4 DEF TakesOneOut
  <2>1. p \in LiveLeases /\ p \in leased /\ roots[p] \in LiveOpen
    BY AfterReclaim
  <2>2. \A q \in Projects \ {p} : roots[q] # roots[p]
    BY <1>0, <2>1 DEF RegistryConsistent, Registered
  <2>3. roots[p] # NoHandle
    BY <1>0, <2>1 DEF RegistryConsistent, Registered
  <2>4. QED
    BY <1>1, <1>2, <2>1, <2>2, <2>3 DEF LiveRoots
<1>9. NothingForgotten(r)
  <2> SUFFICES ASSUME NEW k \in open', \A q \in Projects : roots'[q] # k,
                      ~(pc'[r] = "taken" /\ held'[r] = k)
               PROVE  k \in open /\ \A q \in Projects : roots[q] # k
    BY DEF NothingForgotten
  <2>1. k \in open /\ \A q \in Stale : roots[q] # k
    BY <1>1, AfterReclaim
  <2>2. \A q \in Projects \ {p} : roots[q] # k
    BY <1>2, <2>1 DEF LiveRoots
  <2>3. roots[p] # k
    <3>1. CASE p \in Stale
      BY <2>1, <3>1
    <3>2. CASE p \notin Stale /\ LiveRoots[p] # NoHandle
      BY <1>4, <3>2
    <3>3. CASE p \notin Stale /\ LiveRoots[p] = NoHandle
      BY <1>0, <2>1, <3>3, RegistryAssumption DEF LiveRoots, TypeOK, Typing
    <3>4. QED
      BY <3>1, <3>2, <3>3
  <2>4. QED
    BY <2>1, <2>2, <2>3
<1>10. QED
  BY <1>3, <1>6, <1>7, <1>8, <1>9 DEF CriticalSection

LEMMA ArriveIsCriticalSection ==
  ASSUME Core, NEW r \in Requests, Arrive(r)
  PROVE  CriticalSection(r) /\ pc'[r] # "pinned"
<1>0. TypeOK
  BY DEF Core
<1>1. ASSUME NEW p \in Projects, OpenRefused(r, p) \/ OpenNotAllowed(r, p)
      PROVE  CriticalSection(r) /\ pc'[r] # "pinned"
  <2>1. OthersUntouched(r) /\ pc'[r] \in {"full", "failed"} /\ ReclaimOnly
    BY <1>0, <1>1
    DEF OpenRefused, OpenNotAllowed, Reply, OthersUntouched, TypeOK, Typing
  <2>2. QED
    BY <2>1, ReclaimIsCriticalSection
<1>2. ASSUME NEW p \in Projects, OpenRegisters(r, p)
      PROVE  CriticalSection(r) /\ pc'[r] # "pinned"
  BY <1>0, <1>2, OpenIsCriticalSection DEF OpenRegisters, Reply, TypeOK, Typing
<1>3. ASSUME NEW p \in Projects, TakeRoot(r, p)
      PROVE  CriticalSection(r) /\ pc'[r] # "pinned"
  BY <1>0, <1>3, TakeIsCriticalSection DEF TakeRoot, Reply, TypeOK, Typing
<1>4. ASSUME NEW p \in Projects, NEW kind \in {"plain", "scoping"},
             LookUp(r, p, kind)
      PROVE  CriticalSection(r) /\ pc'[r] # "pinned"
  <2>1. /\ OthersUntouched(r) /\ pc'[r] \in {"failed", "plain", "scoping"}
        /\ ReclaimOnly
    BY <1>0, <1>4 DEF LookUp, Reply, OthersUntouched, TypeOK, Typing
  <2>2. QED
    BY <2>1, ReclaimIsCriticalSection
<1>5. QED
  BY <1>1, <1>2, <1>3, <1>4 DEF Arrive, OpenProject

\* A step of one handler between critical sections.
LEMMA OwnedStep == Core /\ [Next]_vars => Owned'
<1> SUFFICES ASSUME Core, [Next]_vars PROVE Owned'
  OBVIOUS
<1> USE RegistryAssumption
<1>0. TypeOK /\ RegistryConsistent /\ Owned /\ open \subseteq Handles
  BY DEF Core, TypeOK, Typing
<1>1. CASE Tick \/ UNCHANGED vars
  BY <1>0, <1>1 DEF Tick, vars, Owned, TakenOwned, PinnedOwned
<1>2. CASE CloseServer
  <2>1. /\ pc' = pc /\ held' = held /\ scope' = scope
        /\ \A p \in Projects : roots'[p] = NoHandle
        /\ \A h \in open : h \in open' \/ \E p \in Projects : roots[p] = h
    BY <1>2 DEF CloseServer, RootsOf
  <2>2. QED
    BY <1>0, <2>1 DEF Owned, TakenOwned, PinnedOwned
<1>3. ASSUME NEW r \in Requests, Arrive(r) PROVE Owned'
  <2>1. CriticalSection(r) /\ pc'[r] # "pinned"
    BY <1>3, ArriveIsCriticalSection
  <2> USE <2>1 DEF CriticalSection, ClosesOnlyRegistered, RegistersOnlyFresh,
                   OthersUntouched, TakesOneOut
  <2>2. ASSUME NEW q \in Requests \ {r}, pc[q] = "taken"
        PROVE  /\ held[q] \in open'
               /\ pc'[r] = "taken" => held[q] # held'[r]
               /\ \A p \in Projects : roots'[p] # held[q]
    BY <1>0, <2>2, FreshFacts DEF Owned, TakenOwned
  <2>3. ASSUME NEW q \in Requests \ {r}, pc[q] = "pinned"
        PROVE  /\ scope[q] \in open'
               /\ pc'[r] = "taken" => scope[q] # held'[r]
               /\ \A p \in Projects : roots'[p] # scope[q]
    BY <1>0, <2>3, FreshFacts DEF Owned, PinnedOwned
  <2>4. ASSUME NEW q \in Requests PROVE TakenOwned(q)'
    BY <1>0, <2>2 DEF Owned, TakenOwned
  <2>5. ASSUME NEW q \in Requests PROVE PinnedOwned(q)'
    BY <1>0, <2>3 DEF Owned, PinnedOwned
  <2>6. QED
    BY <2>4, <2>5 DEF Owned
<1>4. ASSUME NEW r \in Requests, CloseTaken(r) PROVE Owned'
  BY <1>0, <1>4 DEF CloseTaken, Reply, TypeOK, Typing, Owned, TakenOwned, PinnedOwned
<1>5. ASSUME NEW r \in Requests, PlainOperation(r) \/ PinFails(r)
      PROVE  Owned'
  BY <1>0, <1>5
  DEF PlainOperation, PinFails, Reply, TypeOK, Typing, Owned, TakenOwned, PinnedOwned
<1>6. ASSUME NEW r \in Requests, PinScope(r) PROVE Owned'
  <2>1. PICK s \in Fresh : /\ scope' = [scope EXCEPT ![r] = s]
                           /\ open' = open \cup {s}
    BY <1>6 DEF PinScope
  <2>2. /\ s \notin open /\ s # NoHandle
        /\ \A p \in Projects : roots[p] # s
        /\ \A q \in Requests : held[q] # s /\ scope[q] # s
    BY FreshFacts
  <2>3. /\ pc'[r] = "pinned" /\ scope'[r] = s /\ roots' = roots
        /\ \A q \in Requests \ {r} :
             pc'[q] = pc[q] /\ held'[q] = held[q] /\ scope'[q] = scope[q]
    BY <1>0, <1>6, <2>1 DEF PinScope, Reply, TypeOK, Typing
  <2>4. ASSUME NEW q \in Requests PROVE TakenOwned(q)' /\ PinnedOwned(q)'
    BY <1>0, <2>1, <2>2, <2>3 DEF Owned, TakenOwned, PinnedOwned
  <2>5. QED
    BY <2>4 DEF Owned
<1>7. ASSUME NEW r \in Requests, ScopedOperation(r) PROVE Owned'
  BY <1>0, <1>7 DEF ScopedOperation, Reply, TypeOK, Typing, Owned, TakenOwned, PinnedOwned
<1>8. ASSUME NEW r \in Requests, Respond(r) PROVE Owned'
  BY <1>0, <1>8 DEF Respond, Reply, TypeOK, Typing, Owned, TakenOwned, PinnedOwned
<1>9. QED
  BY <1>1, <1>2, <1>3, <1>4, <1>5, <1>6, <1>7, <1>8 DEF Next, Proceed

LEMMA LeakStep == Core /\ [Next]_vars => NoneLeaked'
<1> SUFFICES ASSUME Core, [Next]_vars, NEW h \in open' PROVE NotLeaked(h)'
  BY DEF NoneLeaked
<1>0. /\ TypeOK /\ RegistryConsistent /\ Owned /\ open \subseteq Handles
      /\ h \in open => NotLeaked(h)
  BY DEF Core, TypeOK, Typing, NoneLeaked
<1>1. CASE Tick \/ UNCHANGED vars
  BY <1>0, <1>1 DEF Tick, vars, NotLeaked
<1>2. CASE CloseServer
  BY <1>0, <1>2, RegistryAssumption DEF CloseServer, RootsOf, NotLeaked
<1>3. ASSUME NEW r \in Requests, Arrive(r) PROVE NotLeaked(h)'
  <2>1. /\ CriticalSection(r) /\ pc'[r] # "pinned"
        /\ pc[r] = "idle"
    BY <1>3, ArriveIsCriticalSection
    DEF Arrive, OpenProject, OpenRefused, OpenNotAllowed, OpenRegisters,
        TakeRoot, LookUp
  <2>2. QED
    BY <1>0, <2>1 DEF CriticalSection, NothingForgotten, OthersUntouched, NotLeaked
<1>4. ASSUME NEW r \in Requests, CloseTaken(r) PROVE NotLeaked(h)'
  BY <1>0, <1>4 DEF CloseTaken, Reply, TypeOK, Typing, NotLeaked
<1>5. ASSUME NEW r \in Requests, PlainOperation(r) \/ PinFails(r) \/ Respond(r)
      PROVE  NotLeaked(h)'
  BY <1>0, <1>5 DEF PlainOperation, PinFails, Respond, Reply, TypeOK, Typing, NotLeaked
<1>6. ASSUME NEW r \in Requests, PinScope(r) PROVE NotLeaked(h)'
  BY <1>0, <1>6 DEF PinScope, Reply, TypeOK, Typing, NotLeaked
<1>7. ASSUME NEW r \in Requests, ScopedOperation(r) PROVE NotLeaked(h)'
  BY <1>0, <1>7 DEF ScopedOperation, Reply, TypeOK, Typing, NotLeaked
<1>8. QED
  BY <1>1, <1>2, <1>3, <1>4, <1>5, <1>6, <1>7 DEF Next, Proceed

LEMMA CoreInvariance == Spec => []Core
<1>1. Core /\ [Next]_vars => Core'
  BY TypeStep, RegistryStep, OwnedStep, LeakStep DEF Core
<1>2. QED
  BY InitCore, <1>1, PTL DEF Spec

-----------------------------------------------------------------------------
(* The quota.                                                              *)

LEMMA RegisteredFinite ==
  \A rs : IsFiniteSet(Registered(rs)) /\ Cardinality(Registered(rs)) \in Nat
<1> SUFFICES ASSUME NEW rs
             PROVE  IsFiniteSet(Registered(rs)) /\ Cardinality(Registered(rs)) \in Nat
  OBVIOUS
<1>1. Registered(rs) \in SUBSET Projects
  BY DEF Registered
<1>2. QED
  BY <1>1, RegistryAssumption, FS_Subset, FS_CardinalityType

LEMMA QuotaStep == Core /\ QuotaHeld /\ [Next]_vars => QuotaHeld'
<1> SUFFICES ASSUME Core, QuotaHeld, [Next]_vars PROVE QuotaHeld'
  OBVIOUS
<1>0. /\ TypeOK /\ MaxProjects \in Nat
      /\ LiveRoots \in [Projects -> HandleOrNone]
      /\ Registered(LiveRoots) \subseteq Registered(roots)
  BY RegistryAssumption, AfterReclaim DEF Core, Registered, LiveRoots
<1>1. ASSUME Registered(roots') \subseteq Registered(roots) PROVE QuotaHeld'
  <2>1. Cardinality(Registered(roots')) <= Cardinality(Registered(roots))
    BY <1>1, RegisteredFinite, FS_Subset
  <2>2. /\ Cardinality(Registered(roots')) \in Nat
        /\ Cardinality(Registered(roots)) \in Nat
    BY RegisteredFinite
  <2>3. QED
    BY <1>0, <2>1, <2>2 DEF QuotaHeld
<1>2. ASSUME NEW r \in Requests, NEW p \in Projects, OpenRegisters(r, p)
      PROVE  QuotaHeld'
  <2>1. PICK h \in Fresh : roots' = [LiveRoots EXCEPT ![p] = h]
    BY <1>2 DEF OpenRegisters
  <2>2. h # NoHandle
    BY FreshFacts
  <2>3. Registered(roots') = Registered(LiveRoots) \cup {p}
    BY <1>0, <2>1, <2>2 DEF Registered
  <2>4. CASE LiveRoots[p] # NoHandle
    <3>1. Registered(roots') = Registered(LiveRoots)
      BY <2>3, <2>4 DEF Registered
    <3>2. QED
      BY <1>0, <1>1, <3>1
  <2>5. CASE LiveRoots[p] = NoHandle
    <3>1. Cardinality(Registered(LiveRoots)) < MaxProjects
      BY <1>0, <1>2, <2>5, RegisteredFinite DEF OpenRegisters, OverLimit
    <3>2. Cardinality(Registered(roots')) = Cardinality(Registered(LiveRoots)) + 1
      <4>1. p \notin Registered(LiveRoots)
        BY <2>5 DEF Registered
      <4>2. IsFiniteSet(Registered(LiveRoots))
        BY RegisteredFinite
      <4> HIDE DEF Registered
      <4>3. QED
        BY <2>3, <4>1, <4>2, FS_AddElement
    <3>3. Cardinality(Registered(LiveRoots)) \in Nat
      BY RegisteredFinite
    <3>4. QED
      BY <1>0, <3>1, <3>2, <3>3 DEF QuotaHeld
  <2>6. QED
    BY <2>4, <2>5
<1>3. ASSUME ReclaimOnly PROVE QuotaHeld'
  BY <1>0, <1>1, <1>3 DEF ReclaimOnly
<1>4. ASSUME NEW r \in Requests, NEW p \in Projects, TakeRoot(r, p)
      PROVE  QuotaHeld'
  <2>1. roots' = [LiveRoots EXCEPT ![p] = NoHandle]
    BY <1>4 DEF TakeRoot
  <2>2. Registered(roots') \subseteq Registered(LiveRoots)
    BY <1>0, <2>1 DEF Registered
  <2>3. QED
    BY <1>0, <1>1, <2>2
<1>5. CASE CloseServer
  BY <1>1, <1>5 DEF CloseServer, Registered
<1>6. ASSUME UNCHANGED roots PROVE QuotaHeld'
  BY <1>1, <1>6
<1>7. ASSUME NEW r \in Requests, Proceed(r) PROVE QuotaHeld'
  BY <1>6, <1>7 DEF Proceed, CloseTaken, PlainOperation, PinScope, PinFails,
     ScopedOperation, Respond
<1>8. CASE Tick \/ UNCHANGED vars
  BY <1>6, <1>8 DEF Tick, vars
<1>9. QED
  BY <1>2, <1>3, <1>4, <1>5, <1>7, <1>8
  DEF Next, Arrive, OpenProject, OpenRefused, OpenNotAllowed, LookUp

-----------------------------------------------------------------------------
(* The properties.                                                         *)

(***************************************************************************)
(* Every variable of the registry keeps its type.                          *)
(***************************************************************************)
THEOREM RegistryTypeCorrect == Spec => []TypeOK
<1>1. Core => TypeOK
  BY DEF Core
<1>2. QED
  BY <1>1, CoreInvariance, PTL

(***************************************************************************)
(* roots and lastUsed always have the same keys and every registered root  *)
(* is open and nobody else's.                                              *)
(***************************************************************************)
THEOREM RegistryStaysConsistent == Spec => []RegistryConsistent
<1>1. Core => RegistryConsistent
  BY DEF Core
<1>2. QED
  BY <1>1, CoreInvariance, PTL

(***************************************************************************)
(* No interleaving of registrations exceeds MaxProjects.                   *)
(***************************************************************************)
THEOREM QuotaIsHeld == Spec => []QuotaHeld
<1>1. Init => QuotaHeld
  <2>1. Init => Registered(roots) = {}
    BY DEF Init, Registered
  <2>2. QED
    BY <2>1, FS_EmptySet, RegistryAssumption DEF QuotaHeld
<1>2. QED
  BY <1>1, QuotaStep, CoreInvariance, PTL DEF Spec

(***************************************************************************)
(* The two maps agree and hold the quota.                                  *)
(***************************************************************************)
THEOREM RegistryStaysSound == Spec => []RegistrySound
<1>1. RegistryConsistent /\ QuotaHeld => RegistrySound
  BY DEF RegistrySound
<1>2. QED
  BY <1>1, RegistryStaysConsistent, QuotaIsHeld, PTL

(***************************************************************************)
(* Every open Root handle is registered or has a handler that will close   *)
(* it.                                                                     *)
(***************************************************************************)
THEOREM HandlesDoNotLeak == Spec => []NoHandleLeak
<1>1. Core => NoHandleLeak
  BY DEF Core, NoneLeaked, NotLeaked, NoHandleLeak, Closing, Pinning
<1>2. QED
  BY <1>1, CoreInvariance, PTL

(***************************************************************************)
(* A handle outside the map is open and has exactly one handler to close   *)
(* it.                                                                     *)
(***************************************************************************)
THEOREM HandlesHaveOneCloser == Spec => []SoleCloser
<1>1. ASSUME Core PROVE SoleCloser
  <2> SUFFICES ASSUME NEW r \in Requests
               PROVE  /\ pc[r] = "taken" => /\ held[r] \in open
                                            /\ Closing(held[r]) = {r}
                                            /\ \A p \in Projects : roots[p] # held[r]
                      /\ pc[r] = "pinned" => /\ scope[r] \in open
                                             /\ Pinning(scope[r]) = {r}
                                             /\ \A p \in Projects : roots[p] # scope[r]
                                             /\ Closing(scope[r]) = {}
    BY DEF SoleCloser
  <2>1. TakenOwned(r) /\ PinnedOwned(r)
    BY <1>1 DEF Core, Owned
  <2>2. QED
    BY <2>1 DEF TakenOwned, PinnedOwned, Closing, Pinning
<1>2. QED
  BY <1>1, CoreInvariance, PTL

(***************************************************************************)
(* A registration is dropped only by a close request, by an idle lease or  *)
(* by the end of the server.                                               *)
(***************************************************************************)
THEOREM LeasesAreHonoured == Spec => LeaseHonoured
<1>1. ASSUME Core, [Next]_vars, NEW p \in Projects,
             roots[p] # NoHandle, roots'[p] = NoHandle
      PROVE  \/ idle[p] >= IdleTimeout
             \/ closed'
             \/ \E r \in Requests : /\ pc[r] = "idle" /\ pc'[r] = "taken"
                                    /\ held'[r] = roots[p]
  <2>0. TypeOK
    BY <1>1 DEF Core
  <2>1. ASSUME p \in Stale PROVE idle[p] >= IdleTimeout
    BY <2>1 DEF Stale
  <2>2. ASSUME ReclaimOnly PROVE idle[p] >= IdleTimeout
    BY <1>1, <2>1, <2>2 DEF ReclaimOnly, LiveRoots
  <2>3. ASSUME NEW r \in Requests, NEW q \in Projects, OpenRegisters(r, q)
        PROVE  idle[p] >= IdleTimeout
    <3>1. PICK h \in Fresh : roots' = [LiveRoots EXCEPT ![q] = h]
      BY <2>3 DEF OpenRegisters
    <3>2. p # q /\ roots'[p] = LiveRoots[p]
      BY <1>1, <3>1, FreshFacts, AfterReclaim
    <3>3. QED
      BY <1>1, <2>1, <3>2 DEF LiveRoots
  <2>4. ASSUME NEW r \in Requests, NEW q \in Projects, TakeRoot(r, q),
               p \notin Stale
        PROVE  /\ pc[r] = "idle" /\ pc'[r] = "taken"
               /\ held'[r] = roots[p]
    <3>1. roots' = [LiveRoots EXCEPT ![q] = NoHandle]
      BY <2>4 DEF TakeRoot
    <3>2. LiveRoots[p] = roots[p]
      BY <2>4 DEF LiveRoots
    <3>3. p = q
      BY <1>1, <3>1, <3>2, AfterReclaim
    <3>4. QED
      BY <1>1, <2>0, <2>4, <3>2, <3>3 DEF TakeRoot, Reply, TypeOK, Typing
  <2>5. ASSUME UNCHANGED roots PROVE FALSE
    BY <1>1, <2>5
  <2>6. ASSUME CloseServer PROVE closed'
    BY <2>6 DEF CloseServer
  <2>7. ASSUME NEW r \in Requests, Proceed(r) PROVE FALSE
    BY <2>5, <2>7 DEF Proceed, CloseTaken, PlainOperation, PinScope, PinFails,
       ScopedOperation, Respond
  <2>8. CASE Tick \/ UNCHANGED vars
    BY <2>5, <2>8 DEF Tick, vars
  <2>9. QED
    BY <1>1, <2>1, <2>2, <2>3, <2>4, <2>6, <2>7, <2>8
    DEF Next, Arrive, OpenProject, OpenRefused, OpenNotAllowed, LookUp
<1>2. Core /\ [Next]_vars =>
        [\A p \in Projects :
           roots[p] # NoHandle /\ roots'[p] = NoHandle =>
             \/ idle[p] >= IdleTimeout
             \/ closed'
             \/ \E r \in Requests : /\ pc[r] = "idle" /\ pc'[r] = "taken"
                                    /\ held'[r] = roots[p]]_vars
  BY <1>1
<1>3. QED
  BY <1>2, CoreInvariance, PTL DEF Spec, LeaseHonoured

(***************************************************************************)
(* Idle leases never crowd out a registration: one is refused only when    *)
(* MaxProjects leases are in use or the server is closed.                  *)
(***************************************************************************)
THEOREM RefusalsAreJustified == Spec => RefusedOnlyWhenFull
<1>1. ASSUME Core, [Next]_vars, NEW r \in Requests,
             pc[r] # "full", pc'[r] = "full"
      PROVE  closed \/ Cardinality(InUse) >= MaxProjects
  <2>0. TypeOK /\ IdleTimeout \in Nat
    BY <1>1, RegistryAssumption DEF Core
  <2>1. Registered(LiveRoots) = InUse
    <3>1. Registered(LiveRoots) = LiveLeases
      BY <1>1, <2>0, AfterReclaim DEF Registered, LiveLeases, TypeOK, Typing
    <3>2. \A p \in leased : idle[p] \in Nat
      BY <2>0 DEF TypeOK, Typing
    <3>3. LiveLeases = InUse
      BY <2>0, <3>2 DEF LiveLeases, Stale, InUse
    <3>4. QED
      BY <3>1, <3>3
  <2>2. ASSUME NEW q \in Requests, NEW answer, Reply(q, answer), answer # "full"
        PROVE  FALSE
    BY <1>1, <2>0, <2>2 DEF Reply, TypeOK, Typing
  <2>3. ASSUME UNCHANGED pc PROVE FALSE
    BY <1>1, <2>3
  <2>4. ASSUME NEW q \in Requests, NEW p \in Projects, OpenRefused(q, p)
        PROVE  closed \/ Cardinality(InUse) >= MaxProjects
    BY <2>1, <2>4 DEF OpenRefused, OverLimit
  <2>5. ASSUME NEW q \in Requests, NEW p \in Projects,
               OpenNotAllowed(q, p) \/ OpenRegisters(q, p) \/ TakeRoot(q, p)
        PROVE  FALSE
    BY <2>2, <2>5 DEF OpenNotAllowed, OpenRegisters, TakeRoot
  <2>6. ASSUME NEW q \in Requests, NEW p \in Projects,
               NEW kind \in {"plain", "scoping"}, LookUp(q, p, kind)
        PROVE  FALSE
    BY <2>2, <2>6 DEF LookUp
  <2>7. ASSUME NEW q \in Requests, Proceed(q) PROVE FALSE
    BY <2>2, <2>7 DEF Proceed, CloseTaken, PlainOperation, PinScope, PinFails,
       ScopedOperation, Respond
  <2>8. CASE Tick \/ CloseServer \/ UNCHANGED vars
    BY <2>3, <2>8 DEF Tick, CloseServer, vars
  <2>9. QED
    BY <1>1, <2>4, <2>5, <2>6, <2>7, <2>8 DEF Next, Arrive, OpenProject
<1>2. Core /\ [Next]_vars =>
        [\A r \in Requests :
           pc[r] # "full" /\ pc'[r] = "full" =>
             closed \/ Cardinality(InUse) >= MaxProjects]_vars
  BY <1>1
<1>3. QED
  BY <1>2, CoreInvariance, PTL DEF Spec, RefusedOnlyWhenFull
=============================================================================
