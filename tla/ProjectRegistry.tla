-------------------------- MODULE ProjectRegistry --------------------------
(***************************************************************************)
(* Project registration of the canonicalfs daemon: Server.roots and        *)
(* Server.lastUsed of canonicalfsrpc/server.go, the handlers that register *)
(* and close projects, and the handles that file operations borrow.        *)
(*                                                                         *)
(* Handlers run concurrently.  Server.mu protects the two maps, but a file *)
(* operation fetches its root under the lock and uses it after the unlock, *)
(* so a root may be closed, replaced or reclaimed while it is in use.      *)
(***************************************************************************)
EXTENDS Naturals, FiniteSets

CONSTANTS
  Projects,      \* project_id values
  Requests,      \* handler goroutines; each handles one request at a time
  Handles,       \* identities of canonicalfs.Root objects
  NoHandle,
  MaxProjects,
  IdleTimeout    \* projectIdleTimeout, in ticks

ASSUME RegistryAssumption ==
  /\ IsFiniteSet(Projects)
  /\ NoHandle \notin Handles
  /\ MaxProjects \in Nat \ {0}
  /\ IdleTimeout \in Nat \ {0}

VARIABLES
  closed,   \* Server.closed; its allowed roots are gone then
  roots,    \* Server.roots
  leased,   \* the keys of Server.lastUsed
  idle,     \* ticks since lastUsed of a leased project
  open,     \* the Root handles that are open
  pc,       \* what each handler goroutine is doing
  held,     \* the registered root a handler fetched or took
  scope     \* the scope anchor a handler opened below it

vars == <<closed, roots, leased, idle, open, pc, held, scope>>

(***************************************************************************)
(* plain, scoping: a root was fetched for a file operation on it or below  *)
(* a scope anchor.  pinned: the anchor is open.  taken: takeRoot removed   *)
(* the root and root.Close is next.  full, failed, ok: the response.       *)
(***************************************************************************)
PCs == {"idle", "plain", "scoping", "pinned", "taken", "full", "failed", "ok"}

Borrowing == {"plain", "scoping", "taken"}   \* the handler has a root in hand

HandleOrNone == Handles \cup {NoHandle}

Typing ==
  /\ closed \in BOOLEAN
  /\ roots \in [Projects -> HandleOrNone]
  /\ leased \in SUBSET Projects
  /\ idle \in [Projects -> 0..IdleTimeout]
  /\ open \in SUBSET Handles
  /\ pc \in [Requests -> PCs]
  /\ held \in [Requests -> HandleOrNone]
  /\ scope \in [Requests -> HandleOrNone]

RootInHand ==   \* no handler works on a nil root
  \A r \in Requests : /\ pc[r] \in Borrowing => held[r] # NoHandle
                      /\ pc[r] = "pinned" => scope[r] # NoHandle

TypeOK == Typing /\ RootInHand

Init ==
  /\ closed = FALSE
  /\ roots = [p \in Projects |-> NoHandle]
  /\ leased = {}
  /\ idle = [p \in Projects |-> 0]
  /\ open = {}
  /\ pc = [r \in Requests |-> "idle"]
  /\ held = [r \in Requests |-> NoHandle]
  /\ scope = [r \in Requests |-> NoHandle]

-----------------------------------------------------------------------------
Registered(rs) == {p \in Projects : rs[p] # NoHandle}

RootsOf(ps) == {roots[p] : p \in ps} \ {NoHandle}

(***************************************************************************)
(* A handle no map entry and no handler refers to any more is garbage, so  *)
(* its identity can stand for a new Root, unless it was left open.         *)
(***************************************************************************)
Fresh == {h \in Handles : /\ h \notin open
                          /\ \A p \in Projects : roots[p] # h
                          /\ \A r \in Requests : held[r] # h /\ scope[r] # h}

(***************************************************************************)
(* expireRootsLocked: the maps and the open handles once every idle lease  *)
(* is reclaimed.  Every critical section but Close starts with it.         *)
(***************************************************************************)
\* Wrong: a lease ends one tick early.
StaleEarly == {p \in leased : idle[p] + 1 >= IdleTimeout}

Stale == {p \in leased : idle[p] >= IdleTimeout}

LiveRoots  == [p \in Projects |-> IF p \in Stale THEN NoHandle ELSE roots[p]]
LiveLeases == leased \ Stale
LiveOpen   == open \ RootsOf(Stale)

ReclaimOnly == roots' = LiveRoots /\ leased' = LiveLeases /\ open' = LiveOpen

Reply(r, answer) == pc' = [pc EXCEPT ![r] = answer]

-----------------------------------------------------------------------------
(* handleOpenProject: one critical section.                                *)

\* Wrong: one registration too many.
OverLimitByOne(p) == \/ closed
                     \/ /\ LiveRoots[p] = NoHandle
                        /\ Cardinality(Registered(LiveRoots)) > MaxProjects

\* Wrong: the limit is compared before idle leases are reclaimed.
OverLimitBeforeReclaim(p) == \/ closed
                             \/ /\ roots[p] = NoHandle
                                /\ Cardinality(Registered(roots)) >= MaxProjects

OverLimit(p) == \/ closed
                \/ /\ LiveRoots[p] = NoHandle
                   /\ Cardinality(Registered(LiveRoots)) >= MaxProjects

OpenRefused(r, p) ==
  /\ pc[r] = "idle"
  /\ OverLimit(p)
  /\ ReclaimOnly
  /\ Reply(r, "full")
  /\ UNCHANGED <<closed, idle, held, scope>>

OpenNotAllowed(r, p) ==   \* openAuthorizedRoot finds no allowed root
  /\ pc[r] = "idle"
  /\ ~OverLimit(p)
  /\ ReclaimOnly
  /\ Reply(r, "failed")
  /\ UNCHANGED <<closed, idle, held, scope>>

\* Wrong: the replaced root is not closed.
OpenRegistersLeaks(r, p) ==
  /\ pc[r] = "idle"
  /\ ~OverLimit(p)
  /\ \E h \in Fresh : /\ roots' = [LiveRoots EXCEPT ![p] = h]
                      /\ open' = LiveOpen \cup {h}
  /\ leased' = LiveLeases \cup {p}
  /\ idle' = [idle EXCEPT ![p] = 0]
  /\ Reply(r, "ok")
  /\ UNCHANGED <<closed, held, scope>>

OpenRegisters(r, p) ==    \* the old root, if any, is closed after the swap
  /\ pc[r] = "idle"
  /\ ~OverLimit(p)
  /\ \E h \in Fresh :
       /\ roots' = [LiveRoots EXCEPT ![p] = h]
       /\ open' = (LiveOpen \ RootsOf({p})) \cup {h}
  /\ leased' = LiveLeases \cup {p}
  /\ idle' = [idle EXCEPT ![p] = 0]
  /\ Reply(r, "ok")
  /\ UNCHANGED <<closed, held, scope>>

OpenProject(r, p) ==
  OpenRefused(r, p) \/ OpenNotAllowed(r, p) \/ OpenRegisters(r, p)

-----------------------------------------------------------------------------
(* handleCloseProject: takeRoot under the lock, root.Close after it.       *)

\* Wrong: the lease of a closed project stays behind.
TakeRootKeepsLease(r, p) ==
  /\ pc[r] = "idle"
  /\ LiveRoots[p] # NoHandle
  /\ open' = LiveOpen
  /\ roots' = [LiveRoots EXCEPT ![p] = NoHandle]
  /\ leased' = LiveLeases
  /\ Reply(r, "taken") /\ held' = [held EXCEPT ![r] = roots[p]]
  /\ UNCHANGED <<closed, idle, scope>>

\* Wrong: the root is looked up to be closed and stays registered.
TakeRootKeepsRoot(r, p) ==
  /\ pc[r] = "idle"
  /\ LiveRoots[p] # NoHandle
  /\ ReclaimOnly
  /\ Reply(r, "taken") /\ held' = [held EXCEPT ![r] = roots[p]]
  /\ UNCHANGED <<closed, idle, scope>>

TakeRoot(r, p) ==
  /\ pc[r] = "idle"
  /\ open' = LiveOpen
  /\ roots' = [LiveRoots EXCEPT ![p] = NoHandle]
  /\ leased' = LiveLeases \ {p}
  /\ IF LiveRoots[p] = NoHandle
     THEN Reply(r, "failed") /\ UNCHANGED held
     ELSE Reply(r, "taken") /\ held' = [held EXCEPT ![r] = roots[p]]
  /\ UNCHANGED <<closed, idle, scope>>

CloseTaken(r) ==
  /\ pc[r] = "taken"
  /\ open' = open \ {held[r]}
  /\ Reply(r, "ok")
  /\ UNCHANGED <<closed, roots, leased, idle, held, scope>>

-----------------------------------------------------------------------------
(* File operations: Server.root under the lock, the operation after it.    *)

LookUp(r, p, kind) ==
  /\ pc[r] = "idle"
  /\ ReclaimOnly
  /\ IF LiveRoots[p] = NoHandle
     THEN Reply(r, "failed") /\ UNCHANGED <<idle, held>>
     ELSE /\ idle' = [idle EXCEPT ![p] = 0]
          /\ held' = [held EXCEPT ![r] = roots[p]]
          /\ Reply(r, kind)
  /\ UNCHANGED <<closed, scope>>

(***************************************************************************)
(* An operation on a closed os.Root returns ErrClosed.  On an open one it  *)
(* may still fail for reasons of its own.                                  *)
(***************************************************************************)
PlainOperation(r) ==
  /\ pc[r] = "plain"
  /\ \E answer \in {"ok", "failed"} :
       /\ answer = "ok" => held[r] \in open
       /\ Reply(r, answer)
  /\ UNCHANGED <<closed, roots, leased, idle, open, held, scope>>

(***************************************************************************)
(* decodeScopedRootRequest after the lookup: the policy checks and         *)
(* OpenScopedRoot, which gives the handler a handle of its own.            *)
(***************************************************************************)
PinScope(r) ==
  /\ pc[r] = "scoping"
  /\ held[r] \in open
  /\ \E s \in Fresh : /\ scope' = [scope EXCEPT ![r] = s]
                      /\ open' = open \cup {s}
  /\ held' = [held EXCEPT ![r] = NoHandle]
  /\ Reply(r, "pinned")
  /\ UNCHANGED <<closed, roots, leased, idle>>

PinFails(r) ==
  /\ pc[r] = "scoping"
  /\ Reply(r, "failed")
  /\ UNCHANGED <<closed, roots, leased, idle, open, held, scope>>

\* Wrong: an operation that fails returns without closing its anchor.
ScopedOperationLeaks(r) ==
  /\ pc[r] = "pinned"
  /\ \E answer \in {"ok", "failed"} :
       /\ Reply(r, answer)
       /\ open' = IF answer = "ok" THEN open \ {scope[r]} ELSE open
  /\ UNCHANGED <<closed, roots, leased, idle, held, scope>>

ScopedOperation(r) ==     \* the deferred Close runs on every path
  /\ pc[r] = "pinned"
  /\ open' = open \ {scope[r]}
  /\ \E answer \in {"ok", "failed"} : Reply(r, answer)
  /\ UNCHANGED <<closed, roots, leased, idle, held, scope>>

Respond(r) ==
  /\ pc[r] \in {"full", "failed", "ok"}
  /\ Reply(r, "idle")
  /\ held' = [held EXCEPT ![r] = NoHandle]
  /\ scope' = [scope EXCEPT ![r] = NoHandle]
  /\ UNCHANGED <<closed, roots, leased, idle, open>>

-----------------------------------------------------------------------------
CloseServer ==            \* Server.Close
  /\ ~closed
  /\ closed' = TRUE
  /\ roots' = [p \in Projects |-> NoHandle]
  /\ leased' = {}
  /\ open' = open \ RootsOf(Projects)
  /\ UNCHANGED <<idle, pc, held, scope>>

(***************************************************************************)
(* Time passes.  A lease older than IdleTimeout is as good as one of that  *)
(* age.                                                                    *)
(***************************************************************************)
Tick ==
  /\ \E p \in leased : idle[p] < IdleTimeout
  /\ idle' = [p \in Projects |-> IF p \in leased /\ idle[p] < IdleTimeout
                                 THEN idle[p] + 1 ELSE idle[p]]
  /\ UNCHANGED <<closed, roots, leased, open, pc, held, scope>>

Arrive(r) == \E p \in Projects : \/ OpenProject(r, p) \/ TakeRoot(r, p)
                                 \/ \E kind \in {"plain", "scoping"} :
                                      LookUp(r, p, kind)

Proceed(r) == \/ CloseTaken(r) \/ PlainOperation(r) \/ PinScope(r)
              \/ PinFails(r) \/ ScopedOperation(r) \/ Respond(r)

Next == Tick \/ CloseServer \/ \E r \in Requests : Arrive(r) \/ Proceed(r)

Spec == Init /\ [][Next]_vars

(***************************************************************************)
(* A handler that has started runs to its response: the calls it makes on  *)
(* the filesystem return.                                                  *)
(***************************************************************************)
FairSpec == Spec /\ \A r \in Requests : WF_vars(Proceed(r))

-----------------------------------------------------------------------------
(* Properties.                                                             *)

(***************************************************************************)
(* The two maps have the same keys, so every registration can become idle  *)
(* and be reclaimed; every registered root is open; and no two projects    *)
(* share one.  Server.closed leaves nothing registered.                    *)
(***************************************************************************)
RegistryConsistent ==
  /\ leased = Registered(roots)
  /\ \A p \in leased : roots[p] \in open
  /\ \A p, q \in leased : roots[p] = roots[q] => p = q
  /\ closed => leased = {}

(***************************************************************************)
(* "Registrations default to 128 retained roots" (docs/release-process.md) *)
(* whatever the interleaving of registrations: never more than             *)
(* MaxProjects.                                                            *)
(***************************************************************************)
QuotaHeld == Cardinality(Registered(roots)) <= MaxProjects

(***************************************************************************)
(* What is registered at any moment: the maps agree on it, and it is       *)
(* within the quota.                                                       *)
(***************************************************************************)
RegistrySound == RegistryConsistent /\ QuotaHeld

(***************************************************************************)
(* No Root handle is leaked: an open one is registered, is about to be     *)
(* closed by the one handler that took it, or is the scope anchor of a     *)
(* handler that will close it.  Replacement, reclaim, close and shutdown   *)
(* together account for every handle.                                      *)
(***************************************************************************)
Closing(h) == {r \in Requests : pc[r] = "taken" /\ held[r] = h}
Pinning(h) == {r \in Requests : pc[r] = "pinned" /\ scope[r] = h}

NoHandleLeak ==
  \A h \in open : \/ \E p \in Projects : roots[p] = h
                  \/ Closing(h) # {}
                  \/ Pinning(h) # {}

(***************************************************************************)
(* A handle is closed once and by its owner: the root a close request took *)
(* is open, is no longer registered and is not taken by another request,   *)
(* and a scope anchor belongs to one request and is open until it is done. *)
(***************************************************************************)
SoleCloser ==
  \A r \in Requests :
    /\ pc[r] = "taken" => /\ held[r] \in open
                          /\ Closing(held[r]) = {r}
                          /\ \A p \in Projects : roots[p] # held[r]
    /\ pc[r] = "pinned" => /\ scope[r] \in open
                           /\ Pinning(scope[r]) = {r}
                           /\ \A p \in Projects : roots[p] # scope[r]
                           /\ Closing(scope[r]) = {}

(***************************************************************************)
(* A registration disappears only because a close request took it, its     *)
(* lease was idle for the whole timeout, or the server closed.             *)
(***************************************************************************)
LeaseHonoured ==
  [][\A p \in Projects :
       roots[p] # NoHandle /\ roots'[p] = NoHandle =>
         \/ idle[p] >= IdleTimeout
         \/ closed'
         \/ \E r \in Requests : /\ pc[r] = "idle" /\ pc'[r] = "taken"
                                /\ held'[r] = roots[p]]_vars

(***************************************************************************)
(* A registration is refused for the limit only when MaxProjects leases    *)
(* are in use: idle leases never crowd out a new project, because they are *)
(* reclaimed before the limit is looked at.                                *)
(***************************************************************************)
InUse == {p \in leased : idle[p] < IdleTimeout}

RefusedOnlyWhenFull ==
  [][\A r \in Requests :
       pc[r] # "full" /\ pc'[r] = "full" =>
         closed \/ Cardinality(InUse) >= MaxProjects]_vars

(***************************************************************************)
(* Every handle that is open without being registered gets closed.         *)
(***************************************************************************)
HandlesReturned ==
  \A h \in Handles :
    (h \in open /\ \A p \in Projects : roots[p] # h) ~> h \notin open
=============================================================================
