------------------------ MODULE ConnectionAdmission ------------------------
(***************************************************************************)
(* Admission of sockets to the canonicalfs daemon: BoundedListener and     *)
(* admittedConnection of canonicalfsrpc/connection_admission.go, with the  *)
(* part of Server.Handler that promotes a connection.                      *)
(*                                                                         *)
(* The steps are the critical sections of listener.mu and the calls made   *)
(* between them; the promotion of a connection takes two, because time     *)
(* passes and its timer fires while it holds the lock.  Four kinds of      *)
(* goroutines interleave: the accept loop, one timer callback per          *)
(* connection, one HTTP/1.1 goroutine per connection (requests on a        *)
(* connection are served one at a time), and whoever calls Close.          *)
(***************************************************************************)
EXTENDS Integers, FiniteSets

CONSTANTS
  Conns,               \* the sockets clients open
  MaxConnections,
  MaxUnauthenticated

ASSUME LimitsAssumption ==   \* ConnectionLimits.Validate
  /\ MaxConnections \in Nat \ {0}
  /\ MaxUnauthenticated \in Nat \ {0}
  /\ MaxUnauthenticated < MaxConnections

ASSUME ConnsAssumption == IsFiniteSet(Conns)

VARIABLES
  listening,      \* the raw listener still accepts
  sock,           \* the raw socket, and the accept loop's hold on it
  active,         \* listener.active
  pending,        \* listener.pending
  authenticated,  \* admittedConnection.authenticated
  expired,        \* admittedConnection.expired
  late,           \* the connection's deadline has passed
  timer,          \* the expiry timer and its callback goroutine
  request,        \* the request the connection's HTTP goroutine is handling
  closing         \* closeOnce: not entered, socket closed, slot released

vars == <<listening, sock, active, pending, authenticated, expired, late,
          timer, request, closing>>

(***************************************************************************)
(* accepted: returned by the raw Accept, not yet decided on.  rejected:    *)
(* refused under the lock, not yet closed.                                 *)
(***************************************************************************)
SockStates    == {"absent", "accepted", "rejected", "open", "closed"}

(***************************************************************************)
(* armed: AfterFunc is waiting.  started: the callback goroutine runs but  *)
(* does not have the lock yet, and Stop no longer has any effect on it.    *)
(* closing: the callback decided under the lock to close the connection.   *)
(***************************************************************************)
TimerStates   == {"unset", "armed", "stopped", "started", "closing", "done"}

(***************************************************************************)
(* valid, invalid: a request was read and its bearer compared.  promoting: *)
(* authenticateConnection holds the lock and read a clock before the       *)
(* deadline.  serving: the mux runs.  closing: authenticateConnection      *)
(* found the deadline passed and is about to call Close.  refused:         *)
(* answered with "Connection: close".                                      *)
(***************************************************************************)
RequestStates == {"none", "valid", "invalid", "promoting", "serving", "closing",
                  "refused"}

CloseStates   == {"no", "raw", "done"}

TypeOK ==
  /\ listening \in BOOLEAN
  /\ sock \in [Conns -> SockStates]
  /\ active \in SUBSET Conns
  /\ pending \in Nat
  /\ authenticated \in [Conns -> BOOLEAN]
  /\ expired \in [Conns -> BOOLEAN]
  /\ late \in [Conns -> BOOLEAN]
  /\ timer \in [Conns -> TimerStates]
  /\ request \in [Conns -> RequestStates]
  /\ closing \in [Conns -> CloseStates]

Init ==
  /\ listening = TRUE
  /\ sock = [c \in Conns |-> "absent"]
  /\ active = {}
  /\ pending = 0
  /\ authenticated = [c \in Conns |-> FALSE]
  /\ expired = [c \in Conns |-> FALSE]
  /\ late = [c \in Conns |-> FALSE]
  /\ timer = [c \in Conns |-> "unset"]
  /\ request = [c \in Conns |-> "none"]
  /\ closing = [c \in Conns |-> "no"]

-----------------------------------------------------------------------------
(* The accept loop.  It holds at most one socket at a time.                *)

Transient == {c \in Conns : sock[c] \in {"accepted", "rejected"}}

Locked == \E c \in Conns : request[c] = "promoting"

\* Wrong: the total is not compared.
FullIgnoresTotal == pending >= MaxUnauthenticated

Full == \/ Cardinality(active) >= MaxConnections
        \/ pending >= MaxUnauthenticated

AcceptRaw(c) ==
  /\ listening
  /\ Transient = {}
  /\ sock[c] = "absent"
  /\ sock' = [sock EXCEPT ![c] = "accepted"]
  /\ UNCHANGED <<listening, active, pending, authenticated, expired, late,
                 timer, request, closing>>

Admit(c) ==
  /\ sock[c] = "accepted"
  /\ ~Locked
  /\ ~Full
  /\ sock' = [sock EXCEPT ![c] = "open"]
  /\ active' = active \cup {c}
  /\ pending' = pending + 1
  /\ timer' = [timer EXCEPT ![c] = "armed"]
  /\ UNCHANGED <<listening, authenticated, expired, late, request, closing>>

Reject(c) ==
  /\ sock[c] = "accepted"
  /\ ~Locked
  /\ Full
  /\ sock' = [sock EXCEPT ![c] = "rejected"]
  /\ UNCHANGED <<listening, active, pending, authenticated, expired, late,
                 timer, request, closing>>

CloseRejected(c) ==
  /\ sock[c] = "rejected"
  /\ sock' = [sock EXCEPT ![c] = "closed"]
  /\ UNCHANGED <<listening, active, pending, authenticated, expired, late,
                 timer, request, closing>>

AcceptFails ==   \* the raw Accept returns an error and Serve returns it
  /\ listening
  /\ Transient = {}
  /\ listening' = FALSE
  /\ UNCHANGED <<sock, active, pending, authenticated, expired, late, timer,
                 request, closing>>

-----------------------------------------------------------------------------
(* Time and the expiry callback.                                           *)

(***************************************************************************)
(* The deadline counts from the moment the raw Accept returned, so it may  *)
(* pass before the connection is admitted.                                 *)
(***************************************************************************)
DeadlinePasses(c) ==
  /\ sock[c] # "absent"
  /\ ~late[c]
  /\ late' = [late EXCEPT ![c] = TRUE]
  /\ UNCHANGED <<listening, sock, active, pending, authenticated, expired,
                 timer, request, closing>>

TimerFires(c) ==
  /\ timer[c] = "armed"
  /\ late[c]
  /\ timer' = [timer EXCEPT ![c] = "started"]
  /\ UNCHANGED <<listening, sock, active, pending, authenticated, expired,
                 late, request, closing>>

\* Wrong: a connection that authenticated is still closed by its deadline.
ShouldCloseAnyway(c) == c \in active /\ ~expired[c]

ShouldClose(c) == c \in active /\ ~authenticated[c] /\ ~expired[c]

\* Wrong: the callback marks the connection and never closes it.
ExpireWithoutClose(c) ==
  /\ timer[c] = "started" /\ ~Locked
  /\ expired' = [expired EXCEPT ![c] = @ \/ ShouldClose(c)]
  /\ timer' = [timer EXCEPT ![c] = "done"]
  /\ UNCHANGED <<listening, sock, active, pending, authenticated, late,
                 request, closing>>

Expire(c) ==
  /\ timer[c] = "started"
  /\ ~Locked
  /\ IF ShouldClose(c)
     THEN /\ expired' = [expired EXCEPT ![c] = TRUE]
          /\ timer' = [timer EXCEPT ![c] = "closing"]
     ELSE /\ timer' = [timer EXCEPT ![c] = "done"]
          /\ UNCHANGED expired
  /\ UNCHANGED <<listening, sock, active, pending, authenticated, late,
                 request, closing>>

ExpireReturns(c) ==
  /\ timer[c] = "closing"
  /\ closing[c] = "done"
  /\ timer' = [timer EXCEPT ![c] = "done"]
  /\ UNCHANGED <<listening, sock, active, pending, authenticated, expired,
                 late, request, closing>>

-----------------------------------------------------------------------------
(* The HTTP goroutine of a connection.                                     *)

\* Wrong: the timer is left running.
StopTimerForgotten(c) == UNCHANGED timer

StopTimer(c) ==
  timer' = [timer EXCEPT ![c] = IF @ = "armed" THEN "stopped" ELSE @]

ReadRequest(c, bearer) ==
  /\ sock[c] = "open"
  /\ request[c] = "none"
  /\ request' = [request EXCEPT ![c] = bearer]
  /\ UNCHANGED <<listening, sock, active, pending, authenticated, expired,
                 late, timer, closing>>

(***************************************************************************)
(* authenticateConnection: the four returns of its critical section, in    *)
(* order.  The clock is read before the fields are written, so the         *)
(* deadline may pass, and the callback start, just before Stop.            *)
(***************************************************************************)
AuthenticateRefused(c) ==
  /\ request[c] = "valid" /\ ~Locked
  /\ c \notin active \/ expired[c]
  /\ request' = [request EXCEPT ![c] = "refused"]
  /\ UNCHANGED <<listening, sock, active, pending, authenticated, expired,
                 late, timer, closing>>

AuthenticateAgain(c) ==
  /\ request[c] = "valid" /\ ~Locked
  /\ c \in active /\ ~expired[c]
  /\ authenticated[c]
  /\ request' = [request EXCEPT ![c] = "serving"]
  /\ UNCHANGED <<listening, sock, active, pending, authenticated, expired,
                 late, timer, closing>>

AuthenticateLate(c) ==
  /\ request[c] = "valid" /\ ~Locked
  /\ c \in active /\ ~expired[c]
  /\ ~authenticated[c]
  /\ late[c]
  /\ expired' = [expired EXCEPT ![c] = TRUE]
  /\ request' = [request EXCEPT ![c] = "closing"]
  /\ UNCHANGED <<listening, sock, active, pending, authenticated, late, timer,
                 closing>>

\* Wrong: the deadline and the expired flag are not looked at.
BeforeDeadlineUnchecked(c) ==
  /\ request[c] = "valid" /\ ~Locked
  /\ c \in active /\ ~authenticated[c]
  /\ request' = [request EXCEPT ![c] = "promoting"]
  /\ UNCHANGED <<listening, sock, active, pending, authenticated, expired,
                 late, timer, closing>>

BeforeDeadline(c) ==
  /\ request[c] = "valid" /\ ~Locked
  /\ c \in active /\ ~expired[c]
  /\ ~authenticated[c]
  /\ ~late[c]
  /\ request' = [request EXCEPT ![c] = "promoting"]
  /\ UNCHANGED <<listening, sock, active, pending, authenticated, expired,
                 late, timer, closing>>

\* Wrong: promotion keeps the pending slot.
PromoteKeepsPending(c) ==
  /\ request[c] = "promoting"
  /\ authenticated' = [authenticated EXCEPT ![c] = TRUE]
  /\ StopTimer(c)
  /\ request' = [request EXCEPT ![c] = "serving"]
  /\ UNCHANGED <<listening, sock, active, pending, expired, late, closing>>

Promote(c) ==
  /\ request[c] = "promoting"
  /\ authenticated' = [authenticated EXCEPT ![c] = TRUE]
  /\ pending' = pending - 1
  /\ StopTimer(c)
  /\ request' = [request EXCEPT ![c] = "serving"]
  /\ UNCHANGED <<listening, sock, active, expired, late, closing>>

LateCloseReturns(c) ==
  /\ request[c] = "closing"
  /\ closing[c] = "done"
  /\ request' = [request EXCEPT ![c] = "refused"]
  /\ UNCHANGED <<listening, sock, active, pending, authenticated, expired,
                 late, timer, closing>>

(***************************************************************************)
(* A missing or wrong bearer, /healthz included: the response carries      *)
(* "Connection: close" whether or not the connection is authenticated.     *)
(***************************************************************************)
\* Wrong: a connection that has authenticated is kept alive.
DenyKeepsAuthenticated(c) ==
  /\ request[c] = "invalid"
  /\ request' = [request EXCEPT ![c] = IF authenticated[c] THEN "none" ELSE "refused"]
  /\ UNCHANGED <<listening, sock, active, pending, authenticated, expired,
                 late, timer, closing>>

Deny(c) ==
  /\ request[c] = "invalid"
  /\ request' = [request EXCEPT ![c] = "refused"]
  /\ UNCHANGED <<listening, sock, active, pending, authenticated, expired,
                 late, timer, closing>>

Respond(c) ==
  /\ request[c] = "serving"
  /\ request' = [request EXCEPT ![c] = "none"]
  /\ UNCHANGED <<listening, sock, active, pending, authenticated, expired,
                 late, timer, closing>>

-----------------------------------------------------------------------------
(* admittedConnection.Close: once, the socket first and the slot after it.  *)

BeginClose(c) ==
  /\ sock[c] = "open"
  /\ closing[c] = "no"
  /\ sock' = [sock EXCEPT ![c] = "closed"]
  /\ closing' = [closing EXCEPT ![c] = "raw"]
  /\ UNCHANGED <<listening, active, pending, authenticated, expired, late,
                 timer, request>>

CloseByExpiry(c)  == timer[c] = "closing" /\ BeginClose(c)
CloseByHandler(c) == request[c] = "closing" /\ BeginClose(c)

(***************************************************************************)
(* The http.Server: after a "Connection: close" response, on a timeout or  *)
(* a lost peer, or for a shutdown that does not wait for the handler.      *)
(***************************************************************************)
CloseByServer(c)  == BeginClose(c)

ReleaseSlot(c) ==
  /\ closing[c] = "raw" /\ ~Locked
  /\ closing' = [closing EXCEPT ![c] = "done"]
  /\ StopTimer(c)
  /\ active' = active \ {c}
  /\ pending' = IF c \in active /\ ~authenticated[c] THEN pending - 1
                                                     ELSE pending
  /\ UNCHANGED <<listening, sock, authenticated, expired, late, request>>

-----------------------------------------------------------------------------
AcceptLoop(c) == AcceptRaw(c) \/ Admit(c) \/ Reject(c) \/ CloseRejected(c)

Callback(c) == Expire(c) \/ CloseByExpiry(c) \/ ExpireReturns(c)

Authenticate(c) == \/ AuthenticateRefused(c) \/ AuthenticateAgain(c)
                   \/ AuthenticateLate(c)
                   \/ BeforeDeadline(c) \/ Promote(c)

Handler(c) == \/ Authenticate(c) \/ CloseByHandler(c) \/ LateCloseReturns(c)
              \/ Deny(c)

Next ==
  \/ AcceptFails
  \/ \E c \in Conns :
       \/ AcceptLoop(c)
       \/ DeadlinePasses(c) \/ TimerFires(c) \/ Callback(c)
       \/ \E bearer \in {"valid", "invalid"} : ReadRequest(c, bearer)
       \/ Handler(c) \/ Respond(c)
       \/ CloseByServer(c) \/ ReleaseSlot(c)

(***************************************************************************)
(* Clocks advance, the runtime starts due timers, a goroutine that can run *)
(* does, and net/http closes a connection it has answered with             *)
(* "Connection: close".  Clients owe nothing, and a request may be served  *)
(* for ever.                                                               *)
(***************************************************************************)
Fairness ==
  \A c \in Conns :
    /\ WF_vars(DeadlinePasses(c))
    /\ WF_vars(TimerFires(c))
    /\ WF_vars(Callback(c))
    /\ WF_vars(Handler(c))
    /\ WF_vars(request[c] = "refused" /\ CloseByServer(c))
    /\ WF_vars(ReleaseSlot(c))

Spec == Init /\ [][Next]_vars

FairSpec == Spec /\ Fairness

-----------------------------------------------------------------------------
(* Properties.                                                             *)

(***************************************************************************)
(* The counter that admission decides by is the number of admitted         *)
(* connections that have not authenticated: promotion, expiry and Close    *)
(* together give each pending slot back exactly once.                      *)
(***************************************************************************)
Unauthenticated == {c \in active : ~authenticated[c]}

PendingExact == pending = Cardinality(Unauthenticated)

(***************************************************************************)
(* "Admission retains at most the configured total plus one transient      *)
(* socket being rejected by the accept loop" (docs/daemon-tls-bootstrap.md *)
(* and the comment in Accept): counted over sockets that are really open,  *)
(* not over the bookkeeping.                                               *)
(***************************************************************************)
OpenSockets == {c \in Conns : sock[c] \in {"accepted", "rejected", "open"}}

SocketsBounded ==
  /\ Cardinality(OpenSockets \cap active) <= MaxConnections
  /\ Cardinality(OpenSockets \cap Unauthenticated) <= MaxUnauthenticated
  /\ \A c, d \in OpenSockets \ active : c = d

(***************************************************************************)
(* "Closing a connection releases its total slot only after the underlying *)
(* socket is closed" (docs/daemon-tls-bootstrap.md): an open socket the    *)
(* server was given always occupies a slot.                                *)
(***************************************************************************)
SlotHeldWhileOpen == \A c \in Conns : sock[c] = "open" => c \in active

(***************************************************************************)
(* The bearer and the deadline race, and one of them wins for good: a      *)
(* request is served only on a connection that was promoted, and a         *)
(* promoted connection is never expired and never closed by the callback   *)
(* ("a delayed callback must never close a socket that already             *)
(* authenticated", comment in expire) nor by the late-deadline path.       *)
(***************************************************************************)
OneWinner ==
  \A c \in Conns :
    /\ request[c] = "serving" => authenticated[c]
    /\ authenticated[c] => /\ ~expired[c]
                           /\ timer[c] # "closing"
                           /\ request[c] # "closing"

(***************************************************************************)
(* A connection whose slot was released leaves no armed timer behind to    *)
(* keep it alive.                                                          *)
(***************************************************************************)
NoOrphanTimer == \A c \in Conns : timer[c] = "armed" => c \in active

(***************************************************************************)
(* A slot that is given back is given back whole: once in the counter, and *)
(* with its timer.                                                         *)
(***************************************************************************)
SlotsAccountedFor == PendingExact /\ NoOrphanTimer

(***************************************************************************)
(* The interleaved handlers implement the atomic pool.                     *)
(***************************************************************************)
StageOf(c) ==
  CASE sock[c] \in {"absent", "accepted"}    -> "outside"
    [] c \in active /\ authenticated[c]      -> "member"
    [] c \in active /\ expired[c]            -> "expired"
    [] c \in active /\ ~authenticated[c] /\ ~expired[c] -> "waiting"
    [] OTHER                                 -> "gone"

Pool == INSTANCE AdmissionPool WITH stage <- [c \in Conns |-> StageOf(c)]

ImplementsPool == Pool!Spec

(***************************************************************************)
(* Every admitted connection authenticates or gives its slot back, however *)
(* silent its client is, so a full pending pool always drains.  And a      *)
(* connection leaves the pool on which a request without the bearer is     *)
(* read, even if it had authenticated before (Server.Handler answers       *)
(* Connection: close), or the bearer is read too late: from then on its    *)
(* callback does not close it any more.                                    *)
(***************************************************************************)
PendingSettles ==
  \A c \in Conns : c \in Unauthenticated ~> c \notin Unauthenticated

RefusedLeaves ==
  \A c \in Conns : request[c] \in {"invalid", "closing", "refused"} ~> c \notin active
=============================================================================
