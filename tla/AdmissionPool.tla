--------------------------- MODULE AdmissionPool ---------------------------
(***************************************************************************)
(* What the daemon's connection admission promises, without locks, timers  *)
(* or close calls: a pool of at most MaxConnections connections, of which  *)
(* at most MaxUnauthenticated have not yet presented a valid bearer.  A    *)
(* connection either proves itself or expires, never both, and a           *)
(* connection is turned away only when the pool has no place for it.       *)
(*                                                                         *)
(* ConnectionAdmission implements this specification.                      *)
(***************************************************************************)
EXTENDS Naturals, FiniteSets

CONSTANTS Conns, MaxConnections, MaxUnauthenticated

VARIABLE stage   \* where each connection stands

Stages == {"outside", "waiting", "member", "expired", "gone"}

In(names) == {c \in Conns : stage[c] \in names}

Held     == In({"waiting", "member", "expired"})
Unproven == In({"waiting", "expired"})

HasPlace == /\ Cardinality(Held) < MaxConnections
            /\ Cardinality(Unproven) < MaxUnauthenticated

Init == stage = [c \in Conns |-> "outside"]

Move(c, from, to) == /\ stage[c] \in from
                     /\ stage' = [stage EXCEPT ![c] = to]

Admit(c)    == HasPlace /\ Move(c, {"outside"}, "waiting")
TurnAway(c) == ~HasPlace /\ Move(c, {"outside"}, "gone")
Prove(c)    == Move(c, {"waiting"}, "member")
Expire(c)   == Move(c, {"waiting"}, "expired")
Leave(c)    == Move(c, {"waiting", "member", "expired"}, "gone")

Next == \E c \in Conns :
          Admit(c) \/ TurnAway(c) \/ Prove(c) \/ Expire(c) \/ Leave(c)

Spec == Init /\ [][Next]_stage
=============================================================================
