--------------------------- MODULE PackageRegistry ---------------------------
(***************************************************************************)
(* What a user of the npm packages relies on: the contents of a published  *)
(* version never change, and the latest tag of a package only moves to a   *)
(* newer version that has never been published before.                     *)
(***************************************************************************)
EXTENDS Naturals

CONSTANTS Packages, Releases, Version, Missing

VARIABLES contents, latest

vars == <<contents, latest>>

Init ==
  /\ contents = [p \in Packages |-> [v \in {Version[r] : r \in Releases} |-> Missing]]
  /\ latest = [p \in Packages |-> 0]

Release(p, r) ==
  /\ contents[p][Version[r]] = Missing
  /\ latest[p] < Version[r]
  /\ contents' = [contents EXCEPT ![p][Version[r]] = r]
  /\ latest' = [latest EXCEPT ![p] = Version[r]]

Next == \E p \in Packages, r \in Releases : Release(p, r)

Spec == Init /\ [][Next]_vars
=============================================================================
