-------------------------- MODULE NpmReleaseProofs --------------------------
(***************************************************************************)
(* Proofs about NpmRelease, for any set of packages, releases and runs and *)
(* any number of faults.                                                   *)
(*                                                                         *)
(* What the preflight found stays true because no other run can change npm *)
(* meanwhile (Serial).  Rest is RestIsOriginal from the first row on: each *)
(* row of a running release is still to be looked at, pending, or already  *)
(* published from this release.                                            *)
(***************************************************************************)
EXTENDS NpmRelease, TLAPS

Serial == \A a, b \in Attempts : pc[a] \in Active /\ pc[b] \in Active => a = b

Verified == \A a \in Attempts :
  pc[a] \in {"preflight", "access", "publish"} => phase[tag[a]] = "public"

RowsInUse == \A a \in Attempts :
  /\ pc[a] # "preflight" => todo[a] = {}
  /\ pc[a] \in {"free", "queued", "verify"} => plan[a] = {}

Rest == \A a \in Attempts : pc[a] \in {"preflight", "access", "publish"} =>
  \A p \in RowsOf(a) \ (plan[a] \cup todo[a]) : PublishedAndLatest(tag[a], p)

Inv == /\ TypeOK /\ OriginalContents /\ Serial /\ Verified
       /\ RowsInUse /\ PlanStillHolds /\ Rest

USE NpmReleaseAssumption

-----------------------------------------------------------------------------
LEMMA RowsArePackages == \A r \in Releases : Rows(r) \in SUBSET Packages
BY DEF Rows

LEMMA VersionsOfReleases == \A r \in Releases : Version[r] \in Versions /\ Version[r] \in Nat \ {0}
BY DEF Versions

LEMMA ActiveHasTag ==
  ASSUME TypeOK, NEW a \in Attempts, pc[a] # "free"
  PROVE  tag[a] \in Releases /\ RowsOf(a) = Rows(tag[a])
BY DEF TypeOK, RowsOf

LEMMA InitInv == Init => Inv
<1> SUFFICES ASSUME Init PROVE Inv
  OBVIOUS
<1>1. TypeOK
  BY DEF Init, TypeOK, Phases, RowsOf
<1>2. OriginalContents
  BY DEF Init, OriginalContents
<1>3. Serial /\ Verified /\ RowsInUse /\ PlanStillHolds /\ Rest
  BY DEF Init, Serial, Verified, RowsInUse, PlanStillHolds, Rest, Active
<1> QED
  BY <1>1, <1>2, <1>3 DEF Inv

-----------------------------------------------------------------------------
(* The steps, grouped by what they change.                                 *)

\* Releases on GitHub.
LEMMA ReleaseStep ==
  ASSUME Inv, NEW r \in Releases, Prepare(r) \/ Upload(r) \/ PublishDraft(r)
  PROVE  Inv'
<1>1. /\ phase' \in [Releases -> Phases]
      /\ \A s \in Releases : phase[s] = "public" => phase'[s] = "public"
      /\ UNCHANGED <<contents, latest, pc, tag, todo, plan, faults>>
  BY DEF Inv, TypeOK, Phases, Prepare, Upload, PublishDraft, npm, run
<1>2. TypeOK'
  BY <1>1 DEF Inv, TypeOK, RowsOf
<1>3. OriginalContents'
  BY <1>1, VersionsOfReleases DEF Inv, TypeOK, OriginalContents
<1>4. Verified'
  <2> SUFFICES ASSUME NEW a \in Attempts, pc[a] \in {"preflight", "access", "publish"}
               PROVE  phase'[tag[a]] = "public"
    BY <1>1 DEF Verified
  <2> QED
    BY <1>1, ActiveHasTag DEF Inv, Verified
<1>5. Serial' /\ RowsInUse' /\ PlanStillHolds' /\ Rest'
  BY <1>1 DEF Inv, Serial, RowsInUse, PlanStillHolds, Rest, RowsOf,
     MissingAndNewer, PublishedAndLatest
<1> QED
  BY <1>2, <1>3, <1>4, <1>5 DEF Inv

\* The end of a run leaves the others alone.
LEMMA EndStep ==
  ASSUME TypeOK, NEW a \in Attempts, End(a)
  PROVE  /\ pc' \in [Attempts -> {"free", "queued"} \cup Active]
         /\ tag' \in [Attempts -> Releases \cup {Missing}]
         /\ todo' \in [Attempts -> SUBSET Packages]
         /\ plan' \in [Attempts -> SUBSET Packages]
         /\ pc'[a] = "free" /\ tag'[a] = Missing /\ todo'[a] = {} /\ plan'[a] = {}
         /\ \A b \in Attempts \ {a} : /\ pc'[b] = pc[b] /\ tag'[b] = tag[b]
                                      /\ todo'[b] = todo[b] /\ plan'[b] = plan[b]
BY DEF TypeOK, End

LEMMA EndInv ==
  ASSUME Inv, NEW a \in Attempts, End(a), UNCHANGED <<phase, contents, latest>>,
         faults' \in 0..MaxFaults
  PROVE  Inv'
<1> USE DEF Inv
<1>1. TypeOK'
  BY EndStep DEF TypeOK, RowsOf
<1>2. OriginalContents'
  BY DEF OriginalContents
<1>3. Serial' /\ Verified' /\ RowsInUse'
  BY EndStep DEF Serial, Verified, RowsInUse, Active
<1>4. PlanStillHolds'
  BY EndStep DEF PlanStillHolds, MissingAndNewer
<1>5. Rest'
  BY EndStep DEF Rest, RowsOf, PublishedAndLatest
<1> QED
  BY <1>1, <1>2, <1>3, <1>4, <1>5

LEMMA TriggerStep ==
  ASSUME Inv, NEW a \in Attempts, NEW r \in Releases, Trigger(a, r)
  PROVE  Inv'
<1> USE DEF Inv
<1>1. todo[a] = {} /\ plan[a] = {}
  BY DEF Trigger, RowsInUse
<1>2. TypeOK'
  BY <1>1 DEF Trigger, TypeOK, RowsOf, npm
<1>3. OriginalContents'
  BY DEF Trigger, OriginalContents, npm
<1>4. Serial' /\ Verified' /\ RowsInUse'
  BY <1>1 DEF Trigger, TypeOK, Serial, Verified, RowsInUse, Active
<1>5. PlanStillHolds'
  BY <1>1 DEF Trigger, TypeOK, PlanStillHolds, MissingAndNewer, npm
<1>6. Rest'
  BY DEF Trigger, TypeOK, Rest, RowsOf, PublishedAndLatest, npm
<1> QED
  BY <1>2, <1>3, <1>4, <1>5, <1>6

\* The steps of a run before it publishes.
LEMMA LookingStep ==
  ASSUME Inv, NEW a \in Attempts,
         \/ Begin(a) \/ Verify(a) \/ PreflightEnds(a) \/ VerifyAccess(a)
         \/ \E p \in Packages : Preflight(a, p)
  PROVE  Inv'
<1> USE DEF Inv
<1>1. tag[a] \in Releases /\ RowsOf(a) = Rows(tag[a]) /\ Rows(tag[a]) \in SUBSET Packages
  BY ActiveHasTag, RowsArePackages DEF Begin, Verify, PreflightEnds, VerifyAccess, Preflight
<1>2. UNCHANGED <<phase, contents, latest, tag, faults>>
  BY DEF Begin, Verify, PreflightEnds, VerifyAccess, Preflight, npm
<1>3. OriginalContents'
  BY <1>2 DEF OriginalContents
<1>4. CASE Begin(a)
  <2>1. TypeOK' /\ Serial' /\ Verified' /\ RowsInUse'
    BY <1>2, <1>4 DEF Begin, TypeOK, Serial, Verified, RowsInUse, RowsOf, Active
  <2>2. PlanStillHolds' /\ Rest'
    BY <1>2, <1>4 DEF Begin, TypeOK, PlanStillHolds, Rest, RowsOf, MissingAndNewer, PublishedAndLatest
  <2> QED
    BY <1>3, <2>1, <2>2
<1>5. CASE Verify(a)
  <2>1. TypeOK' /\ Serial' /\ Verified' /\ RowsInUse'
    BY <1>1, <1>2, <1>5 DEF Verify, TypeOK, Serial, Verified, RowsInUse, RowsOf, Active
  <2>2. PlanStillHolds' /\ Rest'
    BY <1>1, <1>2, <1>5 DEF Verify, TypeOK, PlanStillHolds, Rest, RowsOf, MissingAndNewer, PublishedAndLatest
  <2> QED
    BY <1>3, <2>1, <2>2
<1>6. CASE PreflightEnds(a) \/ VerifyAccess(a)
  <2> DEFINE step == IF pc[a] = "preflight" THEN "access" ELSE "publish"
  <2>0. /\ pc[a] \in {"preflight", "access"} /\ todo[a] = {}
        /\ pc' = [pc EXCEPT ![a] = step] /\ step \in {"access", "publish"}
        /\ UNCHANGED <<todo, plan>>
    BY <1>6 DEF PreflightEnds, VerifyAccess, RowsInUse
  <2>1. TypeOK' /\ Serial' /\ Verified' /\ RowsInUse'
    BY <1>1, <1>2, <2>0 DEF TypeOK, Serial, Verified, RowsInUse, RowsOf, Active
  <2>2. PlanStillHolds' /\ Rest'
    BY <1>1, <1>2, <2>0 DEF TypeOK, PlanStillHolds, Rest, RowsOf,
       MissingAndNewer, PublishedAndLatest
  <2> QED
    BY <1>3, <2>1, <2>2
<1>7. ASSUME NEW p \in Packages, Preflight(a, p) PROVE Inv'
  <2>0. /\ p \in todo[a] /\ todo'[a] = todo[a] \ {p}
        /\ todo' \in [Attempts -> SUBSET Packages]
        /\ \A b \in Attempts \ {a} : todo'[b] = todo[b]
        /\ pc' = pc /\ pc[a] = "preflight"
    BY <1>7 DEF Preflight, TypeOK, FirstOf
  <2>1. /\ p \in todo[a] /\ todo'[a] = todo[a] \ {p}
        /\ todo' \in [Attempts -> SUBSET Packages] /\ plan' \in [Attempts -> SUBSET Packages]
        /\ \A b \in Attempts \ {a} : todo'[b] = todo[b] /\ plan'[b] = plan[b]
        /\ \/ MissingAndNewer(tag[a], p) /\ plan'[a] = plan[a] \cup {p}
           \/ PublishedAndLatest(tag[a], p) /\ plan'[a] = plan[a]
        /\ pc' = pc /\ pc[a] = "preflight"
    <3>1. CASE MissingAndNewer(tag[a], p) /\ plan' = [plan EXCEPT ![a] = @ \cup {p}]
      BY <2>0, <3>1 DEF TypeOK
    <3>2. CASE PublishedAndLatest(tag[a], p) /\ UNCHANGED plan
      BY <2>0, <3>2 DEF TypeOK
    <3> QED
      BY <1>7, <3>1, <3>2 DEF Preflight
  <2>2. TypeOK'
    BY <1>1, <1>2, <2>1 DEF TypeOK, RowsOf
  <2>3. Serial' /\ Verified' /\ RowsInUse'
    BY <1>2, <2>1 DEF Serial, Verified, RowsInUse
  <2>4. PlanStillHolds'
    BY <1>2, <2>1 DEF PlanStillHolds, MissingAndNewer
  <2>5. Rest'
    BY <1>1, <1>2, <2>1 DEF Rest, RowsOf, PublishedAndLatest
  <2> QED
    BY <1>3, <2>2, <2>3, <2>4, <2>5
<1> QED
  BY <1>4, <1>5, <1>6, <1>7

-----------------------------------------------------------------------------
(* A package reaches npm.                                                  *)

LEMMA AcceptStep ==
  ASSUME Inv, NEW a \in Attempts, NEW p \in Packages,
         pc[a] = "publish", p \in plan[a], Accept(tag[a], p), UNCHANGED phase
  PROVE  /\ MissingAndNewer(tag[a], p) /\ tag[a] \in Releases
         /\ contents' \in [Packages -> [Versions -> Releases \cup {Missing}]]
         /\ latest' \in [Packages -> Nat]
         /\ contents'[p][Version[tag[a]]] = tag[a] /\ latest'[p] = Version[tag[a]]
         /\ \A q \in Packages \ {p} : contents'[q] = contents[q] /\ latest'[q] = latest[q]
         /\ OriginalContents'
<1> USE DEF Inv
<1>1. tag[a] \in Releases /\ p \in Rows(tag[a]) /\ phase[tag[a]] = "public"
  BY ActiveHasTag DEF TypeOK, Verified
<1>2. Version[tag[a]] \in Versions /\ Version[tag[a]] \in Nat \ {0}
  BY <1>1, VersionsOfReleases
<1>3. MissingAndNewer(tag[a], p)
  BY DEF PlanStillHolds, MissingAndNewer
<1>4. contents' \in [Packages -> [Versions -> Releases \cup {Missing}]]
  BY <1>1, <1>2 DEF TypeOK, Accept
<1>5. latest' \in [Packages -> Nat]
  BY <1>2 DEF TypeOK, Accept
<1>6. /\ contents'[p] = [contents[p] EXCEPT ![Version[tag[a]]] = tag[a]]
      /\ contents'[p][Version[tag[a]]] = tag[a] /\ latest'[p] = Version[tag[a]]
      /\ \A q \in Packages \ {p} : contents'[q] = contents[q] /\ latest'[q] = latest[q]
  BY <1>2 DEF TypeOK, Accept
<1>7. OriginalContents'
  <2> SUFFICES ASSUME NEW q \in Packages
               PROVE  /\ latest'[q] # 0 => latest'[q] \in Versions /\ contents'[q][latest'[q]] # Missing
                      /\ \A v \in Versions : contents'[q][v] # Missing =>
                           /\ phase'[contents'[q][v]] = "public"
                           /\ Version[contents'[q][v]] = v /\ q \in Rows(contents'[q][v])
    BY DEF OriginalContents
  <2>1. CASE q = p
    <3>1. latest'[q] \in Versions /\ contents'[q][latest'[q]] # Missing
      <4>1. latest'[q] = Version[tag[a]] /\ contents'[q][Version[tag[a]]] = tag[a]
        BY <1>6, <2>1
      <4> QED
        BY <1>1, <1>2, <4>1
    <3>2. ASSUME NEW v \in Versions, contents'[q][v] # Missing
          PROVE  /\ phase'[contents'[q][v]] = "public"
                 /\ Version[contents'[q][v]] = v /\ q \in Rows(contents'[q][v])
      <4>1. CASE v = Version[tag[a]]
        BY <1>1, <1>6, <2>1, <4>1
      <4>2. CASE v # Version[tag[a]]
        <5>1. contents'[q][v] = contents[p][v]
          BY <1>6, <2>1, <3>2, <4>2 DEF TypeOK
        <5> QED
          BY <2>1, <3>2, <5>1 DEF OriginalContents
      <4> QED
        BY <4>1, <4>2
    <3> QED
      BY <3>1, <3>2
  <2>2. CASE q # p
    BY <1>6, <2>2 DEF OriginalContents
  <2> QED
    BY <2>1, <2>2
<1> QED
  BY <1>1, <1>3, <1>4, <1>5, <1>6, <1>7

LEMMA PublishStep ==
  ASSUME Inv, NEW a \in Attempts, NEW p \in Packages, Publish(a, p) \/ PublishUnnoticed(a, p)
  PROVE  Inv' /\ Registry!Release(p, tag[a]) /\ tag[a] \in Releases
<1> USE DEF Inv
<1>1. pc[a] = "publish" /\ p \in plan[a] /\ Accept(tag[a], p) /\ UNCHANGED phase
  BY DEF Publish, PublishUnnoticed, FirstOf
<1>2. /\ MissingAndNewer(tag[a], p) /\ tag[a] \in Releases
      /\ contents' \in [Packages -> [Versions -> Releases \cup {Missing}]]
      /\ latest' \in [Packages -> Nat]
      /\ contents'[p][Version[tag[a]]] = tag[a] /\ latest'[p] = Version[tag[a]]
      /\ \A q \in Packages \ {p} : contents'[q] = contents[q] /\ latest'[q] = latest[q]
      /\ OriginalContents'
  BY <1>1, AcceptStep
<1>3. Registry!Release(p, tag[a])
  BY <1>1, <1>2 DEF Registry!Release, Accept, MissingAndNewer
<1>4. \A b \in Attempts \ {a} : pc[b] \in {"free", "queued"}
  BY <1>1 DEF Serial, TypeOK, Active
<1>5. \A b \in Attempts \ {a} : plan[b] = {} /\ todo[b] = {}
  BY <1>4 DEF RowsInUse
<1>6. todo[a] = {}
  BY <1>1 DEF RowsInUse
<1>7. CASE Publish(a, p)
  <2>1. /\ plan' \in [Attempts -> SUBSET Packages] /\ plan'[a] = plan[a] \ {p}
        /\ \A b \in Attempts \ {a} : plan'[b] = plan[b]
        /\ UNCHANGED <<pc, tag, todo, faults>>
    BY <1>7 DEF Publish, TypeOK
  <2>2. TypeOK'
    BY <1>1, <1>2, <2>1 DEF TypeOK, RowsOf
  <2>3. Serial' /\ Verified' /\ RowsInUse'
    BY <1>1, <1>5, <2>1 DEF Serial, Verified, RowsInUse
  <2>4. PlanStillHolds'
    <3> SUFFICES ASSUME NEW b \in Attempts, NEW q \in plan'[b]
                 PROVE  MissingAndNewer(tag[b], q)'
      BY DEF PlanStillHolds, MissingAndNewer
    <3>1. b = a /\ q \in plan[a] \ {p} /\ q \in Packages
      BY <1>5, <2>1 DEF TypeOK
    <3> QED
      BY <1>2, <2>1, <3>1 DEF PlanStillHolds, MissingAndNewer
  <2>5. Rest'
    <3> SUFFICES ASSUME NEW b \in Attempts, pc[b] \in {"preflight", "access", "publish"},
                        NEW q \in RowsOf(b) \ (plan'[b] \cup todo[b])
                 PROVE  PublishedAndLatest(tag[b], q)'
      BY <2>1 DEF Rest, RowsOf
    <3>1. b = a /\ q \in Packages
      BY <1>2, <1>4, RowsArePackages DEF RowsOf
    <3>2. CASE q = p
      BY <1>2, <2>1, <3>1, <3>2 DEF PublishedAndLatest
    <3>3. CASE q # p
      BY <1>2, <2>1, <3>1, <3>3 DEF Rest, PublishedAndLatest
    <3> QED
      BY <3>2, <3>3
  <2> QED
    BY <1>2, <1>3, <2>2, <2>3, <2>4, <2>5
<1>8. CASE PublishUnnoticed(a, p)
  <2>1. End(a) /\ faults' \in 0..MaxFaults
    BY <1>8 DEF PublishUnnoticed, TypeOK
  <2>2. TypeOK'
    <3>1. phase' \in [Releases -> Phases]
      BY <1>1 DEF TypeOK
    <3>2. \A b \in Attempts : /\ todo'[b] \cup plan'[b] \subseteq RowsOf(b)'
                              /\ tag'[b] = Missing <=> pc'[b] = "free"
      <4> SUFFICES ASSUME NEW b \in Attempts
                   PROVE  /\ todo'[b] \cup plan'[b] \subseteq RowsOf(b)'
                          /\ tag'[b] = Missing <=> pc'[b] = "free"
        OBVIOUS
      <4>1. CASE b = a
        BY <2>1, <4>1, EndStep
      <4>2. CASE b # a
        BY <2>1, <4>2, EndStep DEF TypeOK, RowsOf
      <4> QED
        BY <4>1, <4>2
    <3>3. /\ pc' \in [Attempts -> {"free", "queued"} \cup Active]
          /\ tag' \in [Attempts -> Releases \cup {Missing}]
          /\ todo' \in [Attempts -> SUBSET Packages]
          /\ plan' \in [Attempts -> SUBSET Packages]
      BY <2>1, EndStep
    <3> QED
      BY <1>2, <2>1, <3>1, <3>2, <3>3 DEF TypeOK
  <2>3. Serial' /\ Verified' /\ RowsInUse'
    BY <1>1, <2>1, EndStep DEF Serial, Verified, RowsInUse, Active
  <2>4. PlanStillHolds' /\ Rest'
    BY <1>4, <1>5, <2>1, EndStep DEF PlanStillHolds, Rest
  <2> QED
    BY <1>2, <1>3, <2>2, <2>3, <2>4
<1> QED
  BY <1>7, <1>8

-----------------------------------------------------------------------------
\* Every step keeps the invariant, and is a step of the registry or leaves it alone.
LEMMA NextInv == Inv /\ [Next]_vars => Inv' /\ [Registry!Next]_<<contents, latest>>
<1> SUFFICES ASSUME Inv, [Next]_vars PROVE Inv' /\ [Registry!Next]_<<contents, latest>>
  OBVIOUS
<1>1. CASE \E r \in Releases : Prepare(r) \/ Upload(r) \/ PublishDraft(r)
  BY <1>1, ReleaseStep DEF Prepare, Upload, PublishDraft, npm
<1>2. CASE \E a \in Attempts, r \in Releases : Trigger(a, r)
  BY <1>2, TriggerStep DEF Trigger, npm
<1>3. ASSUME NEW a \in Attempts,
             \/ Begin(a) \/ Verify(a) \/ PreflightEnds(a) \/ VerifyAccess(a)
             \/ \E p \in Packages : Preflight(a, p)
      PROVE  Inv' /\ UNCHANGED <<contents, latest>>
  BY <1>3, LookingStep DEF Begin, Verify, PreflightEnds, VerifyAccess, Preflight, npm
<1>4. ASSUME NEW a \in Attempts,
             \/ VerifyRefuses(a) \/ PublishEnds(a) \/ Fault(a)
             \/ \E p \in Packages : PreflightRefuses(a, p)
      PROVE  Inv' /\ UNCHANGED <<contents, latest>>
  <2>1. faults' \in 0..MaxFaults
    BY <1>4 DEF VerifyRefuses, PublishEnds, Fault, PreflightRefuses, Inv, TypeOK
  <2>2. End(a) /\ UNCHANGED <<phase, contents, latest>>
    BY <1>4 DEF VerifyRefuses, PublishEnds, Fault, PreflightRefuses, npm
  <2> QED
    BY <2>1, <2>2, EndInv
<1>5. ASSUME NEW a \in Attempts, NEW p \in Packages, Publish(a, p) \/ PublishUnnoticed(a, p)
      PROVE  Inv' /\ Registry!Next
  BY <1>5, PublishStep DEF Registry!Next
<1>6. CASE UNCHANGED vars
  <2>1. Inv'
    BY <1>6 DEF vars, Inv, TypeOK, OriginalContents, Serial, Verified, RowsInUse,
       PlanStillHolds, Rest, RowsOf, MissingAndNewer, PublishedAndLatest
  <2> QED
    BY <1>6, <2>1 DEF vars
<1> QED
  BY <1>1, <1>2, <1>3, <1>4, <1>5, <1>6 DEF Next, Step

\* The inductive invariant holds through every sequence of runs, retries and faults.
THEOREM Invariance == Spec => []Inv
BY InitInv, NextInv, PTL DEF Spec

\* The variables keep their types; a run only handles rows of its own release.
THEOREM ReleaseTypeCorrect == Spec => []TypeOK
<1>1. Inv => TypeOK
  BY DEF Inv
<1> QED
  BY Invariance, <1>1, PTL

\* Only originals of immutable published releases reach npm (verify-npm-release.mjs).
THEOREM ContentsAreOriginal == Spec => []OriginalContents
<1>1. Inv => OriginalContents
  BY DEF Inv
<1> QED
  BY Invariance, <1>1, PTL

\* What the preflight found of a pending row holds until it is published.
THEOREM PlansStayValid == Spec => []PlanStillHolds
<1>1. Inv => PlanStillHolds
  BY DEF Inv
<1> QED
  BY Invariance, <1>1, PTL

\* Rows a publishing run leaves out are on npm, as latest, from the same release.
THEOREM RestOfReleaseIsOriginal == Spec => []RestIsOriginal
<1>1. Inv => RestIsOriginal
  BY DEF Inv, Rest, RowsInUse, RestIsOriginal, PublishedAndLatest
<1> QED
  BY Invariance, <1>1, PTL

\* The pipeline implements the registry that only moves forward: a retried old
\* release never takes latest from a newer one.
THEOREM PipelineImplementsRegistry == Spec => ImplementsRegistry
<1>1. Init => Registry!Init
  BY DEF Init, Registry!Init, Versions
<1> QED
  BY Invariance, <1>1, NextInv, PTL DEF Spec, ImplementsRegistry, Registry!Spec, Registry!vars
=============================================================================
