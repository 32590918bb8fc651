----------------------------- MODULE NpmRelease -----------------------------
(***************************************************************************)
(* The release pipeline: prepare-npm-release.yml with                      *)
(* scripts/create-npm-release-draft.mjs, and publish-npm.yml with          *)
(* scripts/verify-npm-release.mjs and scripts/release-publication-plan.mjs.*)
(*                                                                         *)
(* A release is a tag: its kind (all packages or only the Unity package)   *)
(* and its version.  Publishing several packages is not atomic: a run may  *)
(* stop between two of them, be repeated later, and meet newer releases or *)
(* a release of the other kind in between.                                 *)
(***************************************************************************)
EXTENDS Naturals

CONSTANTS
  Packages, Unity,   \* the npm packages; the one a Unity release contains
  Rank,              \* the order of the rows of manifest.tsv
  Releases, Kind, Version,
  Attempts,          \* runs of publish-npm.yml that exist at a time
  Missing,           \* no such version; no release
  MaxFaults          \* bound: failures of runners, npm and GitHub

Versions == {Version[r] : r \in Releases}

Rows(r) == IF Kind[r] = "full" THEN Packages ELSE {Unity}

ASSUME NpmReleaseAssumption ==
  /\ Unity \in Packages
  /\ Rank \in [Packages -> Nat]
  /\ Kind \in [Releases -> {"full", "unity"}]
  /\ Version \in [Releases -> Nat \ {0}]
  /\ Missing \notin Releases
  /\ MaxFaults \in Nat

VARIABLES
  phase,     \* of a release: its draft, then its publication on GitHub
  contents,  \* npm: whose tarball a version of a package has
  latest,    \* npm: the dist-tag, 0 if the package is absent
  pc, tag,   \* of a run: its step, and the release it was started for
  todo,      \* rows still to preflight
  plan,      \* rows of pending.tsv still to publish
  faults

vars == <<phase, contents, latest, pc, tag, todo, plan, faults>>

Phases == {"none", "draft", "ready", "public", "broken"}
Active == {"verify", "preflight", "access", "publish"}

RowsOf(a) == IF tag[a] = Missing THEN {} ELSE Rows(tag[a])

TypeOK ==
  /\ phase \in [Releases -> Phases]
  /\ contents \in [Packages -> [Versions -> Releases \cup {Missing}]]
  /\ latest \in [Packages -> Nat]
  /\ pc \in [Attempts -> {"free", "queued"} \cup Active]
  /\ tag \in [Attempts -> Releases \cup {Missing}]
  /\ todo \in [Attempts -> SUBSET Packages]
  /\ plan \in [Attempts -> SUBSET Packages]
  /\ \A a \in Attempts : /\ todo[a] \cup plan[a] \subseteq RowsOf(a)
                         /\ tag[a] = Missing <=> pc[a] = "free"
  /\ faults \in 0..MaxFaults

Init ==
  /\ phase = [r \in Releases |-> "none"]
  /\ contents = [p \in Packages |-> [v \in Versions |-> Missing]]
  /\ latest = [p \in Packages |-> 0]
  /\ pc = [a \in Attempts |-> "free"]
  /\ tag = [a \in Attempts |-> Missing]
  /\ todo = [a \in Attempts |-> {}]
  /\ plan = [a \in Attempts |-> {}]
  /\ faults = 0

-----------------------------------------------------------------------------
(* Preparation and publication of a release on GitHub.                     *)

run   == <<pc, tag, todo, plan>>
npm   == <<contents, latest>>

Prepare(r) ==          \* no release, draft or tag of that name exists
  /\ phase[r] = "none"
  /\ phase' = [phase EXCEPT ![r] = "draft"]
  /\ UNCHANGED <<npm, run, faults>>

Upload(r) ==           \* manifest attested, manifest and tarballs uploaded
  /\ phase[r] = "draft"
  /\ phase' = [phase EXCEPT ![r] = "ready"]
  /\ UNCHANGED <<npm, run, faults>>

\* A maintainer publishes the draft; before the upload that breaks it for good.
PublishDraft(r) ==
  /\ phase[r] \in {"draft", "ready"}
  /\ phase' = [phase EXCEPT ![r] = IF phase[r] = "ready" THEN "public" ELSE "broken"]
  /\ UNCHANGED <<npm, run, faults>>

-----------------------------------------------------------------------------
(***************************************************************************)
(* A run starts on a release event or a dispatch that names a tag.  The    *)
(* concurrency group admits one run at a time and keeps one waiting: a     *)
(* newer run cancels the one that waits.                                   *)
(***************************************************************************)
Trigger(a, r) ==
  /\ pc[a] \in {"free", "queued"}
  /\ \A b \in Attempts \ {a} : pc[b] # "queued"
  /\ pc' = [pc EXCEPT ![a] = "queued"]
  /\ tag' = [tag EXCEPT ![a] = r]
  /\ UNCHANGED <<phase, npm, todo, plan, faults>>

Begin(a) ==
  /\ pc[a] = "queued"
  /\ \A b \in Attempts : pc[b] \notin Active
  /\ pc' = [pc EXCEPT ![a] = "verify"]
  /\ UNCHANGED <<phase, npm, tag, todo, plan, faults>>

End(a) ==
  /\ pc' = [pc EXCEPT ![a] = "free"]
  /\ tag' = [tag EXCEPT ![a] = Missing]
  /\ todo' = [todo EXCEPT ![a] = {}]
  /\ plan' = [plan EXCEPT ![a] = {}]

\* Wrong: the release of the tag need not be published and complete.
VerifyUnchecked(a) ==
  /\ pc[a] = "verify"
  /\ pc' = [pc EXCEPT ![a] = "preflight"]
  /\ todo' = [todo EXCEPT ![a] = Rows(tag[a])]
  /\ UNCHANGED <<phase, npm, tag, plan, faults>>

Verify(a) ==
  /\ pc[a] = "verify"
  /\ phase[tag[a]] = "public"
  /\ pc' = [pc EXCEPT ![a] = "preflight"]
  /\ todo' = [todo EXCEPT ![a] = Rows(tag[a])]
  /\ UNCHANGED <<phase, npm, tag, plan, faults>>

VerifyRefuses(a) ==
  /\ pc[a] = "verify"
  /\ phase[tag[a]] # "public"
  /\ End(a)
  /\ UNCHANGED <<phase, npm, faults>>

-----------------------------------------------------------------------------
(* planPublication: every row is looked up before any is published.        *)

\* Wrong: the latest tag is not looked at when the version is missing.
MissingIgnoringLatest(r, p) == contents[p][Version[r]] = Missing

MissingAndNewer(r, p) ==
  /\ contents[p][Version[r]] = Missing
  /\ latest[p] < Version[r]      \* 0 if npm reports the package absent

\* Wrong: any contents will do.
PublishedAsVersion(r, p) ==
  /\ contents[p][Version[r]] # Missing
  /\ latest[p] = Version[r]

\* Wrong: a version that exists is always a conflict.
PublishedNever(r, p) == FALSE

PublishedAndLatest(r, p) ==
  /\ contents[p][Version[r]] = r
  /\ latest[p] = Version[r]

\* The rows are taken in the order of the manifest.
FirstOf(S, p) == p \in S /\ \A q \in S : Rank[p] <= Rank[q]

Preflight(a, p) ==
  /\ pc[a] = "preflight"
  /\ FirstOf(todo[a], p)
  /\ todo' = [todo EXCEPT ![a] = @ \ {p}]
  /\ \/ MissingAndNewer(tag[a], p) /\ plan' = [plan EXCEPT ![a] = @ \cup {p}]
     \/ PublishedAndLatest(tag[a], p) /\ UNCHANGED plan
  /\ UNCHANGED <<phase, npm, pc, tag, faults>>

\* Other contents, or latest elsewhere: the run ends and has published nothing.
PreflightRefuses(a, p) ==
  /\ pc[a] = "preflight"
  /\ FirstOf(todo[a], p)
  /\ ~MissingAndNewer(tag[a], p) /\ ~PublishedAndLatest(tag[a], p)
  /\ End(a)
  /\ UNCHANGED <<phase, npm, faults>>

PreflightEnds(a) ==
  /\ pc[a] = "preflight" /\ todo[a] = {}
  /\ pc' = [pc EXCEPT ![a] = "access"]
  /\ UNCHANGED <<phase, npm, tag, todo, plan, faults>>

VerifyAccess(a) ==     \* npm accepts the OIDC identity for every pending row
  /\ pc[a] = "access"
  /\ pc' = [pc EXCEPT ![a] = "publish"]
  /\ UNCHANGED <<phase, npm, tag, todo, plan, faults>>

-----------------------------------------------------------------------------
(* npm publish --tag latest, one pending row after the other.              *)

Accept(r, p) ==        \* npm never accepts a version twice
  /\ contents[p][Version[r]] = Missing
  /\ contents' = [contents EXCEPT ![p][Version[r]] = r]
  /\ latest' = [latest EXCEPT ![p] = Version[r]]

Publish(a, p) ==
  /\ pc[a] = "publish"
  /\ FirstOf(plan[a], p)
  /\ Accept(tag[a], p)
  /\ plan' = [plan EXCEPT ![a] = @ \ {p}]
  /\ UNCHANGED <<phase, pc, tag, todo, faults>>

\* npm has the package, but the run ends before it knows.
PublishUnnoticed(a, p) ==
  /\ pc[a] = "publish" /\ faults < MaxFaults
  /\ FirstOf(plan[a], p)
  /\ Accept(tag[a], p)
  /\ End(a)
  /\ faults' = faults + 1
  /\ UNCHANGED phase

PublishEnds(a) ==
  /\ pc[a] = "publish" /\ plan[a] = {}
  /\ End(a)
  /\ UNCHANGED <<phase, npm, faults>>

\* The runner is lost, a service is unavailable, a reviewer rejects the run.
Fault(a) ==
  /\ pc[a] \in Active /\ faults < MaxFaults
  /\ End(a)
  /\ faults' = faults + 1
  /\ UNCHANGED <<phase, npm>>

Step(a) ==
  \/ Verify(a) \/ VerifyRefuses(a)
  \/ \E p \in Packages : Preflight(a, p) \/ PreflightRefuses(a, p) \/ Publish(a, p)
  \/ PreflightEnds(a) \/ VerifyAccess(a) \/ PublishEnds(a)

Next ==
  \/ \E r \in Releases : Prepare(r) \/ Upload(r) \/ PublishDraft(r)
  \/ \E a \in Attempts :
       \/ \E r \in Releases : Trigger(a, r)
       \/ Begin(a) \/ Step(a) \/ Fault(a)
       \/ \E p \in Packages : PublishUnnoticed(a, p)

Spec == Init /\ [][Next]_vars

\* GitHub starts a run that waits for nothing and keeps it going.
FairSpec == Spec /\ \A a \in Attempts : WF_vars(Begin(a)) /\ WF_vars(Step(a))

-----------------------------------------------------------------------------
(* Properties.                                                             *)

(***************************************************************************)
(* Only originals of an immutable published release reach npm, and only    *)
(* the packages and the version of that release: a draft, a broken release *)
(* or a row of the wrong kind never does (verify-npm-release.mjs).         *)
(***************************************************************************)
OriginalContents ==
  \A p \in Packages :
    /\ latest[p] # 0 => latest[p] \in Versions /\ contents[p][latest[p]] # Missing
    /\ \A v \in Versions :
         LET r == contents[p][v]
         IN  r # Missing => /\ phase[r] = "public" /\ Version[r] = v
                            /\ p \in Rows(r)

(***************************************************************************)
(* What the preflight found of a pending row still holds when the row is   *)
(* published, however long the OIDC step and the rows before it take:      *)
(* "The workflow concurrency group serializes these attempts"              *)
(* (docs/release-process.md).                                              *)
(***************************************************************************)
PlanStillHolds ==
  \A a \in Attempts : \A p \in plan[a] :
    /\ contents[p][Version[tag[a]]] = Missing
    /\ latest[p] < Version[tag[a]]

(***************************************************************************)
(* A run that publishes has established that every row it does not publish *)
(* is on npm already, as latest and with the contents of this very         *)
(* release; so a run that ends well leaves the whole release on npm, never *)
(* a mixture of two releases of one version.                               *)
(***************************************************************************)
RestIsOriginal ==
  \A a \in Attempts : pc[a] \in {"access", "publish"} =>
    \A p \in RowsOf(a) \ plan[a] :
      /\ contents[p][Version[tag[a]]] = tag[a]
      /\ latest[p] = Version[tag[a]]

(***************************************************************************)
(* "A failed old release therefore cannot overwrite the latest tag of a    *)
(* newer release" (docs/release-process.md): runs, retries and faults in   *)
(* any order implement the registry that only moves forward.               *)
(***************************************************************************)
Registry == INSTANCE PackageRegistry

ImplementsRegistry == Registry!Spec

(***************************************************************************)
(* A partly published release that is retried again and again is completed *)
(* in the end, unless a newer release or one with other contents of the    *)
(* same version has overtaken it.                                          *)
(***************************************************************************)
Complete(r) == \A p \in Rows(r) : contents[p][Version[r]] = r

Overtaken(r) == \E p \in Rows(r) : \/ latest[p] > Version[r]
                                   \/ contents[p][Version[r]] \notin {r, Missing}

Running(r) == \E a \in Attempts : pc[a] = "verify" /\ tag[a] = r

RetriesComplete ==
  \A r \in Releases :
    []<>Running(r) => (phase[r] = "public" ~> Complete(r) \/ Overtaken(r))
=============================================================================
