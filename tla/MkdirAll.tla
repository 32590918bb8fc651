------------------------------ MODULE MkdirAll ------------------------------
(***************************************************************************)
(* Root.MkdirAll of canonicalfs (mkdir.go): it makes one name after the    *)
(* other, and a name that exists will do if it is a directory.  Several    *)
(* callers run at the same time below one root, while other processes put  *)
(* files there and remove entries.  A step is one system call.             *)
(***************************************************************************)
EXTENDS Naturals, Sequences

CONSTANTS Callers,
          Places,   \* the paths below the root that are of interest
          Upper,    \* Upper[p]: the path p is a name in
          RootDir,  \* the root itself
          Goals     \* the paths to make, each with the paths above it, from the root down

ASSUME MkdirAssumption ==
  /\ RootDir \notin Places
  /\ Upper \in [Places -> Places \cup {RootDir}]
  /\ Goals \subseteq Seq(Places)
  /\ \A g \in Goals :
       /\ g # <<>> /\ Upper[g[1]] = RootDir
       /\ \A i \in 2..Len(g) : Upper[g[i]] = g[i - 1]

VARIABLES
  kind,      \* what is at a path: a directory if Stat calls it one, else a file
  mkStep,    \* the next system call of a caller
  goal, depth,
  disturbed, \* history: the caller has met with more than other directories being made
  hasBeen    \* history: what has been a directory since the caller started

mkVars == <<kind, mkStep, goal, depth, disturbed, hasBeen>>

Kinds == {"none", "file", "dir"}
MkSteps == {"idle", "mkdir", "stat", "made", "failed"}

MkdirTypeOK ==
  /\ kind \in [Places -> Kinds]
  /\ mkStep \in [Callers -> MkSteps]
  /\ goal \in [Callers -> Goals]
  /\ depth \in [Callers -> Nat \ {0}]
  /\ disturbed \in [Callers -> BOOLEAN]
  /\ hasBeen \in [Callers -> SUBSET Places]

MkdirInit ==
  /\ kind = [p \in Places |-> "none"]
  /\ mkStep = [c \in Callers |-> "idle"]
  /\ goal \in [Callers -> Goals]
  /\ depth = [c \in Callers |-> 1]
  /\ disturbed = [c \in Callers |-> FALSE]
  /\ hasBeen = [c \in Callers |-> {}]

-----------------------------------------------------------------------------
OnTheWay(c) == {goal[c][i] : i \in DOMAIN goal[c]}
Target(c) == goal[c][depth[c]]
Underway(c) == mkStep[c] \in {"mkdir", "stat"}

IsDirectory(p) == IF p = RootDir THEN TRUE ELSE kind[p] = "dir"
HasEntries(p) == \E q \in Places : Upper[q] = p /\ kind[q] # "none"

SetKind(p, k) ==
  /\ kind' = [kind EXCEPT ![p] = k]
  /\ hasBeen' = IF k = "dir" THEN [c \in Callers |-> hasBeen[c] \cup {p}] ELSE hasBeen

SomebodyElse(p, k) ==
  /\ SetKind(p, k)
  /\ disturbed' = [c \in Callers |-> disturbed[c] \/ (k # "dir" /\ p \in OnTheWay(c))]
  /\ UNCHANGED <<mkStep, goal, depth>>

\* Another process puts a file or an empty directory where nothing is.
Put(p, k) == /\ kind[p] = "none" /\ IsDirectory(Upper[p])
             /\ SomebodyElse(p, k)

Remove(p) == /\ kind[p] # "none" /\ ~HasEntries(p)
             /\ SomebodyElse(p, "none")

StartMkdirAll(c, g) ==
  /\ ~Underway(c)
  /\ mkStep' = [mkStep EXCEPT ![c] = "mkdir"]
  /\ goal' = [goal EXCEPT ![c] = g] /\ depth' = [depth EXCEPT ![c] = 1]
  /\ disturbed' = [disturbed EXCEPT ![c] = \E i \in DOMAIN g : kind[g[i]] = "file"]
  /\ hasBeen' = [hasBeen EXCEPT ![c] = {p \in Places : kind[p] = "dir"}]
  /\ UNCHANGED kind

\* On to the next name, or done.
Advance(c) ==
  /\ mkStep' = [mkStep EXCEPT ![c] = IF depth[c] = Len(goal[c]) THEN "made" ELSE "mkdir"]
  /\ depth' = [depth EXCEPT ![c] = IF @ = Len(goal[c]) THEN @ ELSE @ + 1]

MakeName(c) ==
  /\ mkStep[c] = "mkdir"
  /\ IsDirectory(Upper[Target(c)]) /\ kind[Target(c)] = "none"
  /\ SetKind(Target(c), "dir")
  /\ Advance(c)
  /\ UNCHANGED <<goal, disturbed>>

\* Mkdir: ErrExist.
NameExists(c) ==
  /\ mkStep[c] = "mkdir"
  /\ IsDirectory(Upper[Target(c)]) /\ kind[Target(c)] # "none"
  /\ mkStep' = [mkStep EXCEPT ![c] = "stat"]
  /\ UNCHANGED <<kind, goal, depth, disturbed, hasBeen>>

\* Wrong: whatever has the name will do.
AcceptExisting(c) ==
  /\ mkStep[c] = "stat" /\ kind[Target(c)] # "none"
  /\ Advance(c)
  /\ UNCHANGED <<kind, goal, disturbed, hasBeen>>

AcceptDirectoryThere(c) ==
  /\ mkStep[c] = "stat" /\ IsDirectory(Target(c))
  /\ Advance(c)
  /\ UNCHANGED <<kind, goal, disturbed, hasBeen>>

\* Wrong: a name that exists is an error, the one another caller made too.
FailIfExists(c) ==
  /\ \/ mkStep[c] = "mkdir" /\ kind[Target(c)] # "none"
     \/ mkStep[c] = "mkdir" /\ ~IsDirectory(Upper[Target(c)])
     \/ mkStep[c] = "stat" /\ ~IsDirectory(Target(c))
  /\ mkStep' = [mkStep EXCEPT ![c] = "failed"]
  /\ UNCHANGED <<kind, goal, depth, disturbed, hasBeen>>

\* Nothing is rolled back: what was made stays.
FailMkdirAll(c) ==
  /\ \/ mkStep[c] = "mkdir" /\ ~IsDirectory(Upper[Target(c)])
     \/ mkStep[c] = "stat" /\ ~IsDirectory(Target(c))
  /\ mkStep' = [mkStep EXCEPT ![c] = "failed"]
  /\ UNCHANGED <<kind, goal, depth, disturbed, hasBeen>>

\* The system refuses a call: no permission, no space.
SystemRefuses(c) ==
  /\ Underway(c)
  /\ mkStep' = [mkStep EXCEPT ![c] = "failed"]
  /\ disturbed' = [disturbed EXCEPT ![c] = TRUE]
  /\ UNCHANGED <<kind, goal, depth, hasBeen>>

MkdirNext ==
  \/ \E c \in Callers :
       \/ \E g \in Goals : StartMkdirAll(c, g)
       \/ MakeName(c) \/ NameExists(c) \/ AcceptDirectoryThere(c)
       \/ FailMkdirAll(c) \/ SystemRefuses(c)
  \/ \E p \in Places : Put(p, "file") \/ Put(p, "dir") \/ Remove(p)

MkdirSpec == MkdirInit /\ [][MkdirNext]_mkVars

-----------------------------------------------------------------------------
(***************************************************************************)
(* Callers do not get into each other's way, and what a failed call left   *)
(* behind does not make a later one fail: a call fails only if a file was  *)
(* on its path when it started, if somebody else put a file there or       *)
(* removed an entry since, or if the system refused it.                    *)
(***************************************************************************)
FailsOnlyWithReason ==
  \A c \in Callers : mkStep[c] = "failed" => disturbed[c]

(***************************************************************************)
(* "MkdirAll creates a directory path" (mkdir.go): after a success every   *)
(* name of the path was a directory at a moment of the call, and as long   *)
(* as nobody put a file there or removed an entry all of them still are.   *)
(***************************************************************************)
SuccessMadeThePath ==
  \A c \in Callers : mkStep[c] = "made" =>
    /\ OnTheWay(c) \subseteq hasBeen[c]
    /\ ~disturbed[c] => \A p \in OnTheWay(c) : kind[p] = "dir"

(***************************************************************************)
(* Root.MkdirAll means what it answers, an error as well as a success.     *)
(***************************************************************************)
AnswersAreRight == FailsOnlyWithReason /\ SuccessMadeThePath
=============================================================================
