----------------------------- MODULE FileProofs -----------------------------
(***************************************************************************)
(* Proofs about the operations on files that others change at the same     *)
(* time: PinnedFile, MkdirAll, RootBinding and BootstrapBundle, for any    *)
(* number of actors, names and objects and paths of any length.  Each has  *)
(* an inductive invariant of its own, made of named parts.                 *)
(***************************************************************************)
EXTENDS PinnedFile, MkdirAll, RootBinding, BootstrapBundle, TLAPS

-----------------------------------------------------------------------------
(* PinnedFile.  Inv is inductive: Seen says that the history has whatever  *)
(* currently has the walk's name, Examined that what Lstat returned is in  *)
(* the history for as long as it is compared with, Opened the same of a    *)
(* file created with O_EXCL, and Position ties the stages of the operation *)
(* to the position of the walk.                                            *)
USE PinnedFileAssumption

LeafStages == {"leaf", "openfile", "check", "use", "resolve"}
WalkStages == {"make", "examine", "open", "confirm"}

Position ==
  /\ pc \in LeafStages => at = Len(Anchor) + 1
  /\ pc \in WalkStages => at <= Len(Anchor)
  /\ pc \in {"openfile", "check", "use"} => op \in {"read", "write"}

Seen == pc \notin {"idle", "finished"} => RealAt(cur, Name) \subseteq was

Examined ==
  /\ pc \in {"make", "examine", "leaf"} => Missing
  /\ pc \in {"open", "confirm"} => info \in Dirs /\ info \in was
  /\ pc \in {"openfile", "check", "resolve"} /\ scoped /\ ~Missing => info \in was
  /\ pc = "resolve" /\ scoped /\ op = "stat" => ~Missing
  /\ pc \in {"openfile", "check"} /\ scoped /\ Missing => op = "write"

Opened ==
  /\ pc = "check" => file \in Objects /\ (Exclusive => file \in was)
  /\ pc \notin {"use", "finished"} => touched = {}

Inv == /\ TypeOK /\ Position /\ Seen /\ Examined /\ Opened
       /\ FileWasReal /\ TouchedWasChecked /\ StatWasReal

LEMMA NamesOfTheWalk ==
  ASSUME NEW i \in 1..(Len(Anchor) + 1)
  PROVE  NameAt(i) \in Names
BY DEF NameAt

LEMMA InitInv == Init => Inv
<1> SUFFICES ASSUME Init PROVE Inv
  OBVIOUS
<1>1. Len(Anchor) \in Nat
  OBVIOUS
<1>2. TypeOK
  <2>1. entry \in [Dirs -> [Names -> Objects \cup Links \cup {Nothing}]]
    BY DEF Init
  <2>2. op \in Ops /\ pc \in PCs /\ scoped \in BOOLEAN
    BY DEF Init, Ops, PCs
  <2>3. /\ at \in 1..(Len(Anchor) + 1) /\ cur \in Dirs
        /\ info = Nothing /\ file = Nothing /\ touched = {} /\ was = {}
    BY <1>1 DEF Init
  <2> QED
    BY <2>1, <2>2, <2>3 DEF TypeOK
<1>3. Position /\ Seen /\ Examined /\ Opened
  BY <1>1 DEF Init, Position, Seen, Examined, Opened, Missing, LeafStages, WalkStages
<1>4. FileWasReal /\ TouchedWasChecked /\ StatWasReal
  BY DEF Init, FileWasReal, TouchedWasChecked, StatWasReal
<1> QED
  BY <1>2, <1>3, <1>4 DEF Inv

\* What a step does to the entries and the history keeps the current name seen.
LEMMA ObserveSees ==
  ASSUME Inv, Observe, entry' \in [Dirs -> [Names -> Objects \cup Links \cup {Nothing}]],
         cur' = cur, at' = at
  PROVE  /\ was' \in SUBSET Objects
         /\ was \subseteq was'
         /\ RealAt(cur, Name)' \subseteq was'
BY DEF Inv, TypeOK, Observe, RealAt, Name, NameAt

LEMMA CreateSees ==
  ASSUME Inv, NEW n \in Names, NEW o \in Objects, Create(n, o),
         cur' = cur, at' = at
  PROVE  /\ entry' \in [Dirs -> [Names -> Objects \cup Links \cup {Nothing}]]
         /\ was' \in SUBSET Objects
         /\ was \subseteq was'
         /\ RealAt(cur, Name)' \subseteq was'
         /\ n = Name => o \in was'
<1>1. entry' \in [Dirs -> [Names -> Objects \cup Links \cup {Nothing}]]
  BY DEF Inv, TypeOK, Create
<1>2. n = Name => entry'[cur][Name] = o
  BY DEF Inv, TypeOK, Create
<1> QED
  BY <1>1, <1>2, ObserveSees DEF Create, Observe

LEMMA EnterInv ==
  ASSUME Inv, NEW d \in Dirs, NEW i \in 1..(Len(Anchor) + 1),
         NEW k \in Ops, NEW s \in BOOLEAN,
         Enter(d, i, k, s), op' = k, scoped' = s, touched' = {}
  PROVE  Inv'
<1>1. Len(Anchor) \in Nat
  OBVIOUS
<1>2. TypeOK'
  BY <1>1 DEF Inv, TypeOK, Enter, Stage, PCs, RealAt, Objects
<1>3. pc' \in {"make", "examine", "leaf", "openfile", "resolve"}
  BY DEF Enter, Stage
<1>4. Position'
  BY <1>1 DEF Enter, Stage, Position, LeafStages, WalkStages, Ops
<1>5. Seen'
  BY DEF Enter, Seen, RealAt, Name, NameAt
<1>6. Examined' /\ Opened' /\ FileWasReal' /\ TouchedWasChecked' /\ StatWasReal'
  BY <1>1, <1>3 DEF Enter, Stage, Examined, Opened, Missing, FileWasReal,
     TouchedWasChecked, StatWasReal, Ops
<1> QED
  BY <1>2, <1>4, <1>5, <1>6 DEF Inv

LEMMA InterfereInv ==
  ASSUME Inv, NEW d \in Dirs, NEW n \in Names,
         NEW e \in Objects \cup Links \cup {Nothing}, Interfere(d, n, e)
  PROVE  Inv'
<1>1. entry' \in [Dirs -> [Names -> Objects \cup Links \cup {Nothing}]]
  BY DEF Inv, TypeOK, Interfere
<1>2. was' \in SUBSET Objects /\ was \subseteq was' /\ RealAt(cur, Name)' \subseteq was'
  BY <1>1, ObserveSees DEF Interfere
<1>3. TypeOK' /\ Position' /\ Seen'
  BY <1>1, <1>2 DEF Inv, TypeOK, Position, Seen, Interfere
<1>4. Examined' /\ Opened' /\ FileWasReal' /\ TouchedWasChecked' /\ StatWasReal'
  BY <1>2 DEF Inv, Examined, Opened, Missing, Exclusive, FileWasReal,
     TouchedWasChecked, StatWasReal, Interfere
<1> QED
  BY <1>3, <1>4 DEF Inv

LEMMA OperateInv ==
  ASSUME Inv, Operate
  PROVE  Inv'
<1> USE DEF Inv
<1>1. Len(Anchor) \in Nat
  OBVIOUS
<1>2. Name \in Names /\ (pc \in LeafStages => Name = Leaf)
  BY <1>1, NamesOfTheWalk DEF TypeOK, Position, Name, NameAt
<1>3. entry[cur][Name] \in Objects => pc \in {"idle", "finished"} \/ entry[cur][Name] \in was
  BY DEF Seen, RealAt
<1> DEFINE Rest == Examined' /\ Opened' /\ FileWasReal' /\ TouchedWasChecked' /\ StatWasReal'
           Same == entry' = entry /\ cur' = cur /\ at' = at /\ was' = was
<1>4. ASSUME Same, pc \notin {"idle", "finished"} PROVE Seen'
  BY <1>4 DEF Seen, RealAt, Name, NameAt
<1>5. CASE MakeComponent
  <2>1. CASE entry[cur][Name] = Nothing
    <3>1. PICK d \in Dirs : Create(Name, d)
      BY <1>5, <2>1 DEF MakeComponent
    <3>2. /\ entry' \in [Dirs -> [Names -> Objects \cup Links \cup {Nothing}]]
          /\ was' \in SUBSET Objects /\ RealAt(cur, Name)' \subseteq was'
      BY <1>2, <1>5, <3>1, CreateSees DEF MakeComponent, Objects
    <3>3. TypeOK' /\ Position' /\ Seen'
      BY <1>5, <3>2 DEF MakeComponent, TypeOK, Position, Seen, PCs, LeafStages, WalkStages
    <3>4. Rest
      BY <1>5 DEF MakeComponent, Examined, Missing, Opened, FileWasReal, TouchedWasChecked,
         StatWasReal
    <3> QED
      BY <3>3, <3>4
  <2>2. CASE entry[cur][Name] # Nothing
    <3>1. TypeOK' /\ Position' /\ Seen'
      BY <1>4, <1>5, <2>2 DEF MakeComponent, TypeOK, Position, PCs, LeafStages, WalkStages
    <3>2. Rest
      BY <1>5, <2>2 DEF MakeComponent, Examined, Missing, Opened, FileWasReal, TouchedWasChecked,
         StatWasReal
    <3> QED
      BY <3>1, <3>2
  <2> QED
    BY <2>1, <2>2
<1>6. CASE ExamineComponent
  <2>1. TypeOK' /\ Position' /\ Seen'
    BY <1>4, <1>6 DEF ExamineComponent, TypeOK, Position, PCs, LeafStages, WalkStages, Objects
  <2>2. Rest
    BY <1>3, <1>6 DEF ExamineComponent, Examined, Opened, FileWasReal, TouchedWasChecked,
       StatWasReal, Objects
  <2> QED
    BY <2>1, <2>2
<1>7. CASE OpenComponent
  <2>1. TypeOK' /\ Position' /\ Seen'
    BY <1>4, <1>7 DEF OpenComponent, TypeOK, Position, PCs, LeafStages, WalkStages, Objects
  <2>2. Rest
    BY <1>7 DEF OpenComponent, Examined, Opened, FileWasReal, TouchedWasChecked, StatWasReal
  <2> QED
    BY <2>1, <2>2
<1>8. CASE ConfirmComponent
  <2>1. file \in Dirs /\ at + 1 \in 1..(Len(Anchor) + 1) /\ touched = {}
    BY <1>1, <1>8 DEF ConfirmComponent, TypeOK, Position, Examined, Opened, WalkStages
  <2> QED
    BY <1>8, <2>1, EnterInv DEF ConfirmComponent, TypeOK
<1>9. CASE ExamineLeaf
  <2>1. TypeOK' /\ Position' /\ Seen'
    BY <1>2, <1>4, <1>9 DEF ExamineLeaf, TypeOK, Position, PCs, LeafStages, WalkStages, Objects
  <2>2. Rest
    BY <1>2, <1>3, <1>9 DEF ExamineLeaf, Examined, Opened, Missing, FileWasReal, TouchedWasChecked,
       StatWasReal, Objects, LeafStages
  <2> QED
    BY <2>1, <2>2
<1>10. CASE OpenExisting
  <2>1. TypeOK' /\ Position' /\ Seen'
    BY <1>4, <1>10 DEF OpenExisting, TypeOK, Position, PCs, LeafStages, WalkStages, Objects
  <2>2. Rest
    BY <1>10 DEF OpenExisting, Examined, Opened, Missing, Exclusive, FileWasReal,
       TouchedWasChecked, StatWasReal, Objects
  <2> QED
    BY <2>1, <2>2
<1>11. CASE OpenNew
  <2> DEFINE n == IF Exclusive THEN Leaf ELSE Spot(Leaf)
  <2>1. PICK f \in Files : Create(n, f) /\ file' = f
    BY <1>11 DEF OpenNew
  <2>2. n \in Names
    BY DEF Spot, Links
  <2>3. /\ entry' \in [Dirs -> [Names -> Objects \cup Links \cup {Nothing}]]
        /\ was' \in SUBSET Objects /\ was \subseteq was'
        /\ RealAt(cur, Name)' \subseteq was'
        /\ n = Name => f \in was'
    BY <1>11, <2>1, <2>2, CreateSees DEF OpenNew, Objects
  <2>4. Exclusive => f \in was'
    BY <1>2, <1>11, <2>3 DEF OpenNew, LeafStages
  <2>5. TypeOK' /\ Position' /\ Seen'
    BY <1>11, <2>1, <2>3 DEF OpenNew, TypeOK, Position, Seen, PCs, LeafStages, WalkStages, Objects
  <2>6. Rest
    BY <1>11, <2>1, <2>3, <2>4 DEF OpenNew, Examined, Opened, Missing, Exclusive, FileWasReal,
       TouchedWasChecked, StatWasReal, Objects
  <2> QED
    BY <2>5, <2>6
<1>12. CASE CheckFile
  <2>1. TypeOK' /\ Position' /\ Seen'
    BY <1>4, <1>12 DEF CheckFile, TypeOK, Position, PCs, LeafStages, WalkStages
  <2>2. scoped => file \in was
    BY <1>12 DEF CheckFile, Examined, Opened, Exclusive
  <2>3. Rest
    BY <1>12, <2>2 DEF CheckFile, Examined, Opened, FileWasReal, TouchedWasChecked, StatWasReal
  <2> QED
    BY <2>1, <2>3
<1>13. CASE UseFile
  <2>1. TypeOK' /\ Position' /\ Seen'
    BY <1>13 DEF UseFile, TypeOK, Position, Seen, PCs, LeafStages, WalkStages
  <2>2. Rest
    BY <1>13 DEF UseFile, Position, Examined, Opened, FileWasReal, TouchedWasChecked, StatWasReal
  <2> QED
    BY <2>1, <2>2
<1>14. CASE StatLeaf
  <2>1. TypeOK' /\ Position' /\ Seen'
    BY <1>14 DEF StatLeaf, TypeOK, Position, Seen, PCs, LeafStages, WalkStages
  <2>2. Rest
    BY <1>14 DEF StatLeaf, Examined, Opened, FileWasReal, TouchedWasChecked, StatWasReal
  <2> QED
    BY <2>1, <2>2
<1>15. CASE MakeLeaf
  <2>1. CASE entry[cur][Leaf] = Nothing
    <3>1. PICK d \in Dirs : Create(Leaf, d)
      BY <1>15, <2>1 DEF MakeLeaf
    <3>2. /\ entry' \in [Dirs -> [Names -> Objects \cup Links \cup {Nothing}]]
          /\ was' \in SUBSET Objects
      BY <1>15, <3>1, CreateSees DEF MakeLeaf, Objects
    <3>3. TypeOK' /\ Position' /\ Seen'
      BY <1>15, <2>1, <3>2 DEF MakeLeaf, TypeOK, Position, Seen, PCs, LeafStages, WalkStages
    <3>4. Rest
      BY <1>15, <2>1 DEF MakeLeaf, Examined, Missing, Opened, FileWasReal, TouchedWasChecked,
         StatWasReal
    <3> QED
      BY <3>3, <3>4
  <2>2. CASE entry[cur][Leaf] # Nothing
    <3>1. TypeOK' /\ Position' /\ Seen'
      BY <1>4, <1>15, <2>2 DEF MakeLeaf, TypeOK, Position, PCs, LeafStages, WalkStages
    <3>2. Rest
      BY <1>15, <2>2 DEF MakeLeaf, Examined, Missing, Opened, FileWasReal, TouchedWasChecked,
         StatWasReal
    <3> QED
      BY <3>1, <3>2
  <2> QED
    BY <2>1, <2>2
<1>16. CASE AcceptDirectory
  BY <1>16 DEF AcceptDirectory, TypeOK, Position, Seen, PCs, LeafStages, WalkStages,
     Examined, Opened, FileWasReal, TouchedWasChecked, StatWasReal
<1>17. CASE RemoveLeaf
  <2>1. entry' \in [Dirs -> [Names -> Objects \cup Links \cup {Nothing}]]
    BY <1>17 DEF RemoveLeaf, TypeOK
  <2>2. TypeOK' /\ Position' /\ Seen'
    BY <1>17, <2>1 DEF RemoveLeaf, TypeOK, Position, Seen, PCs, LeafStages, WalkStages
  <2>3. Rest
    BY <1>17 DEF RemoveLeaf, Examined, Opened, FileWasReal, TouchedWasChecked, StatWasReal
  <2> QED
    BY <2>2, <2>3
<1>18. CASE Fail
  <2>1. TypeOK' /\ Position' /\ Seen'
    BY <1>18 DEF Fail, TypeOK, Position, Seen, PCs, LeafStages, WalkStages
  <2>2. Rest
    BY <1>18 DEF Fail, Examined, Opened, FileWasReal, TouchedWasChecked, StatWasReal
  <2> QED
    BY <2>1, <2>2
<1>19. CASE Finish
  <2>1. TypeOK'
    <3>1. op' \in Ops /\ pc' \in PCs /\ scoped' \in BOOLEAN
      BY <1>19 DEF Finish, Ops, PCs
    <3>2. at' \in 1..(Len(Anchor) + 1) /\ cur' \in Dirs
      BY <1>1, <1>19 DEF Finish
    <3> QED
      BY <1>19, <3>1, <3>2 DEF Finish, TypeOK
  <2>2. Position' /\ Seen'
    BY <1>19 DEF Finish, Position, Seen, LeafStages, WalkStages
  <2>3. Rest
    BY <1>19 DEF Finish, Examined, Opened, FileWasReal, TouchedWasChecked, StatWasReal
  <2> QED
    BY <2>1, <2>2, <2>3
<1> QED
  BY <1>5, <1>6, <1>7, <1>8, <1>9, <1>10, <1>11, <1>12, <1>13, <1>14, <1>15,
     <1>16, <1>17, <1>18, <1>19 DEF Operate

LEMMA NextInv == Inv /\ [Next]_vars => Inv'
<1> SUFFICES ASSUME Inv, [Next]_vars PROVE Inv'
  OBVIOUS
<1>1. CASE \E k \in Ops, s \in BOOLEAN : Start(k, s)
  <2>1. PICK k \in Ops, s \in BOOLEAN : Start(k, s)
    BY <1>1
  <2>2. (IF s THEN 1 ELSE Len(Anchor) + 1) \in 1..(Len(Anchor) + 1)
    OBVIOUS
  <2> QED
    BY <2>1, <2>2, EnterInv DEF Start
<1>2. CASE Operate
  BY <1>2, OperateInv
<1>3. CASE \E d \in Dirs, n \in Names, e \in Objects \cup Links \cup {Nothing} : Interfere(d, n, e)
  BY <1>3, InterfereInv
<1>4. CASE UNCHANGED vars
  BY <1>4 DEF vars, Inv, TypeOK, Position, Seen, RealAt, Name, NameAt, Examined, Opened,
     Missing, Exclusive, FileWasReal, TouchedWasChecked, StatWasReal
<1> QED
  BY <1>1, <1>2, <1>3, <1>4 DEF Next

\* The inductive invariant holds in every behaviour of the operation.
THEOREM Invariance == Spec => []Inv
BY InitInv, NextInv, PTL DEF Spec

\* The variables keep their types: nothing but a regular file is ever touched.
THEOREM PinnedTypeCorrect == Spec => []TypeOK
<1>1. Inv => TypeOK
  BY DEF Inv
<1> QED
  BY Invariance, <1>1, PTL

\* What an operation reads or writes is a regular file, below an anchor one that
\* really was the leaf (openRegularFile).
THEOREM UsedFilesWereReal == Spec => []FileWasReal
<1>1. Inv => FileWasReal
  BY DEF Inv
<1> QED
  BY Invariance, <1>1, PTL

\* No file is truncated through a raced link (regular.go: truncation comes last).
THEOREM TouchedFilesWereChecked == Spec => []TouchedWasChecked
<1>1. Inv => TouchedWasChecked
  BY DEF Inv
<1> QED
  BY Invariance, <1>1, PTL

\* A scoped Stat never describes the target of a link (walk.go).
THEOREM ScopedStatWasReal == Spec => []StatWasReal
<1>1. Inv => StatWasReal
  BY DEF Inv
<1> QED
  BY Invariance, <1>1, PTL

\* What an operation reads, writes, truncates or describes was really its leaf.
THEOREM LeavesWereReal == Spec => []LeafWasReal
<1>1. FileWasReal /\ TouchedWasChecked /\ StatWasReal => LeafWasReal
  BY DEF LeafWasReal
<1> QED
  BY <1>1, UsedFilesWereReal, TouchedFilesWereChecked, ScopedStatWasReal, PTL

\* Every component the walk to an anchor of any length enters was really the
\* entry of its name (openPinnedDirectoryContext in archive.go).
THEOREM AnchorsWereReal == Spec => AnchorWasReal
<1>1. Inv /\ [Next]_vars => [pc # "idle" /\ at' > at => cur' \in Dirs /\ cur' \in was]_vars
  <2> SUFFICES ASSUME Inv, Next, pc # "idle", at' > at
               PROVE  cur' \in Dirs /\ cur' \in was
    BY DEF vars
  <2>1. at \in Nat /\ at >= 1
    BY DEF Inv, TypeOK
  <2>2. ConfirmComponent
    BY <2>1 DEF Next, Start, Operate, Interfere, MakeComponent, ExamineComponent,
       OpenComponent, ExamineLeaf, OpenExisting, OpenNew, CheckFile, UseFile, StatLeaf,
       MakeLeaf, AcceptDirectory, RemoveLeaf, Fail, Finish
  <2> QED
    BY <2>2 DEF ConfirmComponent, Enter, Inv, Examined
<1> QED
  BY Invariance, <1>1, PTL DEF Spec, AnchorWasReal

-----------------------------------------------------------------------------
(* MkdirAll, for any number of callers and paths of any length.            *)
HIDE PinnedFileAssumption
USE MkdirAssumption

\* What a caller under way relies on.
OnCourse(c) ==
  /\ depth[c] \in DOMAIN goal[c]
  /\ Underway(c) =>
       \A i \in DOMAIN goal[c] :
         /\ i < depth[c] => goal[c][i] \in hasBeen[c]
         /\ kind[goal[c][i]] = "dir" => goal[c][i] \in hasBeen[c]
  /\ Underway(c) /\ ~disturbed[c] =>
       /\ \A i \in DOMAIN goal[c] : /\ i < depth[c] => kind[goal[c][i]] = "dir"
                                    /\ kind[goal[c][i]] # "file"
       /\ mkStep[c] = "stat" => kind[Target(c)] = "dir"

Settled(c) ==
  /\ mkStep[c] = "failed" => disturbed[c]
  /\ mkStep[c] = "made" =>
       \A i \in DOMAIN goal[c] : /\ goal[c][i] \in hasBeen[c]
                                 /\ ~disturbed[c] => kind[goal[c][i]] = "dir"

MkdirInv == MkdirTypeOK /\ \A c \in Callers : OnCourse(c) /\ Settled(c)

LEMMA PathsOfGoals ==
  ASSUME NEW g \in Goals
  PROVE  /\ g \in Seq(Places) /\ Len(g) \in Nat /\ Len(g) >= 1 /\ DOMAIN g = 1..Len(g)
         /\ \A i \in DOMAIN g : g[i] \in Places
         /\ Upper[g[1]] = RootDir
         /\ \A i \in DOMAIN g : i # 1 => i - 1 \in DOMAIN g /\ Upper[g[i]] = g[i - 1]
<1>1. g \in Seq(Places) /\ g # <<>>
  OBVIOUS
<1>2. Len(g) \in Nat /\ Len(g) >= 1 /\ DOMAIN g = 1..Len(g)
  BY <1>1
<1> QED
  BY <1>1, <1>2

LEMMA MkdirInitInv == MkdirInit => MkdirInv
<1> SUFFICES ASSUME MkdirInit PROVE MkdirInv
  OBVIOUS
<1>1. MkdirTypeOK
  BY DEF MkdirInit, MkdirTypeOK, Kinds, MkSteps
<1>2. ASSUME NEW c \in Callers PROVE OnCourse(c) /\ Settled(c)
  <2>1. goal[c] \in Goals
    BY DEF MkdirInit
  <2>2. 1 \in DOMAIN goal[c]
    BY <2>1, PathsOfGoals
  <2> QED
    BY <2>1, <2>2 DEF MkdirInit, OnCourse, Settled, Underway
<1> QED
  BY <1>1, <1>2 DEF MkdirInv

\* A directory made where nothing was, by whomever, takes nothing away from a caller.
LEMMA MadeDirectoryKeeps ==
  ASSUME MkdirInv, NEW c \in Callers, NEW p \in Places, kind[p] = "none", SetKind(p, "dir"),
         mkStep'[c] = mkStep[c], goal'[c] = goal[c], depth'[c] = depth[c],
         disturbed'[c] = disturbed[c]
  PROVE  (OnCourse(c) /\ Settled(c))'
<1>1. \A q \in Places : kind'[q] = IF q = p THEN "dir" ELSE kind[q]
  BY DEF SetKind, MkdirInv, MkdirTypeOK
<1>2. hasBeen'[c] = hasBeen[c] \cup {p}
  BY DEF SetKind
<1>3. goal[c] \in Goals
  BY DEF MkdirInv, MkdirTypeOK
<1>4. \A i \in DOMAIN goal[c] : goal[c][i] \in Places
  BY <1>3, PathsOfGoals
<1>5. OnCourse(c) /\ Settled(c)
  BY DEF MkdirInv
<1> QED
  BY <1>1, <1>2, <1>4, <1>5 DEF OnCourse, Settled, Underway, Target

\* What others remove, or the files they put there, disturb every caller they concern.
LEMMA DisturbanceIsNoted ==
  ASSUME MkdirInv, NEW c \in Callers, NEW p \in Places, NEW k \in {"none", "file"},
         SomebodyElse(p, k)
  PROVE  (OnCourse(c) /\ Settled(c))'
<1>1. /\ \A q \in Places : kind'[q] = IF q = p THEN k ELSE kind[q]
      /\ hasBeen' = hasBeen /\ mkStep' = mkStep /\ goal' = goal /\ depth' = depth
  BY DEF SomebodyElse, SetKind, MkdirInv, MkdirTypeOK
<1>2. disturbed'[c] = (disturbed[c] \/ p \in OnTheWay(c))
  BY Zenon DEF SomebodyElse
<1>3. goal[c] \in Goals
  BY DEF MkdirInv, MkdirTypeOK
<1>4. \A i \in DOMAIN goal[c] : goal[c][i] \in Places
  BY <1>3, PathsOfGoals
<1>5. OnCourse(c) /\ Settled(c)
  BY DEF MkdirInv
<1>6. CASE p \in OnTheWay(c)
  <2>1. disturbed'[c]
    BY <1>2, <1>6
  <2> QED
    BY <1>1, <1>4, <1>5, <2>1 DEF OnCourse, Settled, Underway, Target
<1>7. CASE p \notin OnTheWay(c)
  <2>1. disturbed'[c] = disturbed[c]
    <3>1. disturbed[c] \in BOOLEAN
      BY DEF MkdirInv, MkdirTypeOK
    <3> QED
      BY <1>2, <1>7, <3>1
  <2>2. \A i \in DOMAIN goal[c] : kind'[goal[c][i]] = kind[goal[c][i]]
    BY <1>1, <1>4, <1>7 DEF OnTheWay
  <2> QED
    BY <1>1, <1>5, <2>1, <2>2 DEF OnCourse, Settled, Underway, Target
<1> QED
  BY <1>6, <1>7

\* After a name that is now a directory the caller goes on or has succeeded.
LEMMA AdvanceKeeps ==
  ASSUME MkdirInv, NEW c \in Callers, Underway(c),
         goal' = goal, disturbed' = disturbed, Advance(c),
         Target(c) \in hasBeen'[c], kind'[Target(c)] = "dir",
         \A i \in DOMAIN goal[c] :
           /\ goal[c][i] \in hasBeen[c] => goal[c][i] \in hasBeen'[c]
           /\ kind[goal[c][i]] # "none" => kind'[goal[c][i]] = kind[goal[c][i]]
           /\ kind'[goal[c][i]] = "dir" => goal[c][i] \in hasBeen'[c]
           /\ kind'[goal[c][i]] # "file" \/ kind[goal[c][i]] = "file"
  PROVE  (OnCourse(c) /\ Settled(c))'
<1>1. goal[c] \in Goals /\ depth[c] \in Nat \ {0}
  BY DEF MkdirInv, MkdirTypeOK
<1>2. Len(goal[c]) \in Nat /\ DOMAIN goal[c] = 1..Len(goal[c])
  BY <1>1, PathsOfGoals
<1>3. OnCourse(c)
  BY DEF MkdirInv
<1>4. /\ mkStep'[c] = IF depth[c] = Len(goal[c]) THEN "made" ELSE "mkdir"
      /\ depth'[c] = IF depth[c] = Len(goal[c]) THEN depth[c] ELSE depth[c] + 1
  BY DEF Advance, MkdirInv, MkdirTypeOK
<1>5. \A i \in DOMAIN goal[c] : i <= depth[c] =>
        goal[c][i] \in hasBeen'[c] /\ (~disturbed[c] => kind'[goal[c][i]] = "dir")
  <2> SUFFICES ASSUME NEW i \in DOMAIN goal[c], i <= depth[c]
               PROVE  goal[c][i] \in hasBeen'[c] /\ (~disturbed[c] => kind'[goal[c][i]] = "dir")
    OBVIOUS
  <2>1. CASE i = depth[c]
    BY <2>1 DEF Target
  <2>2. CASE i < depth[c]
    <3>1. goal[c][i] \in hasBeen[c] /\ (~disturbed[c] => kind[goal[c][i]] = "dir")
      BY <1>3, <2>2 DEF OnCourse
    <3> QED
      BY <3>1
  <2> QED
    BY <1>1, <1>2, <2>1, <2>2
<1>6. CASE depth[c] = Len(goal[c])
  <2>1. mkStep'[c] = "made" /\ depth'[c] = depth[c]
    BY <1>4, <1>6
  <2> QED
    BY <1>1, <1>2, <1>3, <1>5, <1>6, <2>1 DEF OnCourse, Settled, Underway
<1>7. CASE depth[c] # Len(goal[c])
  <2>1. mkStep'[c] = "mkdir" /\ depth'[c] = depth[c] + 1
    BY <1>4, <1>7
  <2>2. depth[c] + 1 \in DOMAIN goal[c]
    BY <1>1, <1>2, <1>3, <1>7 DEF OnCourse
  <2>3. ~disturbed[c] => \A i \in DOMAIN goal[c] : kind'[goal[c][i]] # "file"
    BY <1>3 DEF OnCourse
  <2> QED
    BY <1>1, <1>2, <1>5, <2>1, <2>2, <2>3 DEF OnCourse, Settled, Underway
<1> QED
  BY <1>6, <1>7

LEMMA TargetIsPlace ==
  ASSUME MkdirInv, NEW c \in Callers
  PROVE  Target(c) \in Places
BY PathsOfGoals DEF MkdirInv, MkdirTypeOK, OnCourse, Target

LEMMA MkdirTypes == MkdirInv /\ MkdirNext => MkdirTypeOK'
<1> SUFFICES ASSUME MkdirInv, MkdirNext PROVE MkdirTypeOK'
  OBVIOUS
<1> MkdirTypeOK
  BY DEF MkdirInv
<1>1. \A c \in Callers : goal[c] \in Goals /\ Len(goal[c]) \in Nat
  BY PathsOfGoals DEF MkdirTypeOK
<1>2. ASSUME NEW c \in Callers, Advance(c)
     PROVE  mkStep' \in [Callers -> MkSteps] /\ depth' \in [Callers -> Nat \ {0}]
  BY <1>1, <1>2 DEF Advance, MkdirTypeOK, MkSteps
<1>3. ASSUME NEW p \in Places, NEW k \in Kinds, SetKind(p, k)
      PROVE  kind' \in [Places -> Kinds] /\ hasBeen' \in [Callers -> SUBSET Places]
  BY <1>3 DEF SetKind, MkdirTypeOK
<1>4. ASSUME NEW c \in Callers, NEW g \in Goals, StartMkdirAll(c, g) PROVE MkdirTypeOK'
  BY <1>4 DEF StartMkdirAll, MkdirTypeOK, MkSteps
<1>5. ASSUME NEW c \in Callers, MakeName(c) PROVE MkdirTypeOK'
  <2>1. Target(c) \in Places
    BY TargetIsPlace
  <2>2. kind' \in [Places -> Kinds]
    BY <1>5 DEF MakeName, SetKind, MkdirTypeOK, Kinds
  <2>3. hasBeen' \in [Callers -> SUBSET Places]
    BY <1>3, <1>5, <2>1 DEF MakeName, Kinds
  <2> QED
    BY <1>2, <1>5, <2>2, <2>3 DEF MakeName, MkdirTypeOK
<1>6. ASSUME NEW c \in Callers, NameExists(c) \/ AcceptDirectoryThere(c) PROVE MkdirTypeOK'
  BY <1>2, <1>6 DEF NameExists, AcceptDirectoryThere, MkdirTypeOK, MkSteps
<1>7. ASSUME NEW c \in Callers, FailMkdirAll(c) \/ SystemRefuses(c) PROVE MkdirTypeOK'
  BY <1>7 DEF FailMkdirAll, SystemRefuses, MkdirTypeOK, MkSteps
<1>8. ASSUME NEW p \in Places, NEW k \in Kinds, SomebodyElse(p, k) PROVE MkdirTypeOK'
  <2>1. kind' \in [Places -> Kinds] /\ hasBeen' \in [Callers -> SUBSET Places]
    BY <1>3, <1>8 DEF SomebodyElse
  <2>2. disturbed' \in [Callers -> BOOLEAN]
    BY <1>8 DEF SomebodyElse, MkdirTypeOK
  <2> QED
    BY <1>8, <2>1, <2>2 DEF SomebodyElse, MkdirTypeOK
<1> QED
  BY <1>4, <1>5, <1>6, <1>7, <1>8 DEF MkdirNext, Put, Remove, Kinds

\* A step of one caller that changes nothing but its own stage.
LEMMA OthersUndisturbed ==
  ASSUME MkdirInv, NEW c \in Callers, kind' = kind, hasBeen'[c] = hasBeen[c],
         mkStep'[c] = mkStep[c], goal'[c] = goal[c], depth'[c] = depth[c],
         disturbed'[c] = disturbed[c]
  PROVE  (OnCourse(c) /\ Settled(c))'
<1>1. OnCourse(c) /\ Settled(c)
  BY DEF MkdirInv
<1> QED
  BY <1>1 DEF OnCourse, Settled, Underway, Target

LEMMA MkdirNextInv == MkdirInv /\ [MkdirNext]_mkVars => MkdirInv'
<1> SUFFICES ASSUME MkdirInv, [MkdirNext]_mkVars PROVE MkdirInv'
  OBVIOUS
<1>1. MkdirTypeOK
  BY DEF MkdirInv
<1>2. CASE UNCHANGED mkVars
  <2>1. \A c \in Callers : (OnCourse(c) /\ Settled(c))'
    BY <1>2, OthersUndisturbed DEF mkVars
  <2> QED
    BY <1>1, <1>2, <2>1 DEF MkdirInv, MkdirTypeOK, mkVars
<1>3. CASE MkdirNext
  <2>1. MkdirTypeOK'
    BY <1>3, MkdirTypes
  <2>2. ASSUME NEW c \in Callers PROVE (OnCourse(c) /\ Settled(c))'
    <3>1. ASSUME NEW b \in Callers, NEW g \in Goals, StartMkdirAll(b, g)
          PROVE  (OnCourse(c) /\ Settled(c))'
      <4>1. CASE b = c
        <5>1. /\ mkStep'[c] = "mkdir" /\ goal'[c] = g /\ depth'[c] = 1 /\ kind' = kind
              /\ hasBeen'[c] = {p \in Places : kind[p] = "dir"}
              /\ disturbed'[c] = (\E i \in DOMAIN g : kind[g[i]] = "file")
          BY <1>1, <3>1, <4>1 DEF StartMkdirAll, MkdirTypeOK
        <5>2. 1 \in DOMAIN g /\ DOMAIN g \subseteq Nat \ {0} /\ \A i \in DOMAIN g : g[i] \in Places
          BY PathsOfGoals
        <5> QED
          BY <5>1, <5>2 DEF OnCourse, Settled, Underway
      <4>2. CASE b # c
        <5>1. /\ kind' = kind /\ hasBeen'[c] = hasBeen[c] /\ mkStep'[c] = mkStep[c]
              /\ goal'[c] = goal[c] /\ depth'[c] = depth[c] /\ disturbed'[c] = disturbed[c]
          BY <1>1, <3>1, <4>2 DEF StartMkdirAll, MkdirTypeOK
        <5> QED
          BY <5>1, OthersUndisturbed
      <4> QED
        BY <4>1, <4>2
    <3>2. ASSUME NEW b \in Callers, MakeName(b) PROVE (OnCourse(c) /\ Settled(c))'
      <4>1. Target(b) \in Places /\ goal' = goal /\ disturbed' = disturbed
        BY <3>2, TargetIsPlace DEF MakeName
      <4>2. CASE b = c
        <5>1. /\ \A q \in Places : kind'[q] = IF q = Target(c) THEN "dir" ELSE kind[q]
              /\ hasBeen'[c] = hasBeen[c] \cup {Target(c)} /\ kind[Target(c)] = "none"
          BY <1>1, <3>2, <4>2 DEF MakeName, SetKind, MkdirTypeOK
        <5>2. \A i \in DOMAIN goal[c] : goal[c][i] \in Places
          BY <1>1, PathsOfGoals DEF MkdirTypeOK
        <5>3. Underway(c) /\ Advance(c)
          BY <3>2, <4>2 DEF MakeName, Underway
        <5>4. \A i \in DOMAIN goal[c] : kind[goal[c][i]] = "dir" => goal[c][i] \in hasBeen[c]
          BY <5>3 DEF MkdirInv, OnCourse
        <5> QED
          BY <4>1, <4>2, <5>1, <5>2, <5>3, <5>4, AdvanceKeeps
      <4>3. CASE b # c
        <5>1. mkStep'[c] = mkStep[c] /\ depth'[c] = depth[c]
          BY <1>1, <3>2, <4>3 DEF MakeName, Advance, MkdirTypeOK
        <5> QED
          BY <3>2, <4>1, <5>1, MadeDirectoryKeeps DEF MakeName
      <4> QED
        BY <4>2, <4>3
    <3>3. ASSUME NEW b \in Callers, NameExists(b) PROVE (OnCourse(c) /\ Settled(c))'
      <4>1. /\ kind' = kind /\ hasBeen' = hasBeen /\ goal' = goal
            /\ depth' = depth /\ disturbed' = disturbed
        BY <3>3 DEF NameExists
      <4>2. CASE b = c
        <5>1. mkStep[c] = "mkdir" /\ mkStep'[c] = "stat" /\ kind[Target(c)] # "none"
          BY <1>1, <3>3, <4>2 DEF NameExists, MkdirTypeOK
        <5>2. OnCourse(c) /\ Settled(c) /\ kind[Target(c)] \in Kinds
          BY <1>1, TargetIsPlace DEF MkdirInv, MkdirTypeOK
        <5>3. ~disturbed[c] => kind[Target(c)] = "dir"
          BY <5>1, <5>2 DEF OnCourse, Underway, Target, Kinds
        <5> QED
          BY <4>1, <5>1, <5>2, <5>3 DEF OnCourse, Settled, Underway, Target
      <4>3. CASE b # c
        <5>1. mkStep'[c] = mkStep[c]
          BY <1>1, <3>3, <4>3 DEF NameExists, MkdirTypeOK
        <5> QED
          BY <4>1, <5>1, OthersUndisturbed
      <4> QED
        BY <4>2, <4>3
    <3>4. ASSUME NEW b \in Callers, AcceptDirectoryThere(b) PROVE (OnCourse(c) /\ Settled(c))'
      <4>1. kind' = kind /\ hasBeen' = hasBeen /\ goal' = goal /\ disturbed' = disturbed
        BY <3>4 DEF AcceptDirectoryThere
      <4>2. CASE b = c
        <5>1. Underway(c) /\ Advance(c) /\ IsDirectory(Target(c))
          BY <3>4, <4>2 DEF AcceptDirectoryThere, Underway
        <5>2. kind[Target(c)] = "dir"
          BY <5>1, TargetIsPlace DEF IsDirectory
        <5>3. OnCourse(c)
          BY DEF MkdirInv
        <5>4. \A i \in DOMAIN goal[c] : kind[goal[c][i]] = "dir" => goal[c][i] \in hasBeen[c]
          BY <5>1, <5>3 DEF OnCourse
        <5>5. Target(c) \in hasBeen[c]
          BY <5>2, <5>3, <5>4 DEF OnCourse, Target
        <5> QED
          BY <4>1, <5>1, <5>2, <5>4, <5>5, AdvanceKeeps
      <4>3. CASE b # c
        <5>1. mkStep'[c] = mkStep[c] /\ depth'[c] = depth[c]
          BY <1>1, <3>4, <4>3 DEF AcceptDirectoryThere, Advance, MkdirTypeOK
        <5> QED
          BY <4>1, <5>1, OthersUndisturbed
      <4> QED
        BY <4>2, <4>3
    <3>5. ASSUME NEW b \in Callers, FailMkdirAll(b) \/ SystemRefuses(b)
          PROVE  (OnCourse(c) /\ Settled(c))'
      <4>1. kind' = kind /\ hasBeen' = hasBeen /\ goal' = goal /\ depth' = depth
        BY <3>5 DEF FailMkdirAll, SystemRefuses
      <4>2. CASE b = c
        <5>1. mkStep'[c] = "failed" /\ OnCourse(c)
          BY <1>1, <3>5, <4>2 DEF FailMkdirAll, SystemRefuses, MkdirTypeOK, MkdirInv
        <5>2. disturbed'[c]
          <6>1. CASE SystemRefuses(b)
            BY <1>1, <4>2, <6>1 DEF SystemRefuses, MkdirTypeOK
          <6>2. CASE FailMkdirAll(b)
            <7> SUFFICES ASSUME ~disturbed[c] PROVE FALSE
              BY <6>2 DEF FailMkdirAll
            <7>1. Underway(c) /\ goal[c] \in Goals
              BY <1>1, <4>2, <6>2 DEF FailMkdirAll, Underway, MkdirTypeOK
            <7>2. mkStep[c] = "stat" => IsDirectory(Target(c))
              BY <5>1, <7>1 DEF OnCourse, IsDirectory
            <7>3. IsDirectory(Upper[Target(c)])
              <8>1. CASE depth[c] = 1
                BY <7>1, <8>1, PathsOfGoals DEF Target, IsDirectory
              <8>2. CASE depth[c] # 1
                <9>1. /\ depth[c] \in DOMAIN goal[c] /\ depth[c] - 1 \in DOMAIN goal[c]
                      /\ depth[c] - 1 < depth[c] /\ Upper[Target(c)] = goal[c][depth[c] - 1]
                  BY <1>1, <5>1, <7>1, <8>2, PathsOfGoals DEF OnCourse, Target, MkdirTypeOK
                <9>2. kind[goal[c][depth[c] - 1]] = "dir"
                  BY <5>1, <7>1, <9>1 DEF OnCourse
                <9> QED
                  BY <9>1, <9>2 DEF IsDirectory
              <8> QED
                BY <8>1, <8>2
            <7> QED
              BY <4>2, <6>2, <7>2, <7>3 DEF FailMkdirAll
          <6> QED
            BY <3>5, <6>1, <6>2
        <5> QED
          BY <4>1, <5>1, <5>2 DEF OnCourse, Settled, Underway
      <4>3. CASE b # c
        <5>1. mkStep'[c] = mkStep[c] /\ disturbed'[c] = disturbed[c]
          BY <1>1, <3>5, <4>3 DEF FailMkdirAll, SystemRefuses, MkdirTypeOK
        <5> QED
          BY <4>1, <5>1, OthersUndisturbed
      <4> QED
        BY <4>2, <4>3
    <3>6. ASSUME NEW p \in Places, Put(p, "file") \/ Remove(p)
          PROVE  (OnCourse(c) /\ Settled(c))'
      BY <3>6, DisturbanceIsNoted DEF Put, Remove
    <3>7. ASSUME NEW p \in Places, Put(p, "dir") PROVE (OnCourse(c) /\ Settled(c))'
      <4>1. disturbed'[c] = disturbed[c]
        BY <1>1, <3>7 DEF Put, SomebodyElse, MkdirTypeOK
      <4> QED
        BY <3>7, <4>1, MadeDirectoryKeeps DEF Put, SomebodyElse
    <3> QED
      BY <1>3, <3>1, <3>2, <3>3, <3>4, <3>5, <3>6, <3>7 DEF MkdirNext
  <2> QED
    BY <2>1, <2>2 DEF MkdirInv
<1> QED
  BY <1>2, <1>3

LEMMA MkdirInvariance == MkdirSpec => []MkdirInv
BY MkdirInitInv, MkdirNextInv, PTL DEF MkdirSpec

\* The variables of MkdirAll's calls keep their types.
THEOREM MkdirTypeCorrect == MkdirSpec => []MkdirTypeOK
<1>1. MkdirInv => MkdirTypeOK
  BY DEF MkdirInv
<1> QED
  BY MkdirInvariance, <1>1, PTL

\* Any number of callers at once, and whatever earlier failed calls left behind,
\* never make a call fail (ErrExist and Stat in mkdir.go).
THEOREM MkdirFailsOnlyWithReason == MkdirSpec => []FailsOnlyWithReason
<1>1. MkdirInv => FailsOnlyWithReason
  BY DEF MkdirInv, Settled, FailsOnlyWithReason
<1> QED
  BY MkdirInvariance, <1>1, PTL

\* A call that succeeds has met or made a directory at every name of a path of any
\* length (IsDir in mkdir.go).
THEOREM MkdirMakesThePath == MkdirSpec => []SuccessMadeThePath
<1>1. MkdirInv => SuccessMadeThePath
  BY DEF MkdirInv, Settled, SuccessMadeThePath, OnTheWay
<1> QED
  BY MkdirInvariance, <1>1, PTL

\* Errors and successes of MkdirAll mean what they say (mkdir.go).
THEOREM MkdirAnswersAreRight == MkdirSpec => []AnswersAreRight
<1>1. FailsOnlyWithReason /\ SuccessMadeThePath => AnswersAreRight
  BY DEF AnswersAreRight
<1> QED
  BY <1>1, MkdirFailsOnlyWithReason, MkdirMakesThePath, PTL

-----------------------------------------------------------------------------
(* RootBinding, for any configurations, names and directories.             *)
HIDE MkdirAssumption
USE RootBindingAssumption

Comparing == {"alias", "sameAlias", "real", "sameReal", "keep"}
InHand    == {"identify", "resolve"} \cup Comparing

\* A root that is in hand is configured, new and open.
RootInHand ==
  bindStep \in InHand =>
    turn <= Len(given) /\ Alias \in HostNames /\ ~AlreadyBound(Alias) /\ root \in HostDirs

\* Which handles are open at which stage.
HandlesByStage ==
  open = IF bindStep \in {"refused", "closed"} THEN {}
         ELSE IF bindStep \in {"next", "started"} THEN KeptHandles
         ELSE IF bindStep \in {"sameAlias", "sameReal"}
         THEN KeptHandles \cup {ToKeep(turn), ToCompare(turn)}
         ELSE KeptHandles \cup {ToKeep(turn)}

\* The history has what each name leads to now, and what was compared with the root.
Witnessed ==
  bindStep \in Comparing =>
    /\ resolved \in HostNames
    /\ \A n \in HostNames : leads[n] \in wasAt[n]
    /\ bindStep = "sameAlias" => candidate \in wasAt[Alias]
    /\ bindStep \in {"real", "sameReal", "keep"} => root \in wasAt[Alias]
    /\ bindStep = "sameReal" => candidate \in wasAt[resolved]
    /\ bindStep = "keep" => root \in wasAt[resolved]

\* The roots bound so far are the configured ones before this turn, each once.
BoundSoFar ==
  bindStep \notin {"refused", "closed"} =>
    /\ \A i \in DOMAIN bound : \E j \in 1..(turn - 1) : given[j] = bound[i].alias
    /\ \A j \in 1..(turn - 1) : AlreadyBound(given[j])
    /\ \A i, j \in DOMAIN bound : bound[i].alias = bound[j].alias => i = j
    /\ bindStep = "started" => turn = Len(given) + 1

BindInv == BindTypeOK /\ RootInHand /\ HandlesByStage /\ Witnessed /\ BoundSoFar

LEMMA BindInitInv == BindInit => BindInv
<1> SUFFICES ASSUME BindInit PROVE BindInv
  OBVIOUS
<1>1. Len(given) \in Nat /\ given \in Configurations
  BY DEF BindInit
<1>2. bound \in Seq(Bindings)
  BY DEF BindInit
<1>3. BindTypeOK
  BY <1>1, <1>2 DEF BindInit, BindTypeOK, BindSteps
<1>4. HandlesByStage
  BY DEF BindInit, HandlesByStage, KeptHandles
<1>5. RootInHand /\ Witnessed
  BY DEF BindInit, RootInHand, Witnessed, InHand, Comparing
<1>6. BoundSoFar
  BY DEF BindInit, BoundSoFar
<1> QED
  BY <1>3, <1>4, <1>5, <1>6 DEF BindInv

LEMMA GivenNames ==
  ASSUME BindInv, turn <= Len(given), Alias # Invalid
  PROVE  Alias \in HostNames /\ turn \in DOMAIN given
<1>1. given \in Seq(HostNames \cup {Invalid}) /\ turn \in 1..(Len(given) + 1)
  BY DEF BindInv, BindTypeOK
<1> QED
  BY <1>1 DEF Alias

LEMMA BindTypes == BindInv /\ BindNext => BindTypeOK'
<1> SUFFICES ASSUME BindInv, BindNext PROVE BindTypeOK'
  OBVIOUS
<1> USE DEF BindTypeOK, BindSteps
<1>0. Len(given) \in Nat /\ BindTypeOK /\ turn \in Nat
  BY DEF BindInv
<1>1. ASSUME NEW n \in HostNames, NEW d \in HostDirs \cup {NoDir}, Move(n, d) PROVE BindTypeOK'
  BY <1>0, <1>1 DEF Move
<1>2. CASE SkipSeen
  BY <1>0, <1>2 DEF SkipSeen
<1>3. CASE OpenAlias
  BY <1>0, <1>3, GivenNames DEF OpenAlias, ToKeep
<1>4. CASE Identify
  BY <1>0, <1>4 DEF Identify
<1>5. CASE ResolveAlias
  BY <1>0, <1>5 DEF ResolveAlias
<1>6. CASE CompareNames
  BY <1>0, <1>6 DEF CompareNames, OpenCandidate, AcceptCandidate, ToCompare, BindInv, RootInHand,
     Witnessed, InHand, Comparing
<1>7. CASE KeepRoot
  <2>1. Alias \in HostNames /\ resolved \in HostNames /\ root \in HostDirs /\ turn <= Len(given)
    BY <1>7 DEF KeepRoot, BindInv, RootInHand, Witnessed, InHand, Comparing
  <2>2. [turn |-> turn, alias |-> Alias, path |-> resolved, dir |-> root] \in Bindings
    BY <1>0, <2>1 DEF Bindings
  <2>3. bound' \in Seq(Bindings)
    BY <1>0, <1>7, <2>2 DEF KeepRoot
  <2> QED
    BY <1>0, <1>7, <2>1, <2>3 DEF KeepRoot
<1>8. CASE StartServer
  BY <1>0, <1>8 DEF StartServer
<1>9. CASE RefuseToStart
  BY <1>0, <1>9 DEF RefuseToStart
<1>10. CASE CloseServer
  BY <1>0, <1>10 DEF CloseServer
<1> QED
  BY <1>1, <1>2, <1>3, <1>4, <1>5, <1>6, <1>7, <1>8, <1>9, <1>10 DEF BindNext

LEMMA BindHandles == BindInv /\ BindNext => HandlesByStage'
<1> SUFFICES ASSUME BindInv, BindNext PROVE HandlesByStage'
  OBVIOUS
<1> USE DEF HandlesByStage
<1>0. HandlesByStage /\ bindStep \in BindSteps
  BY DEF BindInv, BindTypeOK
<1>1. /\ bound' = bound => KeptHandles' = KeptHandles
      /\ ToCompare(turn) \notin KeptHandles /\ ToCompare(turn) # ToKeep(turn)
  BY DEF KeptHandles, ToCompare, ToKeep
<1>2. ASSUME NEW n \in HostNames, NEW d \in HostDirs \cup {NoDir}, Move(n, d)
      PROVE  HandlesByStage'
  BY <1>0, <1>1, <1>2 DEF Move, ToKeep, ToCompare
<1>3. CASE SkipSeen
  BY <1>0, <1>1, <1>3 DEF SkipSeen
<1>4. CASE OpenAlias \/ Identify \/ ResolveAlias
  BY <1>0, <1>1, <1>4 DEF OpenAlias, Identify, ResolveAlias, ToKeep, ToCompare
<1>5. CASE CompareNames
  BY <1>0, <1>1, <1>5 DEF CompareNames, OpenCandidate, AcceptCandidate, ToKeep, ToCompare
<1>6. CASE KeepRoot
  <2> DEFINE new == [turn |-> turn, alias |-> Alias, path |-> resolved, dir |-> root]
  <2>1. bound \in Seq(Bindings) /\ bound' = Append(bound, new)
    BY <1>6 DEF KeepRoot, BindInv, BindTypeOK
  <2>2. new.turn = turn
    OBVIOUS
  <2> HIDE DEF new
  <2>3. /\ DOMAIN bound' = DOMAIN bound \cup {Len(bound) + 1}
        /\ \A i \in DOMAIN bound : bound'[i] = bound[i]
        /\ bound'[Len(bound) + 1] = new
    BY <2>1
  <2>4. KeptHandles' = KeptHandles \cup {ToKeep(turn)}
    BY <2>2, <2>3 DEF KeptHandles, ToKeep
  <2> QED
    BY <1>0, <1>6, <2>4 DEF KeepRoot
<1>7. CASE StartServer
  BY <1>0, <1>1, <1>7 DEF StartServer
<1>8. CASE RefuseToStart
  BY <1>0, <1>8 DEF RefuseToStart, MayFail, Finished, BindSteps
<1>9. CASE CloseServer
  BY <1>0, <1>9 DEF CloseServer
<1> QED
  BY <1>2, <1>3, <1>4, <1>5, <1>6, <1>7, <1>8, <1>9 DEF BindNext

LEMMA BindWitnesses == BindInv /\ BindNext => (RootInHand /\ Witnessed)'
<1> SUFFICES ASSUME BindInv, BindNext PROVE (RootInHand /\ Witnessed)'
  OBVIOUS
<1> USE DEF RootInHand, Witnessed, InHand, Comparing
<1>0. BindTypeOK /\ RootInHand /\ Witnessed
  BY DEF BindInv
<1>1. /\ given' = given /\ turn' = turn => Alias' = Alias
      /\ bound' = bound => \A n : AlreadyBound(n)' = AlreadyBound(n)
  BY DEF Alias, AlreadyBound
<1>2. ASSUME NEW n \in HostNames, NEW d \in HostDirs \cup {NoDir}, Move(n, d)
      PROVE  (RootInHand /\ Witnessed)'
  <2>1. \A m \in HostNames :
          /\ leads'[m] = IF m = n THEN d ELSE leads[m]
          /\ wasAt'[m] = IF m = n THEN wasAt[m] \cup {d} ELSE wasAt[m]
    BY <1>0, <1>2 DEF Move, BindTypeOK
  <2>2. /\ bindStep' = bindStep /\ turn' = turn /\ given' = given /\ bound' = bound
        /\ root' = root /\ candidate' = candidate /\ resolved' = resolved
    BY <1>2 DEF Move
  <2>3. Alias' = Alias /\ \A m : AlreadyBound(m)' = AlreadyBound(m)
    BY <1>1, <2>2
  <2>4. RootInHand'
    BY <1>0, <2>2, <2>3
  <2>5. Alias \in HostNames \/ bindStep \notin Comparing
    BY <1>0
  <2>6. \A m \in HostNames : wasAt[m] \subseteq wasAt'[m] /\ (leads[m] \in wasAt[m] => leads'[m] \in wasAt'[m])
    BY <2>1
  <2>7. Witnessed'
    <3> HIDE DEF RootInHand
    <3> QED
      BY <1>0, <2>2, <2>3, <2>5, <2>6
  <2> QED
    BY <2>4, <2>7
<1>3. CASE SkipSeen
  BY <1>3 DEF SkipSeen
<1>4. CASE OpenAlias
  BY <1>0, <1>1, <1>4, GivenNames DEF OpenAlias, BindTypeOK
<1>5. CASE Identify
  BY <1>0, <1>1, <1>5 DEF Identify
<1>6. CASE ResolveAlias
  BY <1>0, <1>1, <1>6 DEF ResolveAlias
<1>7. CASE CompareNames
  BY <1>0, <1>1, <1>7 DEF CompareNames, OpenCandidate, AcceptCandidate
<1>8. CASE KeepRoot \/ StartServer \/ RefuseToStart \/ CloseServer
  BY <1>8 DEF KeepRoot, StartServer, RefuseToStart, CloseServer
<1> QED
  BY <1>2, <1>3, <1>4, <1>5, <1>6, <1>7, <1>8 DEF BindNext

LEMMA BindKeepsRoots == BindInv /\ BindNext => BoundSoFar'
<1> SUFFICES ASSUME BindInv, BindNext PROVE BoundSoFar'
  OBVIOUS
<1> USE DEF BoundSoFar, AlreadyBound
<1>0. /\ BoundSoFar /\ bindStep \in BindSteps /\ Len(given) \in Nat
      /\ turn \in 1..(Len(given) + 1) /\ turn \in Nat
  <2>1. given \in Seq(HostNames \cup {Invalid})
    BY DEF BindInv, BindTypeOK
  <2> QED
    BY <2>1 DEF BindInv, BindTypeOK
<1>1. CASE UNCHANGED <<given, bound, turn>> /\ bindStep \notin {"refused", "closed"}
           /\ bindStep # "started" /\ bindStep' # "started"
  BY <1>0, <1>1
<1>2. CASE SkipSeen
  <2>1. /\ bound' = bound /\ given' = given /\ turn' = turn + 1 /\ bindStep' = "next"
        /\ bindStep = "next" /\ \E i \in DOMAIN bound : bound[i].alias = given[turn]
    BY <1>2 DEF SkipSeen, AlreadyBound, Alias
  <2>2. 1..(turn' - 1) = 1..(turn - 1) \cup {turn}
    BY <1>0, <2>1
  <2> QED
    BY <1>0, <2>1, <2>2
<1>3. CASE KeepRoot
  <2> DEFINE new == [turn |-> turn, alias |-> Alias, path |-> resolved, dir |-> root]
  <2>1. /\ bound \in Seq(Bindings) /\ bound' = Append(bound, new) /\ turn' = turn + 1
        /\ given' = given /\ bindStep' = "next" /\ bindStep = "keep"
    BY <1>3 DEF KeepRoot, BindInv, BindTypeOK
  <2>2. new.alias = given[turn]
    BY DEF Alias
  <2>3. \A i \in DOMAIN bound : bound[i].alias # new.alias
    BY <2>1, <2>2 DEF BindInv, RootInHand, InHand, Comparing, AlreadyBound, Alias
  <2> HIDE DEF new
  <2>4. /\ DOMAIN bound' = DOMAIN bound \cup {Len(bound) + 1}
        /\ \A i \in DOMAIN bound : bound'[i] = bound[i]
        /\ bound'[Len(bound) + 1] = new
    BY <2>1
  <2>5. 1..(turn' - 1) = 1..(turn - 1) \cup {turn}
    BY <1>0, <2>1
  <2>6. /\ \A i \in DOMAIN bound' : \E j \in 1..(turn' - 1) : given'[j] = bound'[i].alias
        /\ \A j \in 1..(turn' - 1) : \E i \in DOMAIN bound' : bound'[i].alias = given'[j]
    <3>1. ASSUME NEW i \in DOMAIN bound'
          PROVE  \E j \in 1..(turn' - 1) : given'[j] = bound'[i].alias
      <4>1. CASE i \in DOMAIN bound
        <5>1. PICK j \in 1..(turn - 1) : given[j] = bound[i].alias
          BY <1>0, <2>1, <4>1
        <5>2. j \in 1..(turn' - 1) /\ given'[j] = bound'[i].alias
          BY <2>1, <2>4, <2>5, <4>1, <5>1
        <5> QED
          BY <5>2
      <4>2. CASE i = Len(bound) + 1
        <5>1. turn \in 1..(turn' - 1) /\ given'[turn] = bound'[i].alias
          BY <2>1, <2>2, <2>4, <2>5, <4>2
        <5> QED
          BY <5>1
      <4> QED
        BY <2>4, <4>1, <4>2
    <3>2. ASSUME NEW j \in 1..(turn' - 1)
          PROVE  \E i \in DOMAIN bound' : bound'[i].alias = given'[j]
      <4>1. CASE j \in 1..(turn - 1)
        <5>1. PICK i \in DOMAIN bound : bound[i].alias = given[j]
          BY <1>0, <2>1, <4>1
        <5>2. i \in DOMAIN bound' /\ bound'[i].alias = given'[j]
          BY <2>1, <2>4, <5>1
        <5> QED
          BY <5>2
      <4>2. CASE j = turn
        <5>1. Len(bound) + 1 \in DOMAIN bound' /\ bound'[Len(bound) + 1].alias = given'[j]
          BY <2>1, <2>2, <2>4, <4>2
        <5> QED
          BY <5>1
      <4> QED
        BY <2>5, <4>1, <4>2
    <3> QED
      BY <3>1, <3>2
  <2>7. \A i, j \in DOMAIN bound' : bound'[i].alias = bound'[j].alias => i = j
    BY <1>0, <2>1, <2>3, <2>4
  <2> QED
    BY <2>1, <2>6, <2>7
<1>4. CASE StartServer
  BY <1>0, <1>4 DEF StartServer
<1>5. CASE RefuseToStart \/ CloseServer
  BY <1>5 DEF RefuseToStart, CloseServer
<1>6. CASE OpenAlias \/ Identify \/ ResolveAlias
  BY <1>1, <1>6 DEF OpenAlias, Identify, ResolveAlias
<1>7. CASE CompareNames
  BY <1>1, <1>7 DEF CompareNames, OpenCandidate, AcceptCandidate
<1>8. ASSUME NEW n \in HostNames, NEW d \in HostDirs \cup {NoDir}, Move(n, d) PROVE BoundSoFar'
  BY <1>1, <1>8 DEF Move, Finished
<1> QED
  BY <1>2, <1>3, <1>4, <1>5, <1>6, <1>7, <1>8 DEF BindNext

LEMMA BindNextInv == BindInv /\ [BindNext]_bindVars => BindInv'
<1> SUFFICES ASSUME BindInv, [BindNext]_bindVars PROVE BindInv'
  OBVIOUS
<1>1. CASE UNCHANGED bindVars
  BY <1>1 DEF bindVars, BindInv, BindTypeOK, RootInHand, HandlesByStage, Witnessed, BoundSoFar,
     Alias, AlreadyBound, KeptHandles
<1>2. CASE BindNext
  BY <1>2, BindTypes, BindHandles, BindWitnesses, BindKeepsRoots DEF BindInv
<1> QED
  BY <1>1, <1>2

LEMMA BindInvariance == BindSpec => []BindInv
BY BindInitInv, BindNextInv, PTL DEF BindSpec

\* The variables of the binding keep their types: only directories become roots.
THEOREM BindTypeCorrect == BindSpec => []BindTypeOK
<1>1. BindInv => BindTypeOK
  BY DEF BindInv
<1> QED
  BY BindInvariance, <1>1, PTL

\* No start that is refused, and no server that is closed, leaves a handle open
\* (the deferred closes of openAllowedRoots and bindAllowedRoot).
THEOREM BoundHandlesAreOwned == BindSpec => []HandlesAreOwned
<1>1. BindInv => HandlesAreOwned
  BY DEF BindInv, HandlesByStage, HandlesAreOwned
<1> QED
  BY BindInvariance, <1>1, PTL

\* A server that starts has bound every configured name, once.
THEOREM ConfigurationsAreBound == BindSpec => []ConfigurationIsBound
<1>1. BindInv => ConfigurationIsBound
  <2> SUFFICES ASSUME BindInv, bindStep = "started"
               PROVE  /\ {bound[i].alias : i \in DOMAIN bound} = {given[i] : i \in DOMAIN given}
                      /\ \A i, j \in DOMAIN bound : bound[i].alias = bound[j].alias => i = j
    BY DEF ConfigurationIsBound
  <2>1. given \in Seq(HostNames \cup {Invalid})
    BY DEF BindInv, BindTypeOK
  <2>2. 1..(turn - 1) = DOMAIN given
    BY <2>1 DEF BindInv, BoundSoFar
  <2>3. /\ \A i \in DOMAIN bound : \E j \in DOMAIN given : given[j] = bound[i].alias
        /\ \A j \in DOMAIN given : \E i \in DOMAIN bound : bound[i].alias = given[j]
        /\ \A i, j \in DOMAIN bound : bound[i].alias = bound[j].alias => i = j
    BY <2>2 DEF BindInv, BoundSoFar, AlreadyBound
  <2> QED
    BY <2>3
<1> QED
  BY BindInvariance, <1>1, PTL

\* A start binds the whole configuration or holds nothing (openAllowedRoots).
THEOREM StartsAreWhole == BindSpec => []StartIsWhole
<1>1. HandlesAreOwned /\ ConfigurationIsBound => StartIsWhole
  BY DEF StartIsWhole
<1> QED
  BY <1>1, BoundHandlesAreOwned, ConfigurationsAreBound, PTL

\* However names are moved during the start, a directory becomes an authority only
\* if its configured and its resolved name both led to it (bindAllowedRoot).
THEOREM AuthoritiesWereNamed == BindSpec => AuthorityWasNamed
<1> DEFINE Named == Len(bound') > Len(bound) =>
                      LET new == bound'[Len(bound')]
                      IN  new.dir \in wasAt[new.alias] \cap wasAt[new.path]
<1>1. BindInv /\ [BindNext]_bindVars => [Named]_bindVars
  <2> SUFFICES ASSUME BindInv, BindNext, Len(bound') > Len(bound) PROVE Named
    BY DEF bindVars
  <2>1. bound \in Seq(Bindings) /\ Len(bound) \in Nat
    BY DEF BindInv, BindTypeOK
  <2>2. KeepRoot
    <3>1. bound' # bound /\ bound' # <<>>
      BY <2>1
    <3> QED
      BY <3>1 DEF BindNext, Move, SkipSeen, OpenAlias, Identify, ResolveAlias, CompareNames,
         OpenCandidate, AcceptCandidate, StartServer, RefuseToStart, CloseServer
  <2> DEFINE new == [turn |-> turn, alias |-> Alias, path |-> resolved, dir |-> root]
  <2>3. bound' = Append(bound, new)
    BY <2>2 DEF KeepRoot
  <2>4. new.dir = root /\ new.alias = Alias /\ new.path = resolved
    OBVIOUS
  <2> HIDE DEF new
  <2>5. bound'[Len(bound')] = new
    BY <2>1, <2>3
  <2>6. root \in wasAt[Alias] /\ root \in wasAt[resolved]
    BY <2>2 DEF KeepRoot, BindInv, Witnessed, Comparing
  <2> QED
    BY <2>4, <2>5, <2>6
<1> QED
  BY BindInvariance, <1>1, PTL DEF BindSpec, AuthorityWasNamed

-----------------------------------------------------------------------------
(* BootstrapBundle, for any number of launches and output directories.     *)
HIDE RootBindingAssumption
USE BootstrapAssumption

Writing  == {"create", "write", "sync"}
Complete == {"report", "reported"}

Synced(l) == [by |-> l, data |-> "synced"]

\* The files of a directory come one after the other, each by the launch of the one before.
InOrder ==
  \A d \in Launches, i, j \in DOMAIN Order :
    i < j /\ contents[d][Order[j]] # Absent =>
      contents[d][Order[i]] = Synced(contents[d][Order[j]].by)

\* What a launch has finished is whole and its own, and so is what it is at.
Own(l) ==
  /\ launchStep[l] = "open" => seen[l] \in Launches
  /\ launchStep[l] \in {"make", "examine", "open"} => written[l] = 0
  /\ launchStep[l] \in Writing \cup Complete =>
       /\ held[l] \in Launches
       /\ \A i \in 1..written[l] : contents[held[l]][Order[i]] = Synced(l)
  /\ launchStep[l] \in Writing => written[l] < Len(Order)
  /\ launchStep[l] \in Complete => written[l] = Len(Order)
  /\ launchStep[l] = "write" => contents[held[l]][Current(l)] = [by |-> l, data |-> "part"]
  /\ launchStep[l] = "sync" => contents[held[l]][Current(l)] = [by |-> l, data |-> "written"]

OwnFiles == \A l \in Launches : Own(l)

BundleInv == BundleTypeOK /\ InOrder /\ OwnFiles

LEMMA OrderOfTheFiles ==
  /\ Len(Order) = 5 /\ DOMAIN Order = 1..5
  /\ \A i \in 1..5 : Order[i] \in BundleFiles
  /\ \A i, j \in 1..5 : Order[i] = Order[j] => i = j
  /\ Order[5] = Marker /\ Marker \in BundleFiles
  /\ \A f \in BundleFiles : \E i \in 1..5 : f = Order[i]
  /\ \A f \in Credentials : \E i \in 1..4 : f = Order[i]
<1>1. /\ Len(Order) = 5 /\ DOMAIN Order = 1..5 /\ Order[1] = "ca.pem"
      /\ Order[2] = "certificate.pem" /\ Order[3] = "key.pem" /\ Order[4] = "token"
      /\ Order[5] = "connection.json"
  BY DEF Order, Marker
<1> HIDE DEF Order
<1> QED
  BY <1>1 DEF BundleFiles, Credentials, Marker

LEMMA StatesOfFiles ==
  ASSUME NEW l \in Launches
  PROVE  /\ Synced(l) \in FileStates /\ Synced(l).by = l /\ Synced(l).data = "synced"
         /\ Synced(l) # Absent
<1>1. Synced(l) \in FileStates /\ Synced(l).by = l /\ Synced(l).data = "synced"
  BY DEF Synced, FileStates
<1> QED
  BY <1>1

\* Writing one file changes that file only.
LEMMA SetFileEffect ==
  ASSUME BundleTypeOK, NEW l \in Launches, NEW data, SetFile(l, data), held[l] \in Launches,
         written[l] < Len(Order)
  PROVE  \A d \in Launches, f \in BundleFiles :
           contents'[d][f] = IF d = held[l] /\ f = Current(l) THEN [by |-> l, data |-> data]
                             ELSE contents[d][f]
BY DEF SetFile, BundleTypeOK

LEMMA BundleInitInv == BundleInit => BundleInv
<1> SUFFICES ASSUME BundleInit PROVE BundleInv
  OBVIOUS
<1>1. BundleTypeOK
  BY OrderOfTheFiles DEF BundleInit, BundleTypeOK, LaunchSteps
<1>2. InOrder
  BY OrderOfTheFiles DEF BundleInit, InOrder
<1>3. OwnFiles
  BY DEF BundleInit, OwnFiles, Own, Writing, Complete
<1> QED
  BY <1>1, <1>2, <1>3 DEF BundleInv

LEMMA BundleTypes == BundleInv /\ BundleNext => BundleTypeOK'
<1> SUFFICES ASSUME BundleInv, BundleNext PROVE BundleTypeOK'
  OBVIOUS
<1>0. BundleTypeOK
  BY DEF BundleInv
<1>1. ASSUME NEW l \in Launches, NEW to \in LaunchSteps, NEW from, Goto(l, from, to)
      PROVE  launchStep' \in [Launches -> LaunchSteps]
  BY <1>0, <1>1 DEF Goto, BundleTypeOK
<1>2. ASSUME NEW l \in Launches, NEW data \in {"part", "written", "synced"}, SetFile(l, data)
      PROVE  contents' \in [Launches -> [BundleFiles -> FileStates \cup {Absent}]]
  <2>1. [by |-> l, data |-> data] \in FileStates
    BY DEF FileStates
  <2> QED
    BY <1>0, <1>2, <2>1 DEF SetFile, BundleTypeOK
<1>3. ASSUME NEW l \in Launches, MakeOutDir(l) \/ ExamineOutDir(l) \/ OpenOutDir(l)
      PROVE  BundleTypeOK'
  <2>1. launchStep' \in [Launches -> LaunchSteps]
    BY <1>1, <1>3 DEF MakeOutDir, ExamineOutDir, OpenOutDir, LaunchSteps
  <2>2. /\ dirAt' \in [OutDirs -> Launches \cup {NoLaunch}]
        /\ seen' \in [Launches -> Launches \cup {NoLaunch}]
        /\ held' \in [Launches -> Launches \cup {NoLaunch}]
    BY <1>0, <1>3 DEF MakeOutDir, ExamineOutDir, OpenOutDir, BundleTypeOK
  <2> QED
    BY <1>0, <1>3, <2>1, <2>2 DEF MakeOutDir, ExamineOutDir, OpenOutDir, BundleTypeOK
<1>4. ASSUME NEW l \in Launches, CreateFile(l) \/ WriteFile(l) PROVE BundleTypeOK'
  <2>1. contents' \in [Launches -> [BundleFiles -> FileStates \cup {Absent}]]
    BY <1>2, <1>4 DEF CreateFile, WriteFile
  <2>2. launchStep' \in [Launches -> LaunchSteps]
    BY <1>1, <1>4 DEF CreateFile, WriteFile, LaunchSteps
  <2> QED
    BY <1>0, <1>4, <2>1, <2>2 DEF CreateFile, WriteFile, BundleTypeOK
<1>5. ASSUME NEW l \in Launches, SyncFile(l) PROVE BundleTypeOK'
  <2>1. contents' \in [Launches -> [BundleFiles -> FileStates \cup {Absent}]]
    BY <1>2, <1>5 DEF SyncFile
  <2>2. launchStep' \in [Launches -> LaunchSteps]
    BY <1>1, <1>5 DEF SyncFile, FinishFile, LaunchSteps
  <2>3. written' \in [Launches -> 0..Len(Order)]
    <3>1. launchStep[l] = "sync"
      BY <1>5 DEF SyncFile, FinishFile, Goto
    <3>2. written[l] + 1 \in 0..Len(Order)
      <4>1. written[l] < Len(Order)
        BY <3>1 DEF BundleInv, OwnFiles, Own, Writing, Complete
      <4>2. written[l] \in Nat /\ Len(Order) \in Nat
        BY <1>0, OrderOfTheFiles DEF BundleTypeOK
      <4> QED
        BY <4>1, <4>2
    <3> QED
      BY <1>0, <1>5, <3>2 DEF SyncFile, FinishFile, BundleTypeOK
  <2> QED
    BY <1>0, <1>5, <2>1, <2>2, <2>3 DEF SyncFile, FinishFile, BundleTypeOK
<1>6. ASSUME NEW l \in Launches, StopLaunch(l) PROVE BundleTypeOK'
  BY <1>0, <1>6 DEF StopLaunch, BundleTypeOK, LaunchSteps
<1>9. ASSUME NEW l \in Launches, Report(l) PROVE BundleTypeOK'
  BY <1>0, <1>9 DEF Report, Goto, BundleTypeOK, LaunchSteps
<1>7. ASSUME NEW p \in OutDirs, MoveAway(p) PROVE BundleTypeOK'
  BY <1>0, <1>7 DEF MoveAway, BundleTypeOK
<1>8. CASE LosePower
  <2>1. PICK lost \in SUBSET Unsynced, cut \in SUBSET Unsynced :
          contents' = [d \in Launches |-> [f \in BundleFiles |->
                         IF <<d, f>> \in lost THEN Absent
                         ELSE IF <<d, f>> \in cut THEN [contents[d][f] EXCEPT !.data = "part"]
                         ELSE contents[d][f]]]
    BY <1>8 DEF LosePower
  <2>2. ASSUME NEW d \in Launches, NEW f \in BundleFiles, <<d, f>> \in cut
        PROVE  [contents[d][f] EXCEPT !.data = "part"] \in FileStates
    <3>1. contents[d][f] \in FileStates
      BY <1>0, <2>2 DEF Unsynced, BundleTypeOK
    <3> QED
      BY <3>1 DEF FileStates
  <2>3. contents' \in [Launches -> [BundleFiles -> FileStates \cup {Absent}]]
    BY <1>0, <2>1, <2>2 DEF BundleTypeOK
  <2>4. launchStep' \in [Launches -> LaunchSteps]
    BY <1>0, <1>8 DEF LosePower, BundleTypeOK, LaunchSteps
  <2> QED
    BY <1>0, <1>8, <2>3, <2>4 DEF LosePower, BundleTypeOK
<1> QED
  BY <1>3, <1>4, <1>5, <1>6, <1>7, <1>8, <1>9 DEF BundleNext

\* A power failure leaves every synced file as it was and makes none.
LEMMA SyncedSurvive ==
  ASSUME BundleTypeOK, LosePower
  PROVE  \A d \in Launches, f \in BundleFiles :
           /\ contents[d][f] # Absent /\ contents[d][f].data = "synced" =>
                contents'[d][f] = contents[d][f]
           /\ contents'[d][f] # Absent =>
                contents[d][f] # Absent /\ contents'[d][f].by = contents[d][f].by
<1>1. PICK lost \in SUBSET Unsynced, cut \in SUBSET Unsynced :
        contents' = [d \in Launches |-> [f \in BundleFiles |->
                       IF <<d, f>> \in lost THEN Absent
                       ELSE IF <<d, f>> \in cut THEN [contents[d][f] EXCEPT !.data = "part"]
                       ELSE contents[d][f]]]
  BY DEF LosePower
<1>2. SUFFICES ASSUME NEW d \in Launches, NEW f \in BundleFiles
               PROVE  /\ contents[d][f] # Absent /\ contents[d][f].data = "synced" =>
                           contents'[d][f] = contents[d][f]
                      /\ contents'[d][f] # Absent =>
                           contents[d][f] # Absent /\ contents'[d][f].by = contents[d][f].by
  OBVIOUS
<1>3. contents'[d][f] = IF <<d, f>> \in lost THEN Absent
                        ELSE IF <<d, f>> \in cut THEN [contents[d][f] EXCEPT !.data = "part"]
                        ELSE contents[d][f]
  BY <1>1
<1>4. <<d, f>> \in lost \/ <<d, f>> \in cut =>
        contents[d][f] # Absent /\ contents[d][f].data # "synced" /\ contents[d][f] \in FileStates
  BY DEF Unsynced, BundleTypeOK
<1>5. contents[d][f] \in FileStates =>
        [contents[d][f] EXCEPT !.data = "part"].by = contents[d][f].by
  BY DEF FileStates
<1> QED
  BY <1>3, <1>4, <1>5

\* A launch that writes its next file changes no file of another launch, and keeps
\* the order.
LEMMA WritesAreOwn ==
  ASSUME BundleInv, NEW l \in Launches, NEW data, SetFile(l, data),
         launchStep[l] \in Writing, contents'[held[l]][Current(l)].by = l,
         contents[held[l]][Current(l)] = Absent
           \/ (/\ contents[held[l]][Current(l)].by = l
              /\ contents[held[l]][Current(l)].data # "synced")
  PROVE  /\ InOrder'
         /\ \A d \in Launches, f \in BundleFiles :
              /\ contents[d][f] # Absent /\ contents[d][f].by # l =>
                   contents'[d][f] = contents[d][f]
              /\ d # held[l] \/ f # Current(l) => contents'[d][f] = contents[d][f]
         /\ contents'[held[l]][Current(l)] = [by |-> l, data |-> data]
         /\ Current(l) \in BundleFiles /\ Current(l) = Order[written[l] + 1]
         /\ written[l] + 1 \in 1..5 /\ written[l] \in 0..4 /\ held[l] \in Launches
<1>1. /\ written[l] \in 0..4 /\ held[l] \in Launches
      /\ \A i \in 1..written[l] : contents[held[l]][Order[i]] = Synced(l)
  <2>1. written[l] < Len(Order) /\ written[l] \in 0..Len(Order) /\ held[l] \in Launches
    BY DEF BundleInv, OwnFiles, Own, Writing, Complete, BundleTypeOK
  <2>2. \A i \in 1..written[l] : contents[held[l]][Order[i]] = Synced(l)
    BY DEF BundleInv, OwnFiles, Own, Writing, Complete
  <2> QED
    BY <2>1, <2>2, OrderOfTheFiles
<1>2. written[l] + 1 \in 1..5 /\ Current(l) = Order[written[l] + 1] /\ Current(l) \in BundleFiles
  BY <1>1, OrderOfTheFiles DEF Current
<1>3. \A d \in Launches, f \in BundleFiles :
        contents'[d][f] = IF d = held[l] /\ f = Current(l) THEN [by |-> l, data |-> data]
                          ELSE contents[d][f]
  BY <1>1, SetFileEffect, OrderOfTheFiles DEF BundleInv
<1>4. InOrder'
  <2> SUFFICES ASSUME NEW d \in Launches, NEW i \in 1..5, NEW j \in 1..5, i < j,
                      contents'[d][Order[j]] # Absent
               PROVE  contents'[d][Order[i]] = Synced(contents'[d][Order[j]].by)
    BY OrderOfTheFiles DEF InOrder
  <2>1. /\ Order[i] \in BundleFiles /\ Order[j] \in BundleFiles
        /\ Order[i] = Current(l) <=> i = written[l] + 1
        /\ Order[j] = Current(l) <=> j = written[l] + 1
    BY <1>2, OrderOfTheFiles
  <2>2. contents[d][Order[j]] # Absent => contents[d][Order[i]] = Synced(contents[d][Order[j]].by)
    BY OrderOfTheFiles DEF BundleInv, InOrder
  <2>3. CASE d # held[l]
    BY <1>3, <2>1, <2>2, <2>3
  <2>4. CASE d = held[l] /\ j = written[l] + 1
    <3>1. contents'[d][Order[j]].by = l
      BY <2>1, <2>4
    <3>2. i \in 1..written[l] /\ contents'[d][Order[i]] = contents[d][Order[i]]
      BY <1>1, <1>3, <2>1, <2>4
    <3> QED
      BY <1>1, <2>4, <3>1, <3>2
  <2>5. CASE d = held[l] /\ i = written[l] + 1
    <3>1. contents'[d][Order[j]] = contents[d][Order[j]] /\ contents[d][Order[j]] # Absent
      BY <1>3, <2>1, <2>5
    <3>2. contents[d][Order[i]] = Synced(contents[d][Order[j]].by) /\ Order[i] = Current(l)
      BY <2>1, <2>2, <2>5, <3>1
    <3>3. contents[d][Order[j]].by \in Launches
      <4>1. contents[d][Order[j]] \in FileStates
        BY <2>1, <3>1 DEF BundleInv, BundleTypeOK
      <4> QED
        BY <4>1 DEF FileStates
    <3> QED
      BY <2>5, <3>2, <3>3, StatesOfFiles
  <2>6. CASE i # written[l] + 1 /\ j # written[l] + 1
    BY <1>3, <2>1, <2>2, <2>6
  <2> QED
    BY <2>3, <2>4, <2>5, <2>6
<1>5. ASSUME NEW d \in Launches, NEW f \in BundleFiles, contents[d][f] # Absent,
             contents[d][f].by # l
      PROVE  contents'[d][f] = contents[d][f]
  BY <1>3, <1>5
<1> QED
  BY <1>1, <1>2, <1>3, <1>4, <1>5

\* What a launch owns does not depend on what others do, as long as its files stay.
LEMMA OthersKeepTheirs ==
  ASSUME BundleInv, NEW m \in Launches, launchStep'[m] = launchStep[m], seen'[m] = seen[m],
         held'[m] = held[m], written'[m] = written[m],
         \A d \in Launches, f \in BundleFiles :
           contents[d][f] # Absent /\ contents[d][f].by = m => contents'[d][f] = contents[d][f]
  PROVE  Own(m)'
<1>1. Own(m)
  BY DEF BundleInv, OwnFiles
<1>2. written[m] \in 0..5 /\ (launchStep[m] \in Writing => written[m] + 1 \in 1..5)
  BY <1>1, OrderOfTheFiles DEF BundleInv, BundleTypeOK, Own
<1>3. ASSUME launchStep[m] \in Writing \cup Complete
      PROVE  \A i \in 1..written[m] : contents'[held[m]][Order[i]] = Synced(m)
  <2> SUFFICES ASSUME NEW i \in 1..written[m]
               PROVE  contents'[held[m]][Order[i]] = Synced(m)
    OBVIOUS
  <2>1. contents[held[m]][Order[i]] = Synced(m) /\ held[m] \in Launches
    BY <1>1, <1>3 DEF Own
  <2>2. Order[i] \in BundleFiles
    BY <1>2, OrderOfTheFiles
  <2> QED
    BY <2>1, <2>2, StatesOfFiles
<1>4. ASSUME NEW data \in {"part", "written"}, launchStep[m] \in Writing,
             contents[held[m]][Current(m)] = [by |-> m, data |-> data]
      PROVE  contents'[held[m]][Current(m)] = [by |-> m, data |-> data]
  <2>1. held[m] \in Launches /\ Current(m) \in BundleFiles
    BY <1>1, <1>2, <1>4, OrderOfTheFiles DEF Own, Current
  <2>2. [by |-> m, data |-> data] \in FileStates /\ [by |-> m, data |-> data].by = m
    BY DEF FileStates
  <2>3. [by |-> m, data |-> data] # Absent
    BY <2>2
  <2> QED
    BY <1>4, <2>1, <2>2, <2>3
<1>5. Current(m)' = Current(m)
  BY DEF Current
<1> QED
  BY <1>1, <1>3, <1>4, <1>5 DEF Own, Writing, Complete

LEMMA FileSteps ==
  ASSUME BundleInv, NEW l \in Launches, CreateFile(l) \/ WriteFile(l) \/ SyncFile(l)
  PROVE  /\ InOrder' /\ OwnFiles'
         /\ \A d \in Launches, f \in BundleFiles : contents[d][f] # Absent =>
              contents'[d][f] # Absent /\ contents'[d][f].by = contents[d][f].by
<1> DEFINE data == IF CreateFile(l) THEN "part" ELSE IF WriteFile(l) THEN "written" ELSE "synced"
<1>1. /\ launchStep[l] \in Writing /\ BundleTypeOK
      /\ seen' = seen /\ held' = held
      /\ launchStep[l] = "create" => CreateFile(l)
      /\ launchStep[l] = "write" => WriteFile(l)
      /\ launchStep[l] = "sync" => SyncFile(l)
  BY DEF CreateFile, WriteFile, SyncFile, FinishFile, Goto, Writing, BundleInv
<1>2. SetFile(l, data) /\ data \in {"part", "written", "synced"}
  BY DEF CreateFile, WriteFile, SyncFile
<1> HIDE DEF data
<1>3. Own(l) /\ held[l] \in Launches /\ written[l] \in 0..4
  BY <1>1, OrderOfTheFiles DEF BundleInv, OwnFiles, Own, BundleTypeOK
<1>4. contents'[held[l]][Current(l)] = [by |-> l, data |-> data]
  BY <1>1, <1>2, <1>3, SetFileEffect, OrderOfTheFiles DEF Current
<1>5. \/ contents[held[l]][Current(l)] = Absent
      \/ /\ contents[held[l]][Current(l)].by = l
         /\ contents[held[l]][Current(l)].data # "synced"
  BY <1>1, <1>3 DEF Own, CreateFile, Writing
<1>6. /\ InOrder'
      /\ \A d \in Launches, f \in BundleFiles :
           /\ contents[d][f] # Absent /\ contents[d][f].by # l => contents'[d][f] = contents[d][f]
           /\ d # held[l] \/ f # Current(l) => contents'[d][f] = contents[d][f]
      /\ Current(l) = Order[written[l] + 1]
  BY <1>1, <1>2, <1>4, <1>5, WritesAreOwn
<1>7. ASSUME NEW m \in Launches, m # l PROVE Own(m)'
  <2>1. launchStep'[m] = launchStep[m] /\ written'[m] = written[m]
    BY <1>1, <1>7 DEF CreateFile, WriteFile, SyncFile, FinishFile, Goto, BundleTypeOK
  <2>2. \A d \in Launches, f \in BundleFiles :
          contents[d][f] # Absent /\ contents[d][f].by = m => contents'[d][f] = contents[d][f]
    BY <1>6, <1>7
  <2> QED
    BY <1>1, <2>1, <2>2, OthersKeepTheirs
<1>8. Own(l)'
  <2>1. \A i \in 1..written[l] : contents'[held[l]][Order[i]] = Synced(l)
    <3> SUFFICES ASSUME NEW i \in 1..written[l]
                 PROVE  contents'[held[l]][Order[i]] = Synced(l)
      OBVIOUS
    <3>1. contents[held[l]][Order[i]] = Synced(l)
      BY <1>1, <1>3 DEF Own
    <3>2. Order[i] \in BundleFiles /\ Order[i] # Current(l)
      BY <1>3, <1>6, OrderOfTheFiles
    <3> QED
      BY <1>3, <1>6, <3>1, <3>2
  <2>2. CASE CreateFile(l)
    <3>1. /\ launchStep'[l] = "write" /\ written' = written /\ data = "part"
          /\ Current(l)' = Current(l)
      BY <1>1, <2>2 DEF CreateFile, Goto, BundleTypeOK, data, Current
    <3> QED
      BY <1>1, <1>3, <1>4, <2>1, <3>1 DEF Own, Writing, Complete
  <2>3. CASE WriteFile(l)
    <3>1. /\ launchStep'[l] = "sync" /\ written' = written /\ data = "written"
          /\ Current(l)' = Current(l)
      BY <1>1, <2>3 DEF CreateFile, WriteFile, Goto, BundleTypeOK, data, Current
    <3> QED
      BY <1>1, <1>3, <1>4, <2>1, <3>1 DEF Own, Writing, Complete
  <2>4. CASE SyncFile(l)
    <3>1. /\ launchStep'[l] = (IF written[l] + 1 = Len(Order) THEN "report" ELSE "create")
          /\ written'[l] = written[l] + 1 /\ data = "synced"
      BY <1>1, <2>4 DEF CreateFile, WriteFile, SyncFile, FinishFile, Goto, BundleTypeOK, data
    <3>2. contents'[held[l]][Order[written[l] + 1]] = Synced(l)
      BY <1>4, <1>6, <3>1 DEF Synced
    <3>3. \A i \in 1..written'[l] : contents'[held[l]][Order[i]] = Synced(l)
      BY <1>3, <2>1, <3>1, <3>2
    <3> QED
      BY <1>1, <1>3, <3>1, <3>3, OrderOfTheFiles DEF Own, Writing, Complete
  <2> QED
    BY <2>2, <2>3, <2>4
<1>9. ASSUME NEW d \in Launches, NEW f \in BundleFiles, contents[d][f] # Absent
      PROVE  contents'[d][f] # Absent /\ contents'[d][f].by = contents[d][f].by
  <2>1. CASE d = held[l] /\ f = Current(l)
    <3>1. [by |-> l, data |-> data] \in FileStates /\ [by |-> l, data |-> data].by = l
      BY <1>2 DEF FileStates
    <3> QED
      BY <1>4, <1>5, <1>9, <2>1, <3>1
  <2>2. CASE d # held[l] \/ f # Current(l)
    BY <1>6, <1>9, <2>2
  <2> QED
    BY <2>1, <2>2
<1> QED
  BY <1>6, <1>7, <1>8, <1>9 DEF OwnFiles

\* The other steps write no file; only a power failure takes some away.
LEMMA OtherSteps ==
  ASSUME BundleInv, BundleNext,
         \A l \in Launches : ~CreateFile(l) /\ ~WriteFile(l) /\ ~SyncFile(l)
  PROVE  /\ InOrder' /\ OwnFiles'
         /\ \A d \in Launches, f \in BundleFiles : contents'[d][f] # Absent =>
              contents[d][f] # Absent /\ contents'[d][f].by = contents[d][f].by
<1>1. BundleTypeOK /\ InOrder /\ OwnFiles
  BY DEF BundleInv
<1>2. CASE LosePower
  <2>1. \A d \in Launches, f \in BundleFiles :
          /\ contents[d][f] # Absent /\ contents[d][f].data = "synced" =>
               contents'[d][f] = contents[d][f]
          /\ contents'[d][f] # Absent =>
               contents[d][f] # Absent /\ contents'[d][f].by = contents[d][f].by
    BY <1>1, <1>2, SyncedSurvive
  <2>2. InOrder'
    <3> SUFFICES ASSUME NEW d \in Launches, NEW i \in 1..5, NEW j \in 1..5, i < j,
                        contents'[d][Order[j]] # Absent
                 PROVE  contents'[d][Order[i]] = Synced(contents'[d][Order[j]].by)
      BY OrderOfTheFiles DEF InOrder
    <3>1. Order[i] \in BundleFiles /\ Order[j] \in BundleFiles
      BY OrderOfTheFiles
    <3>2. contents[d][Order[j]] # Absent /\ contents'[d][Order[j]].by = contents[d][Order[j]].by
      BY <2>1, <3>1
    <3>3. contents[d][Order[i]] = Synced(contents[d][Order[j]].by)
      BY <1>1, <3>2, OrderOfTheFiles DEF InOrder
    <3>4. contents[d][Order[j]].by \in Launches
      <4>1. contents[d][Order[j]] \in FileStates
        BY <1>1, <3>1, <3>2 DEF BundleTypeOK
      <4> QED
        BY <4>1 DEF FileStates
    <3> QED
      BY <2>1, <3>1, <3>2, <3>3, <3>4, StatesOfFiles
  <2>3. ASSUME NEW l \in Launches PROVE Own(l)'
    <3>1. /\ launchStep'[l] = IF Running(l) THEN "stopped" ELSE launchStep[l]
          /\ held' = held /\ written' = written /\ seen' = seen
      BY <1>2 DEF LosePower
    <3>2. launchStep'[l] \in {"reported", "stopped"}
      BY <1>1, <3>1 DEF Running, BundleTypeOK, LaunchSteps
    <3>3. CASE launchStep'[l] = "stopped"
      BY <3>3 DEF Own, Writing, Complete
    <3>4. CASE launchStep'[l] = "reported"
      <4>1. /\ launchStep[l] = "reported" /\ held[l] \in Launches /\ written[l] = Len(Order)
            /\ \A i \in 1..written[l] : contents[held[l]][Order[i]] = Synced(l)
        BY <1>1, <3>1, <3>4 DEF OwnFiles, Own, Complete, Running
      <4>2. \A i \in 1..written[l] : contents'[held[l]][Order[i]] = Synced(l)
        BY <2>1, <4>1, StatesOfFiles, OrderOfTheFiles
      <4> QED
        BY <3>1, <3>4, <4>1, <4>2 DEF Own, Writing, Complete
    <3> QED
      BY <3>2, <3>3, <3>4
  <2> QED
    BY <2>1, <2>2, <2>3 DEF OwnFiles
<1>3. CASE contents' = contents
  <2>1. InOrder'
    BY <1>1, <1>3 DEF InOrder
  <2>2. ASSUME NEW l \in Launches, launchStep'[l] = launchStep[l], seen'[l] = seen[l],
               held'[l] = held[l], written'[l] = written[l]
        PROVE  Own(l)'
    BY <1>3, <2>2, OthersKeepTheirs
  <2>3. ASSUME NEW b \in Launches, NEW l \in Launches,
               MakeOutDir(b) \/ ExamineOutDir(b) \/ OpenOutDir(b)
                 \/ Report(b) \/ StopLaunch(b)
        PROVE  Own(l)'
    <3>1. CASE l # b
      <4>1. launchStep'[l] = launchStep[l] /\ seen'[l] = seen[l] /\ held'[l] = held[l]
            /\ written'[l] = written[l]
        BY <1>1, <2>3, <3>1 DEF MakeOutDir, ExamineOutDir, OpenOutDir, Report, StopLaunch,
           Goto, BundleTypeOK
      <4> QED
        BY <2>2, <4>1
    <3>2. CASE l = b /\ MakeOutDir(b)
      <4>1. launchStep'[l] = "examine" /\ written'[l] = 0
        BY <1>1, <3>2 DEF MakeOutDir, Goto, BundleTypeOK, OwnFiles, Own
      <4> QED
        BY <4>1 DEF Own, Writing, Complete
    <3>3. CASE l = b /\ ExamineOutDir(b)
      <4>1. launchStep'[l] = "open" /\ written'[l] = 0 /\ seen'[l] = dirAt[aim[l]]
            /\ dirAt[aim[l]] \in Launches
        <5>1. Own(l) /\ launchStep[l] = "examine" /\ dirAt[aim[l]] \in Launches
          BY <1>1, <3>3 DEF ExamineOutDir, Goto, BundleTypeOK, OwnFiles
        <5> QED
          BY <1>1, <3>3, <5>1 DEF ExamineOutDir, Goto, BundleTypeOK, Own
      <4> QED
        BY <4>1 DEF Own, Writing, Complete
    <3>4. CASE l = b /\ OpenOutDir(b)
      <4>1. launchStep'[l] = "create" /\ written'[l] = 0 /\ held'[l] \in Launches
        BY <1>1, <3>4 DEF OpenOutDir, Goto, BundleTypeOK, OwnFiles, Own
      <4> QED
        BY <4>1, OrderOfTheFiles DEF Own, Writing, Complete
    <3>5. CASE l = b /\ StopLaunch(b)
      <4>1. launchStep'[l] = "stopped"
        BY <1>1, <3>5 DEF StopLaunch, BundleTypeOK
      <4> QED
        BY <4>1 DEF Own, Writing, Complete
    <3>6. CASE l = b /\ Report(b)
      <4>1. /\ launchStep[l] = "report" /\ launchStep'[l] = "reported" /\ contents' = contents
            /\ held' = held /\ written' = written /\ Own(l)
        BY <1>1, <3>6 DEF Report, Goto, BundleTypeOK, OwnFiles
      <4> QED
        BY <4>1 DEF Own, Writing, Complete
    <3> QED
      BY <2>3, <3>1, <3>2, <3>3, <3>4, <3>5, <3>6
  <2>4. ASSUME NEW p \in OutDirs, MoveAway(p), NEW l \in Launches PROVE Own(l)'
    BY <2>2, <2>4 DEF MoveAway
  <2>5. \/ \E b \in Launches :
             MakeOutDir(b) \/ ExamineOutDir(b) \/ OpenOutDir(b) \/ Report(b) \/ StopLaunch(b)
        \/ \E p \in OutDirs : MoveAway(p)
        \/ LosePower
    BY DEF BundleNext
  <2> QED
    BY <1>2, <1>3, <2>1, <2>3, <2>4, <2>5 DEF OwnFiles
<1> QED
  BY <1>2, <1>3 DEF BundleNext, MakeOutDir, ExamineOutDir, OpenOutDir, Report,
     StopLaunch, MoveAway

LEMMA BundleNextInv == BundleInv /\ [BundleNext]_launchVars => BundleInv'
<1> SUFFICES ASSUME BundleInv, [BundleNext]_launchVars PROVE BundleInv'
  OBVIOUS
<1>1. CASE UNCHANGED launchVars
  BY <1>1 DEF launchVars, BundleInv, BundleTypeOK, InOrder, OwnFiles, Own, Current
<1>2. CASE BundleNext
  BY <1>2, BundleTypes, FileSteps, OtherSteps DEF BundleInv
<1> QED
  BY <1>1, <1>2

LEMMA BundleInvariance == BundleSpec => []BundleInv
BY BundleInitInv, BundleNextInv, PTL DEF BundleSpec

\* The variables of the launches keep their types.
THEOREM BundleTypeCorrect == BundleSpec => []BundleTypeOK
<1>1. BundleInv => BundleTypeOK
  BY DEF BundleInv
<1> QED
  BY BundleInvariance, <1>1, PTL

\* Where connection.json is, the four credentials are whole and of one launch,
\* whatever races, kills and power failures there were (the loop of run in main.go).
THEOREM MarkersMeanComplete == BundleSpec => []MarkerMeansComplete
<1>1. BundleInv => MarkerMeansComplete
  <2> SUFFICES ASSUME BundleInv, NEW d \in Launches, contents[d][Marker] # Absent,
                      NEW f \in Credentials
               PROVE  contents[d][f] = Synced(contents[d][Marker].by)
    BY DEF MarkerMeansComplete, Synced
  <2>1. PICK i \in 1..4 : f = Order[i]
    BY OrderOfTheFiles
  <2>2. i \in DOMAIN Order /\ 5 \in DOMAIN Order /\ i < 5 /\ contents[d][Order[5]] # Absent
    BY OrderOfTheFiles
  <2>3. contents[d][Order[i]] = Synced(contents[d][Order[5]].by)
    BY <2>2 DEF BundleInv, InOrder
  <2> QED
    BY <2>1, <2>3, OrderOfTheFiles
<1> QED
  BY BundleInvariance, <1>1, PTL

\* A bundle that was reported stays whole (Sync and O_EXCL in writePrivateFile).
THEOREM ReportedBundlesStayWhole == BundleSpec => []ReportedBundlesAreWhole
<1>1. BundleInv => ReportedBundlesAreWhole
  <2> SUFFICES ASSUME BundleInv, NEW l \in Launches, launchStep[l] = "reported"
               PROVE  held[l] \in Launches /\ WholeBundle(held[l], l)
    BY DEF ReportedBundlesAreWhole
  <2>1. /\ held[l] \in Launches
        /\ \A i \in 1..5 : contents[held[l]][Order[i]] = Synced(l)
    <3>1. Own(l)
      BY DEF BundleInv, OwnFiles
    <3> QED
      BY <3>1, OrderOfTheFiles DEF Own, Complete
  <2> QED
    BY <2>1, OrderOfTheFiles DEF WholeBundle, Synced
<1> QED
  BY BundleInvariance, <1>1, PTL

\* A marker and a report both mean a whole bundle (run in main.go).
THEOREM BundlesStayWhole == BundleSpec => []BundlesAreWhole
<1>1. MarkerMeansComplete /\ ReportedBundlesAreWhole => BundlesAreWhole
  BY DEF BundlesAreWhole
<1> QED
  BY <1>1, MarkersMeanComplete, ReportedBundlesStayWhole, PTL

\* No launch ever writes to a file another one created.
THEOREM FilesAreNotTakenOver == BundleSpec => NoFileIsTakenOver
<1> DEFINE Kept == \A d \in Launches, f \in BundleFiles :
                     contents[d][f] # Absent /\ contents'[d][f] # Absent =>
                       contents'[d][f].by = contents[d][f].by
<1>1. BundleInv /\ [BundleNext]_launchVars => [Kept]_launchVars
  <2> SUFFICES ASSUME BundleInv, BundleNext PROVE Kept
    OBVIOUS
  <2>1. CASE \E l \in Launches : CreateFile(l) \/ WriteFile(l) \/ SyncFile(l)
    BY <2>1, FileSteps
  <2>2. CASE \A l \in Launches : ~CreateFile(l) /\ ~WriteFile(l) /\ ~SyncFile(l)
    BY <2>2, OtherSteps
  <2> QED
    BY <2>1, <2>2
<1> QED
  BY BundleInvariance, <1>1, PTL DEF BundleSpec, NoFileIsTakenOver
=============================================================================
