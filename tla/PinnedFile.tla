----------------------------- MODULE PinnedFile -----------------------------
(***************************************************************************)
(* One file operation of canonicalfs below a directory that other          *)
(* processes change at the same time: the walk that pins a scope anchor    *)
(* (openPinnedDirectoryContext in archive.go) and the operation on a leaf  *)
(* of the pinned directory (openRegularFile in regular.go, Stat, MkdirAll, *)
(* Remove).                                                                *)
(*                                                                         *)
(* A step is one system call.  Between any two of them a directory entry   *)
(* may be removed, renamed or replaced by a symbolic link.  os.Root keeps  *)
(* resolution inside the directory it was opened on; a link that leads out *)
(* of it, or into a loop, only makes the call fail.                        *)
(***************************************************************************)
EXTENDS Naturals, Sequences

CONSTANTS
  Dirs, Files, Specials,   \* identities (device and inode) of objects
  Top,                     \* the directory of the project root
  Below,                   \* what may be placed in a directory
  Names,
  Anchor,                  \* names from Top to the scope anchor
  Leaf,                    \* the name operated on in the pinned directory
  Nothing

Objects == Dirs \cup Files \cup Specials
Links   == [to : Names]    \* a symbolic link to a sibling

ASSUME PinnedFileAssumption ==
  /\ Top \in Dirs
  /\ Below \in [Dirs -> SUBSET Objects]
  /\ Anchor \in Seq(Names) /\ Leaf \in Names
  /\ Dirs \cap (Files \cup Specials) = {} /\ Files \cap Specials = {}
  /\ Objects \cap Links = {} /\ Nothing \notin Objects \cup Links

VARIABLES
  entry,    \* the directory entries: entry[d][n]
  op,       \* the operation, and whether it is scoped (Root.rejectFileLinks)
  scoped,
  pc,       \* the next system call
  at,       \* position of the walk; Len(Anchor) + 1 is the leaf
  cur,      \* the directory handle of the walk
  info,     \* what Lstat last returned
  file,     \* the opened child directory or file
  touched,  \* files this operation truncated or wrote
  was       \* history: real objects seen at the current name since cur was opened

vars == <<entry, op, scoped, pc, at, cur, info, file, touched, was>>

Ops == {"read", "write", "stat", "mkdir", "remove"}

PCs == {"idle", "make", "examine", "open", "confirm", "leaf", "openfile",
        "check", "use", "resolve", "finished"}

TypeOK ==
  /\ entry \in [Dirs -> [Names -> Objects \cup Links \cup {Nothing}]]
  /\ op \in Ops /\ scoped \in BOOLEAN /\ pc \in PCs
  /\ at \in 1..(Len(Anchor) + 1)
  /\ cur \in Dirs
  /\ info \in Objects \cup {Nothing}
  /\ file \in Objects \cup {Nothing}
  /\ touched \in SUBSET Files
  /\ was \in SUBSET Objects

Init ==
  /\ entry = [d \in Dirs |-> [n \in Names |-> Nothing]]
  /\ op = "read" /\ scoped = FALSE /\ pc = "idle"
  /\ at = 1 /\ cur = Top
  /\ info = Nothing /\ file = Nothing
  /\ touched = {} /\ was = {}

-----------------------------------------------------------------------------
(* The file system.                                                        *)

NameAt(i) == IF i <= Len(Anchor) THEN Anchor[i] ELSE Leaf

Name == NameAt(at)

Placed(o) == \E d \in Dirs, n \in Names : entry[d][n] = o

Empty(d) == \A n \in Names : entry[d][n] = Nothing

\* Where a call that follows links ends up: here, or at the sibling.
Spot(n) == IF entry[cur][n] \in Links THEN entry[cur][n].to ELSE n

Resolved(n) == entry[cur][Spot(n)]

RealAt(d, n) == {entry[d][n]} \cap Objects

Observe == was' = was \cup ({entry'[cur][Name]} \cap Objects)

(***************************************************************************)
(* Another process.  A file may have several names; a directory has one.   *)
(* An object that is not placed was deleted or renamed out of the root.  A *)
(* link to itself is left out: it makes every call that follows it fail.   *)
(* After the last call of the operation the others may as well wait.       *)
(***************************************************************************)
Interfere(d, n, e) ==
  /\ pc # "finished"
  /\ e \in Objects => e \in Below[d]
  /\ e \in Dirs => ~Placed(e)
  /\ e \in Links => e.to # n
  /\ entry' = [entry EXCEPT ![d][n] = e]
  /\ Observe
  /\ UNCHANGED <<op, scoped, pc, at, cur, info, file, touched>>

\* Mkdir, or O_CREAT, puts a new object into the current directory.
Create(n, o) ==
  /\ o \in Below[cur] /\ ~Placed(o)
  /\ o \in Dirs => Empty(o)
  /\ entry' = [entry EXCEPT ![cur][n] = o]
  /\ Observe

-----------------------------------------------------------------------------
(* The walk.                                                               *)

\* The first call on the name at position i.
Stage(k, s, i) ==
  IF i <= Len(Anchor) THEN IF k \in {"write", "mkdir"} THEN "make" ELSE "examine"
  ELSE IF s \/ k \in {"mkdir", "remove"} THEN "leaf"
  ELSE IF k = "stat" THEN "resolve" ELSE "openfile"

Enter(d, i, k, s) ==
  /\ cur' = d /\ at' = i /\ pc' = Stage(k, s, i)
  /\ info' = Nothing /\ file' = Nothing
  /\ was' = RealAt(d, NameAt(i))
  /\ UNCHANGED entry

Start(k, s) ==
  /\ pc = "idle"
  /\ op' = k /\ scoped' = s
  /\ touched' = {}
  /\ Enter(Top, IF s THEN 1 ELSE Len(Anchor) + 1, k, s)

MakeComponent ==     \* Mkdir; ErrExist is not an error
  /\ pc = "make"
  /\ IF entry[cur][Name] = Nothing
     THEN \E d \in Dirs : Create(Name, d)
     ELSE UNCHANGED <<entry, was>>
  /\ pc' = "examine"
  /\ UNCHANGED <<op, scoped, at, cur, info, file, touched>>

ExamineComponent ==  \* Lstat: neither a link nor anything but a directory
  /\ pc = "examine"
  /\ entry[cur][Name] \in Dirs
  /\ info' = entry[cur][Name]
  /\ pc' = "open"
  /\ UNCHANGED <<entry, op, scoped, at, cur, file, touched, was>>

OpenComponent ==     \* OpenRoot follows a link
  /\ pc = "open"
  /\ Resolved(Name) \in Dirs
  /\ file' = Resolved(Name)
  /\ pc' = "confirm"
  /\ UNCHANGED <<entry, op, scoped, at, cur, info, touched, was>>

\* Wrong: the opened directory is not compared with the examined one.
ConfirmAnything ==
  /\ pc = "confirm"
  /\ Enter(file, at + 1, op, scoped)
  /\ UNCHANGED <<op, scoped, touched>>

ConfirmComponent ==  \* Stat on the handle, os.SameFile
  /\ pc = "confirm"
  /\ file = info
  /\ Enter(file, at + 1, op, scoped)
  /\ UNCHANGED <<op, scoped, touched>>

-----------------------------------------------------------------------------
(* The leaf.                                                               *)

Missing == info = Nothing

ExamineLeaf ==       \* Lstat, before openRegularFile and Stat below an anchor
  /\ pc = "leaf"
  /\ \/ op \in {"read", "write"} /\ entry[cur][Leaf] \in Files
     \/ op = "stat" /\ entry[cur][Leaf] \in Objects
     \/ op = "write" /\ entry[cur][Leaf] = Nothing
  /\ info' = entry[cur][Leaf]
  /\ pc' = IF op = "stat" THEN "resolve" ELSE "openfile"
  /\ UNCHANGED <<entry, op, scoped, at, cur, file, touched, was>>

Exclusive == scoped /\ op = "write" /\ Missing

\* Wrong: the file is truncated by the open that may follow a raced link.
OpenTruncating ==
  /\ pc = "openfile"
  /\ ~Exclusive
  /\ Resolved(Leaf) \in Files
  /\ file' = Resolved(Leaf)
  /\ touched' = IF op = "write" THEN {file'} ELSE {}
  /\ pc' = "check"
  /\ UNCHANGED <<entry, op, scoped, at, cur, info, was>>

OpenExisting ==      \* never with O_TRUNC; O_NONBLOCK lets special files through
  /\ pc = "openfile"
  /\ ~Exclusive
  /\ Resolved(Leaf) \in Files \cup Specials
  /\ file' = Resolved(Leaf)
  /\ pc' = "check"
  /\ UNCHANGED <<entry, op, scoped, at, cur, info, touched, was>>

(***************************************************************************)
(* O_CREAT: with O_EXCL the name itself must be free; without it the open  *)
(* may also create the target of a dangling link.                          *)
(***************************************************************************)
OpenNew ==
  /\ pc = "openfile"
  /\ op = "write"
  /\ LET n == IF Exclusive THEN Leaf ELSE Spot(Leaf)
     IN  /\ entry[cur][n] = Nothing
         /\ \E f \in Files : Create(n, f) /\ file' = f
  /\ pc' = "check"
  /\ UNCHANGED <<op, scoped, at, cur, info, touched>>

\* Wrong: what was opened is not compared with what was examined.
CheckTypeOnly ==
  /\ pc = "check"
  /\ file \in Files
  /\ touched' = IF op = "write" THEN {file} ELSE {}
  /\ pc' = "use"
  /\ UNCHANGED <<entry, op, scoped, at, cur, info, file, was>>

CheckFile ==         \* Stat on the descriptor, os.SameFile, then Truncate
  /\ pc = "check"
  /\ file \in Files
  /\ Missing \/ file = info
  /\ touched' = IF op = "write" THEN {file} ELSE {}
  /\ pc' = "use"
  /\ UNCHANGED <<entry, op, scoped, at, cur, info, file, was>>

UseFile ==           \* Read or Write through the descriptor
  /\ pc = "use"
  /\ pc' = "finished"
  /\ UNCHANGED <<entry, op, scoped, at, cur, info, file, touched, was>>

\* Wrong: Stat does not compare what it followed with what Lstat saw.
StatAnything ==
  /\ pc = "resolve" /\ op = "stat"
  /\ Resolved(Leaf) \in Objects
  /\ file' = Resolved(Leaf)
  /\ pc' = "finished"
  /\ UNCHANGED <<entry, op, scoped, at, cur, info, touched, was>>

StatLeaf ==          \* Stat follows; below an anchor SameFile compares
  /\ pc = "resolve" /\ op = "stat"
  /\ Resolved(Leaf) \in Objects
  /\ scoped => Resolved(Leaf) = info
  /\ file' = Resolved(Leaf)
  /\ pc' = "finished"
  /\ UNCHANGED <<entry, op, scoped, at, cur, info, touched, was>>

MakeLeaf ==          \* MkdirAll of one name; Mkdir says whether it exists
  /\ pc = "leaf" /\ op = "mkdir"
  /\ IF entry[cur][Leaf] = Nothing
     THEN (\E d \in Dirs : Create(Leaf, d)) /\ pc' = "finished"
     ELSE UNCHANGED <<entry, was>> /\ pc' = "resolve"
  /\ UNCHANGED <<op, scoped, at, cur, info, file, touched>>

AcceptDirectory ==   \* ErrExist, then Stat: an existing directory will do
  /\ pc = "resolve" /\ op = "mkdir"
  /\ Resolved(Leaf) \in Dirs
  /\ pc' = "finished"
  /\ UNCHANGED <<entry, op, scoped, at, cur, info, file, touched, was>>

RemoveLeaf ==        \* the name itself, a link included
  /\ pc = "leaf" /\ op = "remove"
  /\ entry[cur][Leaf] # Nothing
  /\ entry[cur][Leaf] \in Dirs => Empty(entry[cur][Leaf])
  /\ entry' = [entry EXCEPT ![cur][Leaf] = Nothing]
  /\ pc' = "finished"
  /\ UNCHANGED <<op, scoped, at, cur, info, file, touched, was>>

\* Any call may fail, and a check that does not hold makes it fail.
Fail ==
  /\ pc \notin {"idle", "finished"}
  /\ pc' = "finished"
  /\ file' = Nothing
  /\ UNCHANGED <<entry, op, scoped, at, cur, info, touched, was>>

Finish ==
  /\ pc = "finished"
  /\ pc' = "idle"
  /\ at' = 1 /\ cur' = Top
  /\ op' = "read" /\ scoped' = FALSE
  /\ info' = Nothing /\ file' = Nothing
  /\ touched' = {} /\ was' = {}
  /\ UNCHANGED entry

Operate == \/ MakeComponent \/ ExamineComponent \/ OpenComponent
           \/ ConfirmComponent \/ ExamineLeaf \/ OpenExisting \/ OpenNew
           \/ CheckFile \/ UseFile \/ StatLeaf \/ MakeLeaf
           \/ AcceptDirectory \/ RemoveLeaf
           \/ Fail \/ Finish

Next == \/ \E k \in Ops, s \in BOOLEAN : Start(k, s)
        \/ Operate
        \/ \E d \in Dirs, n \in Names, e \in Objects \cup Links \cup {Nothing} :
             Interfere(d, n, e)

Spec == Init /\ [][Next]_vars

-----------------------------------------------------------------------------
(* Properties.                                                             *)

(***************************************************************************)
(* "Dedicated scope root through pinned parent handles, rejects linked     *)
(* anchor components and checks opened identity"                           *)
(* (docs/security-review-2026-10-10.md): every directory the walk enters   *)
(* was, at a moment of the walk, really the entry of that name in the      *)
(* directory entered before it, whatever links were raced in.              *)
(***************************************************************************)
AnchorWasReal ==
  [][pc # "idle" /\ at' > at => cur' \in Dirs /\ cur' \in was]_vars

(***************************************************************************)
(* What a scoped operation reads or writes was really the leaf of the      *)
(* pinned directory, or was created exclusively for it; and no operation   *)
(* reads or writes anything but a regular file.                            *)
(***************************************************************************)
FileWasReal ==
  pc = "use" => /\ file \in Files
                /\ scoped => file \in was

(***************************************************************************)
(* "Validate the opened descriptor before reading or truncation" (same     *)
(* document): no file is truncated or written through a raced link, also   *)
(* not by an operation that fails afterwards.                              *)
(***************************************************************************)
TouchedWasChecked ==
  \A f \in touched : pc \in {"use", "finished"} /\ (scoped => f \in was)

(***************************************************************************)
(* A scoped Stat that succeeds describes an object that really had the     *)
(* name, never the target of a link.                                       *)
(***************************************************************************)
StatWasReal ==
  pc = "finished" /\ op = "stat" /\ scoped /\ file # Nothing => file \in was

(***************************************************************************)
(* The three together: what an operation reads, writes, truncates or       *)
(* describes really had the name it was asked for.                         *)
(***************************************************************************)
LeafWasReal == FileWasReal /\ TouchedWasChecked /\ StatWasReal
=============================================================================
