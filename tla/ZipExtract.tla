------------------------------ MODULE ZipExtract ------------------------------
(***************************************************************************)
(* Extraction of archives (packages/go/canonicalfs, archive.go), several   *)
(* at a time into one destination.  An extraction first looks at all that  *)
(* the archive declares, then makes one entry after another: a walk of     *)
(* pinned directories to its parent, an exclusive create, a bounded copy.  *)
(*                                                                         *)
(* A step is one system call with the check of the context before it.  At  *)
(* each of them the context may be done or the call may fail; the code     *)
(* treats both alike.  Replacement of directories under the walk is the    *)
(* subject of PinnedFile and left out here.                                *)
(***************************************************************************)
EXTENDS Naturals, Sequences, FiniteSetsExt

CONSTANTS
  Extractions,     \* calls of ExtractZipWithLimits
  Archives,        \* what may be in an archive: sequences of entries
  Paths,           \* places below the root: sequences of names
  Destination,     \* destClean
  FileSystems,     \* what may be there before
  MaxEntries, MaxEntryBytes, MaxTotalBytes, MaxPathDepth, MaxDirectories,
  MaxObjects,      \* the lesser of MaxObjects and MaxTotalPathComponents
  Nobody

Nothing == [type |-> "nothing", by |-> Nobody, entry |-> 0, bytes |-> 0]
Dir(x)  == [type |-> "dir", by |-> x, entry |-> 0, bytes |-> 0]
Link    == [type |-> "link", by |-> Nobody, entry |-> 0, bytes |-> 0]
File(x, i, n) == [type |-> "file", by |-> x, entry |-> i, bytes |-> n]

\* declared and actual: the size in the directory of the archive and the size
\* of the stream; sound: the stream ends well (its checksum is right); refused:
\* an unsafe name, a link, a special file, or too high a compression ratio.
Entries == [path : Paths, kind : {"file", "dir", "refused"},
            declared : Nat, actual : Nat, sound : BOOLEAN]

Up(path, n) == SubSeq(path, 1, n)
Below(path) == Destination \o path

ASSUME ZipAssumption ==
  /\ Nobody \notin Extractions
  /\ Archives \subseteq Seq(Entries)
  /\ Paths \subseteq Seq(STRING) /\ Destination \in Paths
  /\ \A p \in Paths : \A n \in 0..Len(p) : Up(p, n) \in Paths
  /\ \A a \in Archives : \A i \in 1..Len(a) : a[i].path # <<>> /\ Below(a[i].path) \in Paths
  /\ {MaxEntries, MaxEntryBytes, MaxTotalBytes, MaxPathDepth, MaxDirectories, MaxObjects} \subseteq Nat
  /\ FileSystems \subseteq [Paths -> {Nothing, Link, Dir(Nobody), File(Nobody, 0, 0)}]

VARIABLES
  fs,        \* what is at each place
  archive,   \* what each extraction was given
  pc,        \* its next step
  next,      \* the entry it is at
  depth,     \* how far its walk has come
  total,     \* bytes of the entries before
  handles,   \* what it holds open
  stuck,     \* incomplete files that could not be removed
  result
vars == <<fs, archive, pc, next, depth, total, handles, stuck, result>>

Init ==
  /\ fs \in FileSystems
  /\ archive \in [Extractions -> Archives]
  /\ pc = [x \in Extractions |-> "start"] /\ next = [x \in Extractions |-> 1]
  /\ depth = [x \in Extractions |-> 0] /\ total = [x \in Extractions |-> 0]
  /\ handles = [x \in Extractions |-> {}]
  /\ stuck = {} /\ result = [x \in Extractions |-> "none"]

-----------------------------------------------------------------------------
(* Preflight: what the archive declares fits the budgets.  Every check of    *)
(* the code subtracts what is used from a limit; no amount is negative, so   *)
(* all of them pass exactly when the sums fit.                               *)
SumOver(a, amount(_)) == MapThenSumSet(LAMBDA i : amount(a[i]), DOMAIN a)

Budget(a) ==
  LET directories(e) == IF e.kind = "dir" THEN Len(e.path) ELSE Len(e.path) - 1
  IN /\ Len(Destination) <= MaxPathDepth
     /\ \A i \in DOMAIN a : Len(Destination) + Len(a[i].path) <= MaxPathDepth
     /\ Len(Destination) + SumOver(a, directories) <= MaxDirectories
     /\ Len(Destination) + SumOver(a, LAMBDA e : Len(e.path)) <= MaxObjects

Preflight(a) ==
  /\ Len(a) <= MaxEntries
  /\ \A i \in DOMAIN a : a[i].kind # "refused" /\ a[i].declared <= MaxEntryBytes
  /\ SumOver(a, LAMBDA e : e.declared) <= MaxTotalBytes
  /\ Budget(a)

-----------------------------------------------------------------------------
Opened(x) == "destination" \in handles[x]
Current(x) == archive[x][next[x]]
\* Where the walk leads, and how many of its names are directories to pin.
Place(x) == IF Opened(x) THEN Below(Current(x).path) ELSE Destination
Goal(x) == IF Opened(x) /\ Current(x).kind = "file" THEN Len(Place(x)) - 1 ELSE Len(Place(x))
Step(x) == Up(Place(x), depth[x] + 1)

\* Wrong: what earlier entries wrote is not taken off.
RemainingOfEntry(x) == MaxEntryBytes
Remaining(x) ==
  IF MaxEntryBytes <= MaxTotalBytes - total[x] THEN MaxEntryBytes ELSE MaxTotalBytes - total[x]

Goto(x, label) == pc' = [pc EXCEPT ![x] = label]
Swap(x, closed, opened) == handles' = [handles EXCEPT ![x] = (@ \ closed) \cup opened]

\* The call returns; the deferred closes of the archive and the destination
\* run after those of the function that failed.
Return(x, outcome, closed) ==
  /\ Goto(x, "done")
  /\ result' = [result EXCEPT ![x] = outcome]
  /\ Swap(x, closed \cup {"archive", "destination"}, {})

Begin(x) ==
  /\ pc[x] = "start"
  /\ \/ Return(x, "error", {})
     \/ Goto(x, "preflight") /\ Swap(x, {}, {"archive"}) /\ UNCHANGED result
  /\ UNCHANGED <<fs, archive, next, depth, total, stuck>>

CheckDeclared(x) ==
  /\ pc[x] = "preflight"
  /\ \/ Return(x, "error", {})
     \/ Preflight(archive[x]) /\ Goto(x, "enter") /\ UNCHANGED <<handles, result>>
  /\ UNCHANGED <<fs, archive, next, depth, total, stuck>>

\* The next walk starts at a handle of its own on the root or the destination;
\* after the last entry there is none.
Enter(x) ==
  /\ pc[x] = "enter"
  /\ \/ Return(x, "error", {}) /\ UNCHANGED depth
     \/ /\ Opened(x) /\ next[x] > Len(archive[x])
        /\ Return(x, "ok", {}) /\ UNCHANGED depth
     \/ /\ ~Opened(x) \/ next[x] <= Len(archive[x])
        /\ Swap(x, {}, {"current"}) /\ Goto(x, "walk")
        /\ depth' = [depth EXCEPT ![x] = IF Opened(x) THEN Len(Destination) ELSE 0]
        /\ UNCHANGED result
  /\ UNCHANGED <<fs, archive, next, total, stuck>>

MakeDirectory(x) ==
  /\ pc[x] = "walk" /\ depth[x] < Goal(x)
  /\ \/ Return(x, "error", {"current"}) /\ UNCHANGED fs
     \/ /\ fs' = IF fs[Step(x)] = Nothing THEN [fs EXCEPT ![Step(x)] = Dir(x)] ELSE fs
        /\ Goto(x, "lstat") /\ UNCHANGED <<handles, result>>
  /\ UNCHANGED <<archive, next, depth, total, stuck>>

ExamineDirectory(x) ==
  /\ pc[x] = "lstat"
  /\ \/ Return(x, "error", {"current"})
     \/ fs[Step(x)].type = "dir" /\ Goto(x, "open") /\ UNCHANGED <<handles, result>>
  /\ UNCHANGED <<fs, archive, next, depth, total, stuck>>

OpenDirectory(x) ==
  /\ pc[x] = "open"
  /\ \/ Return(x, "error", {"current"})
     \/ Swap(x, {"current"}, {"child"}) /\ Goto(x, "confirm") /\ UNCHANGED result
  /\ UNCHANGED <<fs, archive, next, depth, total, stuck>>

ConfirmDirectory(x) ==
  /\ pc[x] = "confirm"
  /\ \/ Return(x, "error", {"child"}) /\ UNCHANGED depth
     \/ /\ Swap(x, {"child"}, {"current"}) /\ Goto(x, "walk")
        /\ depth' = [depth EXCEPT ![x] = @ + 1]
        /\ UNCHANGED result
  /\ UNCHANGED <<fs, archive, next, total, stuck>>

\* The walk is at its end: the handle becomes the destination or the parent of
\* a file, or is closed at once when the entry is a directory.
Arrive(x) ==
  /\ pc[x] = "walk" /\ depth[x] = Goal(x)
  /\ \/ Return(x, "error", {"current"}) /\ UNCHANGED next
     \/ /\ ~Opened(x) /\ Swap(x, {"current"}, {"destination"}) /\ Goto(x, "enter")
        /\ UNCHANGED <<next, result>>
     \/ /\ Opened(x) /\ Current(x).kind # "file"
        /\ Swap(x, {"current"}, {}) /\ Goto(x, "enter")
        /\ next' = [next EXCEPT ![x] = @ + 1] /\ UNCHANGED result
     \/ /\ Opened(x) /\ Current(x).kind = "file"
        /\ Swap(x, {"current"}, {"parent"}) /\ Goto(x, "source")
        /\ UNCHANGED <<next, result>>
  /\ UNCHANGED <<fs, archive, depth, total, stuck>>

OpenEntry(x) ==
  /\ pc[x] = "source"
  /\ \/ Return(x, "error", {"parent"})
     \/ Swap(x, {}, {"source"}) /\ Goto(x, "create") /\ UNCHANGED result
  /\ UNCHANGED <<fs, archive, next, depth, total, stuck>>

\* Wrong: the clean-up is in place before the create is known to have worked.
CreateFileCleansUp(x) ==
  /\ pc[x] = "create"
  /\ \/ Goto(x, "remove") /\ UNCHANGED <<fs, handles, result>>
     \/ /\ fs[Place(x)] = Nothing
        /\ fs' = [fs EXCEPT ![Place(x)] = File(x, next[x], 0)]
        /\ Swap(x, {}, {"output"}) /\ Goto(x, "copy") /\ UNCHANGED result
  /\ UNCHANGED <<archive, next, depth, total, stuck>>

CreateFile(x) ==
  /\ pc[x] = "create"
  /\ \/ Return(x, "error", {"source", "parent"}) /\ UNCHANGED fs
     \/ /\ fs[Place(x)] = Nothing
        /\ fs' = [fs EXCEPT ![Place(x)] = File(x, next[x], 0)]
        /\ Swap(x, {}, {"output"}) /\ Goto(x, "copy") /\ UNCHANGED result
  /\ UNCHANGED <<archive, next, depth, total, stuck>>

Written(x) == fs[Place(x)].bytes

CopyByte(x) ==
  /\ pc[x] = "copy"
  /\ Written(x) < Current(x).actual /\ Written(x) < Remaining(x)
  /\ fs' = [fs EXCEPT ![Place(x)].bytes = @ + 1]
  /\ UNCHANGED <<archive, pc, next, depth, total, handles, stuck, result>>

\* The copy stops at the end of the stream or at the limit; one more read must
\* then find the end of a sound stream.
\* Wrong: that read is left out.
AtEndUnprobed(x) == Written(x) = Current(x).actual \/ Written(x) = Remaining(x)
AtEnd(x) == Written(x) = Current(x).actual /\ Current(x).sound

CopyEnds(x) ==
  /\ pc[x] = "copy"
  /\ \/ Goto(x, "discard")
     \/ AtEnd(x) /\ Goto(x, "close")
  /\ UNCHANGED <<fs, archive, next, depth, total, handles, stuck, result>>

\* Close succeeds, or the file is removed like an incomplete one.
CloseFile(x) ==
  /\ pc[x] = "close"
  /\ \/ /\ Swap(x, {"output"}, {}) /\ Goto(x, "remove")
        /\ UNCHANGED <<next, total>>
     \/ /\ Swap(x, {"output", "source", "parent"}, {}) /\ Goto(x, "enter")
        /\ next' = [next EXCEPT ![x] = @ + 1]
        /\ total' = [total EXCEPT ![x] = @ + Written(x)]
  /\ UNCHANGED <<fs, archive, depth, stuck, result>>

Discard(x) ==
  /\ pc[x] = "discard"
  /\ Swap(x, {"output"}, {}) /\ Goto(x, "remove")
  /\ UNCHANGED <<fs, archive, next, depth, total, stuck, result>>

RemoveFile(x) ==
  /\ pc[x] = "remove"
  /\ \/ fs' = [fs EXCEPT ![Place(x)] = Nothing] /\ UNCHANGED stuck
     \/ stuck' = stuck \cup {Place(x)} /\ UNCHANGED fs
  /\ Return(x, "error", {"source", "parent"})
  /\ UNCHANGED <<archive, next, depth, total>>

Extract(x) ==
  \/ Begin(x) \/ CheckDeclared(x) \/ Enter(x)
  \/ MakeDirectory(x) \/ ExamineDirectory(x) \/ OpenDirectory(x) \/ ConfirmDirectory(x) \/ Arrive(x)
  \/ OpenEntry(x) \/ CreateFile(x) \/ CopyByte(x) \/ CopyEnds(x)
  \/ CloseFile(x) \/ Discard(x) \/ RemoveFile(x)

Next == \E x \in Extractions : Extract(x)

Spec == Init /\ [][Next]_vars

-----------------------------------------------------------------------------
(* Properties.                                                               *)

Made(x) == {p \in Paths : fs[p].by = x}
Whole(p) ==
  LET e == archive[fs[p].by][fs[p].entry]
  IN e.kind = "file" /\ p = Below(e.path) /\ fs[p].bytes = e.actual /\ e.sound

\* However an extraction ends (refused, cancelled, failed between any two
\* calls, or done), it holds nothing open, every file it made and leaves is a
\* whole entry at its place (unless the system refused to remove it), and
\* success means that every entry is there.
EndsClean ==
  \A x \in Extractions : pc[x] = "done" =>
    /\ handles[x] = {}
    /\ \A p \in Made(x) : fs[p].type = "file" => p \in stuck \/ Whole(p)
    /\ result[x] = "ok" =>
         \A i \in 1..Len(archive[x]) :
           LET found == fs[Below(archive[x][i].path)]
           IN IF archive[x][i].kind = "file" THEN found.by = x /\ found.entry = i
              ELSE found.type = "dir"

\* What an extraction puts on disk, finished or not, stays within the limits it
\* was given, although directories are shared with other extractions and the
\* stream of an entry may be longer than declared; an archive that the
\* preflight refuses leaves no trace.
BudgetsHold ==
  \A x \in Extractions :
    LET files == {p \in Made(x) : fs[p].type = "file"}
    IN /\ Made(x) # {} => Preflight(archive[x])
       /\ Cardinality(Made(x)) <= MaxObjects
       /\ Cardinality(Made(x) \ files) <= MaxDirectories
       /\ \A p \in Made(x) : Len(p) <= MaxPathDepth
       /\ \A p \in files : fs[p].bytes <= MaxEntryBytes
       /\ MapThenSumSet(LAMBDA p : fs[p].bytes, files) <= MaxTotalBytes

\* An extraction never changes or removes what was there before, a directory, a
\* file of another extraction or an entry it has finished, not even when it
\* fails on that very name.
Settled(p) ==
  LET o == fs[p]
  IN \/ o.type # "nothing" /\ o.by = Nobody
     \/ o.type = "dir"
     \/ o.type = "file" /\ o.by # Nobody /\ o.entry < next[o.by]
OthersUntouched ==
  [][\A p \in Paths :
       /\ Settled(p) => fs'[p] = fs[p]
       /\ fs'[p] # fs[p] /\ fs[p].by # Nobody => pc[fs[p].by] \in {"copy", "remove"}]_vars
=============================================================================
