-------------------------- MODULE BootstrapBundle --------------------------
(***************************************************************************)
(* The credential bundles of canonicalfs-bootstrap: run in main.go,        *)
(* createBootstrapDirectory, openPinnedDirectory and writePrivateFile in   *)
(* files.go.  Several launches may aim at one output directory, any may be *)
(* killed, the power may fail, and the operator may move a directory away. *)
(*                                                                         *)
(* External: a file that was synced is durable together with its name, as  *)
(* on a file system with a journal; one that was not may be lost or cut    *)
(* short by a power failure.                                               *)
(***************************************************************************)
EXTENDS Naturals, Sequences

CONSTANTS Launches,  \* runs of the program; also names the directory each made
          OutDirs,   \* the paths given as -out-dir
          NoLaunch,
          Absent     \* a file that is not there

VARIABLES
  dirAt,       \* which directory is at a path
  launchStep,  \* the next system call of a launch
  aim,         \* its -out-dir
  seen,        \* the directory Lstat saw at that path
  held,        \* the directory it has open
  written,     \* how many files it has finished
  contents     \* the files of a directory: who wrote them, and how far that got

launchVars == <<dirAt, launchStep, aim, seen, held, written, contents>>

LaunchSteps == {"make", "examine", "open", "create", "write", "sync", "report",
                "reported", "stopped"}

Marker == "connection.json"
Credentials == {"ca.pem", "certificate.pem", "key.pem", "token"}
BundleFiles == Credentials \cup {Marker}

\* Wrong: the completion marker is not the last file.
MarkerFirst == <<"ca.pem", "certificate.pem", "key.pem", Marker, "token">>
Order       == <<"ca.pem", "certificate.pem", "key.pem", "token", Marker>>

FileStates == [by : Launches, data : {"part", "written", "synced"}]

ASSUME BootstrapAssumption ==
  NoLaunch \notin Launches /\ Absent \notin FileStates

BundleTypeOK ==
  /\ dirAt \in [OutDirs -> Launches \cup {NoLaunch}]
  /\ launchStep \in [Launches -> LaunchSteps]
  /\ aim \in [Launches -> OutDirs]
  /\ seen \in [Launches -> Launches \cup {NoLaunch}]
  /\ held \in [Launches -> Launches \cup {NoLaunch}]
  /\ written \in [Launches -> 0..Len(Order)]
  /\ contents \in [Launches -> [BundleFiles -> FileStates \cup {Absent}]]

BundleInit ==
  /\ dirAt = [p \in OutDirs |-> NoLaunch]
  /\ launchStep = [l \in Launches |-> "make"]
  /\ aim \in [Launches -> OutDirs]
  /\ seen = [l \in Launches |-> NoLaunch] /\ held = [l \in Launches |-> NoLaunch]
  /\ written = [l \in Launches |-> 0]
  /\ contents = [d \in Launches |-> [f \in BundleFiles |-> Absent]]

-----------------------------------------------------------------------------
Goto(l, from, to) == /\ launchStep[l] = from
                     /\ launchStep' = [launchStep EXCEPT ![l] = to]

\* Mkdir refuses a path that exists.
MakeOutDir(l) ==
  /\ Goto(l, "make", "examine")
  /\ dirAt[aim[l]] = NoLaunch
  /\ dirAt' = [dirAt EXCEPT ![aim[l]] = l]
  /\ UNCHANGED <<aim, seen, held, written, contents>>

\* openPinnedDirectory: Lstat, then OpenRoot and SameFile.
ExamineOutDir(l) ==
  /\ Goto(l, "examine", "open")
  /\ dirAt[aim[l]] # NoLaunch
  /\ seen' = [seen EXCEPT ![l] = dirAt[aim[l]]]
  /\ UNCHANGED <<dirAt, aim, held, written, contents>>

OpenOutDir(l) ==
  /\ Goto(l, "open", "create")
  /\ dirAt[aim[l]] = seen[l]
  /\ held' = [held EXCEPT ![l] = dirAt[aim[l]]]
  /\ UNCHANGED <<dirAt, aim, seen, written, contents>>

Current(l) == Order[written[l] + 1]

SetFile(l, data) ==
  contents' = [contents EXCEPT ![held[l]][Current(l)] = [by |-> l, data |-> data]]

\* Wrong: O_TRUNC instead of O_EXCL.
CreateOrTruncate(l) ==
  /\ Goto(l, "create", "write")
  /\ SetFile(l, "part")
  /\ UNCHANGED <<dirAt, aim, seen, held, written>>

CreateFile(l) ==
  /\ Goto(l, "create", "write")
  /\ contents[held[l]][Current(l)] = Absent
  /\ SetFile(l, "part")
  /\ UNCHANGED <<dirAt, aim, seen, held, written>>

WriteFile(l) ==
  /\ Goto(l, "write", "sync")
  /\ SetFile(l, "written")
  /\ UNCHANGED <<dirAt, aim, seen, held, written>>

FinishFile(l) ==
  /\ Goto(l, "sync", IF written[l] + 1 = Len(Order) THEN "report" ELSE "create")
  /\ written' = [written EXCEPT ![l] = @ + 1]
  /\ UNCHANGED <<dirAt, aim, seen, held>>

\* Wrong: the file is closed without Sync.
CloseFile(l) == FinishFile(l) /\ UNCHANGED contents
SyncFile(l)  == FinishFile(l) /\ SetFile(l, "synced")

Report(l) ==
  /\ Goto(l, "report", "reported")
  /\ UNCHANGED <<dirAt, aim, seen, held, written, contents>>

\* Any call fails, or the launch is killed; nothing is rolled back.
Running(l) == launchStep[l] \notin {"reported", "stopped"}

StopLaunch(l) ==
  /\ Running(l)
  /\ launchStep' = [launchStep EXCEPT ![l] = "stopped"]
  /\ UNCHANGED <<dirAt, aim, seen, held, written, contents>>

\* The operator moves a directory away; it is not reused.
MoveAway(p) ==
  /\ dirAt[p] # NoLaunch
  /\ dirAt' = [dirAt EXCEPT ![p] = NoLaunch]
  /\ UNCHANGED <<launchStep, aim, seen, held, written, contents>>

Unsynced == {x \in Launches \X BundleFiles :
               contents[x[1]][x[2]] # Absent /\ contents[x[1]][x[2]].data # "synced"}

\* Of the files that were not synced some are lost and some cut short.
LosePower ==
  /\ \E lost, cut \in SUBSET Unsynced :
       contents' = [d \in Launches |-> [f \in BundleFiles |->
                      IF <<d, f>> \in lost THEN Absent
                      ELSE IF <<d, f>> \in cut THEN [contents[d][f] EXCEPT !.data = "part"]
                      ELSE contents[d][f]]]
  /\ launchStep' = [l \in Launches |-> IF Running(l) THEN "stopped" ELSE launchStep[l]]
  /\ UNCHANGED <<dirAt, aim, seen, held, written>>

BundleNext ==
  \/ \E l \in Launches :
       \/ MakeOutDir(l) \/ ExamineOutDir(l) \/ OpenOutDir(l)
       \/ CreateFile(l) \/ WriteFile(l) \/ SyncFile(l) \/ Report(l) \/ StopLaunch(l)
  \/ \E p \in OutDirs : MoveAway(p)
  \/ LosePower

BundleSpec == BundleInit /\ [][BundleNext]_launchVars

-----------------------------------------------------------------------------
WholeBundle(d, l) == \A f \in BundleFiles : contents[d][f] = [by |-> l, data |-> "synced"]

(***************************************************************************)
(* "connection.json is the completion marker.  Never publish it before all *)
(* server credentials are written successfully" (main.go): where it is,    *)
(* the four credentials are whole and durable, and of the same launch,     *)
(* also when launches raced for the directory and after a kill or a power  *)
(* failure.                                                                *)
(***************************************************************************)
MarkerMeansComplete ==
  \A d \in Launches : contents[d][Marker] # Absent =>
    \A f \in Credentials :
      contents[d][f] = [by |-> contents[d][Marker].by, data |-> "synced"]

(***************************************************************************)
(* A launch that reported its bundle has left all five of its own files,   *)
(* and no later launch and no power failure takes one away.                *)
(***************************************************************************)
ReportedBundlesAreWhole ==
  \A l \in Launches : launchStep[l] = "reported" =>
    held[l] \in Launches /\ WholeBundle(held[l], l)

(***************************************************************************)
(* "Partial private directories remain on errors and must not be reused"   *)
(* (main.go): no launch ever writes to a file another one created.         *)
(***************************************************************************)
NoFileIsTakenOver ==
  [][\A d \in Launches, f \in BundleFiles :
       contents[d][f] # Absent /\ contents'[d][f] # Absent =>
         contents'[d][f].by = contents[d][f].by]_launchVars

(***************************************************************************)
(* Both ways to learn of a bundle, the marker and the report of the        *)
(* launch, mean a whole one.                                               *)
(***************************************************************************)
BundlesAreWhole == MarkerMeansComplete /\ ReportedBundlesAreWhole
=============================================================================
