-------------------------- MODULE MCFileOperations --------------------------
(***************************************************************************)
(* PinnedFile, MkdirAll, RootBinding and BootstrapBundle, whose actors do  *)
(* not meet: a behaviour is about one of them (subject) and the others     *)
(* stay as they are.                                                       *)
(*                                                                         *)
(* PinnedFile has a scope anchor one level below the project root: two     *)
(* directories, a special file and links compete for two names in the      *)
(* root; two regular files, the special file and links for two below it.   *)
(* In the root no operation reaches a leaf, so the special file stands for *)
(* everything there that is no directory.                                  *)
(*                                                                         *)
(* MkdirAll has two callers, which make a/b, a/b/c and a/d.  RootBinding   *)
(* has two names and two directories: a repeated name, two names, a name   *)
(* that is refused after one that is bound, and no name.  BootstrapBundle  *)
(* has two launches and one output directory, so that they race for it.    *)
(***************************************************************************)
EXTENDS PinnedFile, MkdirAll, RootBinding, BootstrapBundle, TLC

CONSTANTS top, a1, a2, f1, f2, pipe, x, y, c1, c2, link, target, d1, d2, l1, l2

MCDirs   == {top, a1, a2}
MCFiles  == {f1, f2}
MCBelow  == [d \in MCDirs |-> IF d = top THEN {a1, a2, pipe}
                              ELSE IF d = a1 THEN {f1, f2, pipe} ELSE {}]
MCAnchor == <<x>>

MCPlaces == {"a", "ab", "abc", "ad"}
MCUpper  == [p \in MCPlaces |-> IF p = "a" THEN "root" ELSE IF p = "abc" THEN "ab" ELSE "a"]
MCGoals  == {<<"a", "ab">>, <<"a", "ab", "abc">>, <<"a", "ad">>}

MCConfigurations == {<<link, link>>, <<link, target>>, <<target, Invalid>>, <<>>}

FileSymmetry == Permutations(MCFiles)

VARIABLE subject

FilesInit ==
  /\ subject \in {"leaf", "path", "start", "bundle"}
  /\ IF subject = "path" THEN TRUE ELSE goal = [c \in Callers |-> <<"a", "ad">>]
  /\ IF subject = "start" THEN TRUE
     ELSE given = <<>> /\ leads = [n \in HostNames |-> NoDir]
  /\ Init /\ MkdirInit /\ BindInit /\ BundleInit

FilesNext ==
  \/ subject = "leaf"   /\ Next       /\ UNCHANGED <<subject, mkVars, bindVars, launchVars>>
  \/ subject = "path"   /\ MkdirNext  /\ UNCHANGED <<subject, vars, bindVars, launchVars>>
  \/ subject = "start"  /\ BindNext   /\ UNCHANGED <<subject, vars, mkVars, launchVars>>
  \/ subject = "bundle" /\ BundleNext /\ UNCHANGED <<subject, vars, mkVars, bindVars>>

FilesSpec == FilesInit /\ [][FilesNext]_<<subject, vars, mkVars, bindVars, launchVars>>
=============================================================================
