---------------------------- MODULE RootBinding ----------------------------
(***************************************************************************)
(* How the daemon binds its allowed roots when it starts: openAllowedRoots *)
(* and bindAllowedRoot in canonicalfsrpc/server.go.  Each root is opened   *)
(* by its configured name, the name is resolved, and both names are opened *)
(* again to be compared with the first handle.  A step is one system call; *)
(* other processes rename and replace directories and links between them.  *)
(***************************************************************************)
EXTENDS Naturals, Sequences

CONSTANTS HostNames,     \* absolute clean path names
          HostDirs,      \* identities (device and inode) of directories
          NoDir,         \* what a name leads to that is no directory
          Invalid,       \* what cleanHostRootAlias refuses
          Configurations \* the values of options.AllowedRoots, cleaned

ASSUME RootBindingAssumption ==
  /\ Configurations \subseteq Seq(HostNames \cup {Invalid})
  /\ Invalid \notin HostNames /\ NoDir \notin HostDirs

VARIABLES
  given,     \* options.AllowedRoots
  leads,     \* where a name leads at the moment, whatever links are on its way
  bound,     \* the allowed roots so far
  turn,      \* position in given
  bindStep,  \* the next system call
  root,      \* what the handle that may be kept was opened on
  resolved,  \* what EvalSymlinks returned
  candidate, \* what the handle compared with it was opened on
  open,      \* the open handles: for each turn the one to keep, the compared one
  wasAt      \* history: where each name has led since root's name was resolved

bindVars == <<given, leads, bound, turn, bindStep, root, resolved, candidate, open, wasAt>>

BindSteps == {"next", "identify", "resolve", "alias", "sameAlias", "real", "sameReal",
              "keep", "started", "refused", "closed"}

ToKeep(i)   == [turn |-> i, role |-> "root"]
ToCompare(i) == [turn |-> i, role |-> "candidate"]

Bindings == [turn : Nat, alias : HostNames, path : HostNames, dir : HostDirs]

BindTypeOK ==
  /\ given \in Configurations
  /\ leads \in [HostNames -> HostDirs \cup {NoDir}]
  /\ bound \in Seq(Bindings)
  /\ turn \in 1..(Len(given) + 1)
  /\ bindStep \in BindSteps
  /\ root \in HostDirs \cup {NoDir} /\ candidate \in HostDirs \cup {NoDir}
  /\ resolved \in HostNames \cup {Invalid}
  /\ open \subseteq [turn : Nat, role : {"root", "candidate"}]
  /\ wasAt \in [HostNames -> SUBSET (HostDirs \cup {NoDir})]

BindInit ==
  /\ given \in Configurations
  /\ leads \in [HostNames -> HostDirs \cup {NoDir}]
  /\ bound = <<>> /\ turn = 1 /\ bindStep = "next"
  /\ root = NoDir /\ resolved = Invalid /\ candidate = NoDir
  /\ open = {}
  /\ wasAt = [n \in HostNames |-> {}]

-----------------------------------------------------------------------------
Alias == given[turn]

KeptHandles == {ToKeep(bound[i].turn) : i \in DOMAIN bound}

AlreadyBound(n) == \E i \in DOMAIN bound : bound[i].alias = n

Finished == bindStep \in {"started", "refused", "closed"}

\* Another process moves a directory, or a link on the way of a name.
Move(n, d) ==
  /\ ~Finished
  /\ leads' = [leads EXCEPT ![n] = d]
  /\ wasAt' = [wasAt EXCEPT ![n] = @ \cup {d}]
  /\ UNCHANGED <<given, bound, turn, bindStep, root, resolved, candidate, open>>

\* Wrong: a root that cannot be opened is passed over as well.
SkipMissing ==
  /\ bindStep = "next" /\ turn <= Len(given) /\ Alias # Invalid
  /\ AlreadyBound(Alias) \/ leads[Alias] = NoDir
  /\ turn' = turn + 1
  /\ UNCHANGED <<given, leads, bound, bindStep, root, resolved, candidate, open, wasAt>>

SkipSeen ==
  /\ bindStep = "next" /\ turn <= Len(given)
  /\ AlreadyBound(Alias)
  /\ turn' = turn + 1
  /\ UNCHANGED <<given, leads, bound, bindStep, root, resolved, candidate, open, wasAt>>

OpenAlias ==
  /\ bindStep = "next" /\ turn <= Len(given)
  /\ Alias # Invalid /\ ~AlreadyBound(Alias)
  /\ leads[Alias] # NoDir
  /\ root' = leads[Alias] /\ open' = open \cup {ToKeep(turn)}
  /\ bindStep' = "identify"
  /\ UNCHANGED <<given, leads, bound, turn, resolved, candidate, wasAt>>

\* Stat of the handle: its identity is that of the object it was opened on.
Identify ==
  /\ bindStep = "identify" /\ bindStep' = "resolve"
  /\ UNCHANGED <<given, leads, bound, turn, root, resolved, candidate, open, wasAt>>

\* EvalSymlinks reads link after link while they change: it may return any name.
ResolveAlias ==
  /\ bindStep = "resolve" /\ bindStep' = "alias"
  /\ resolved' \in HostNames
  /\ wasAt' = [n \in HostNames |-> {leads[n]}]
  /\ UNCHANGED <<given, leads, bound, turn, root, candidate, open>>

OpenCandidate(step, name, then) ==
  /\ bindStep = step /\ leads[name] # NoDir
  /\ candidate' = leads[name] /\ open' = open \cup {ToCompare(turn)}
  /\ bindStep' = then
  /\ UNCHANGED <<given, leads, bound, turn, root, resolved, wasAt>>

\* Stat, Close, os.SameFile.
AcceptCandidate(step, then) ==
  /\ bindStep = step /\ candidate = root
  /\ open' = open \ {ToCompare(turn)}
  /\ bindStep' = then
  /\ UNCHANGED <<given, leads, bound, turn, root, resolved, candidate, wasAt>>

\* Wrong: only the configured name is opened again.
CompareAliasOnly == \/ OpenCandidate("alias", Alias, "sameAlias")
                    \/ AcceptCandidate("sameAlias", "keep")

CompareNames == \/ OpenCandidate("alias", Alias, "sameAlias")
                \/ AcceptCandidate("sameAlias", "real")
                \/ OpenCandidate("real", resolved, "sameReal")
                \/ AcceptCandidate("sameReal", "keep")

KeepRoot ==
  /\ bindStep = "keep" /\ bindStep' = "next"
  /\ bound' = Append(bound, [turn |-> turn, alias |-> Alias, path |-> resolved, dir |-> root])
  /\ turn' = turn + 1
  /\ UNCHANGED <<given, leads, root, resolved, candidate, open, wasAt>>

StartServer ==
  /\ bindStep = "next" /\ turn > Len(given) /\ bound # <<>>
  /\ bindStep' = "started"
  /\ UNCHANGED <<given, leads, bound, turn, root, resolved, candidate, open, wasAt>>

(***************************************************************************)
(* A name is refused, a call fails (any may), a comparison does not hold,  *)
(* or no root is configured.  The deferred closes run: of the handle in    *)
(* hand in bindAllowedRoot, of the roots before it in openAllowedRoots.    *)
(***************************************************************************)
MayFail == /\ ~Finished /\ bindStep # "keep"
           /\ bindStep = "next" =>
                IF turn > Len(given) THEN bound = <<>> ELSE ~AlreadyBound(Alias)

\* Wrong: the roots bound before stay open.
RefuseForgetting ==
  /\ MayFail /\ bindStep' = "refused"
  /\ open' = open \ {ToKeep(turn), ToCompare(turn)}
  /\ UNCHANGED <<given, leads, bound, turn, root, resolved, candidate, wasAt>>

RefuseToStart ==
  /\ MayFail /\ bindStep' = "refused"
  /\ open' = open \ ({ToKeep(turn), ToCompare(turn)} \cup KeptHandles)
  /\ UNCHANGED <<given, leads, bound, turn, root, resolved, candidate, wasAt>>

CloseServer ==
  /\ bindStep = "started" /\ bindStep' = "closed"
  /\ open' = open \ KeptHandles /\ bound' = <<>>
  /\ UNCHANGED <<given, leads, turn, root, resolved, candidate, wasAt>>

BindNext ==
  \/ \E n \in HostNames, d \in HostDirs \cup {NoDir} : Move(n, d)
  \/ SkipSeen \/ OpenAlias \/ Identify \/ ResolveAlias \/ CompareNames \/ KeepRoot
  \/ StartServer \/ RefuseToStart \/ CloseServer

BindSpec == BindInit /\ [][BindNext]_bindVars

-----------------------------------------------------------------------------
(* Properties.                                                             *)

(***************************************************************************)
(* "Names that identify a different object are rejected" (server.go,       *)
(* bindAllowedRoot): a directory becomes an authority only if, after the   *)
(* configured name was resolved, that name and the resolved one each led   *)
(* to it at some moment, however names were moved in between.              *)
(***************************************************************************)
AuthorityWasNamed ==
  [][Len(bound') > Len(bound) =>
       LET new == bound'[Len(bound')]
       IN  new.dir \in wasAt[new.alias] \cap wasAt[new.path]]_bindVars

(***************************************************************************)
(* "If an alias disappears, resolves to a different object, or cannot be   *)
(* verified, construction fails and closes its acquired handles.  Failure  *)
(* while opening a later allowed root also closes earlier roots"           *)
(* (docs/daemon-tls-bootstrap.md): no handle outlives a refused start or a *)
(* closed server, and a started one has just the handles of its roots.     *)
(***************************************************************************)
HandlesAreOwned ==
  /\ bindStep \in {"refused", "closed"} => open = {}
  /\ bindStep = "started" => open = KeptHandles

(***************************************************************************)
(* A server that starts serves the whole configuration: every configured   *)
(* name is bound, once however often it is listed, and nothing else.       *)
(***************************************************************************)
ConfigurationIsBound ==
  bindStep = "started" =>
    /\ {bound[i].alias : i \in DOMAIN bound} = {given[i] : i \in DOMAIN given}
    /\ \A i, j \in DOMAIN bound : bound[i].alias = bound[j].alias => i = j

(***************************************************************************)
(* A start takes effect as a whole: the configuration is bound and its     *)
(* handles are held, or none of them is open.                              *)
(***************************************************************************)
StartIsWhole == HandlesAreOwned /\ ConfigurationIsBound
=============================================================================
