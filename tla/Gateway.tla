------------------------------- MODULE Gateway -------------------------------
(***************************************************************************)
(* The Unity gateway of packages/ts/src/unity-gateway: the broker that     *)
(* keeps the registered projects and their path aliases, the bridge that   *)
(* keeps scoped text in memory under caps, and the tool registry that      *)
(* answers each call with a value or an error and never throws.            *)
(* JavaScript runs one call to its end, so a call is one step.             *)
(***************************************************************************)
EXTENDS ScopedPath, PathSpec, FiniteSets, Functions

CONSTANTS Projects,             \* project ids a call may name
          Registrations,        \* [id, root, opts, hostRoot, aliases] given to registerProject
          AliasRegistrations,   \* [client, kind, hostRoot, opts] given to registerPathAlias
          Selectors,            \* [client, kind] given to getPathAlias
          UnityPaths, FileNames,   \* arguments of the path tools
          ServicePaths, ServiceNames,   \* arguments of the path service
          UnityFiles,           \* the texts the bridge was given, by <<project, Unity path>>
          ScopedPaths, Globs, Texts, Seeds,   \* arguments of the scoped tools
          Limits, NameLimits,   \* maxChars and maxEntries, and lengths of file names
          DefaultNameLength,    \* 128
          Rank(_),              \* the collator's order of paths
          KeyUnits,             \* units of a key before its path
          MaxEntries,           \* most entries one query may return
          MaxStoredEntries, MaxStoredUnits, MaxValueUnits, MaxQueryWork

\* The texts are sequences of characters, the options and registrations records
\* of the types of types.ts, and every seed is one of the paths of the store.
HostKinds ==
    {"posix", "win32", "wsl", "vscode-file-uri", "dev-container", "ssh-remote", "canonical", "undefined"}
NativeOptions ==
    [sourceHost : HostKinds, targetProfile : {"portable", "win32-drive", "posix"},
     trimOuterWhitespace : BOOLEAN, wslEnabled : BOOLEAN, mountRoot : Seq(STRING),
     allowFileUri : BOOLEAN, allowVSCodeFileUri : BOOLEAN, rejectEncodedSlash : BOOLEAN,
     preserveExtendedLength : BOOLEAN, rejectDeviceNames : BOOLEAN, rejectADS : BOOLEAN]
NoOptions == [sourceHost |-> "undefined"]
GivenAliases ==
    [client : Seq(STRING), kind : HostKinds, hostRoot : Seq(STRING), opts : NativeOptions \cup {NoOptions}]
GivenProjects ==
    [id : STRING, root : Seq(STRING), opts : NativeOptions, hostRoot : Seq(STRING), aliases : Seq(GivenAliases)]
GivenSeeds == [id : STRING, scope : WorkflowScopes, path : ScopedPaths, text : Seq(STRING)]

GatewayAssumption ==
    /\ Registrations \subseteq GivenProjects /\ AliasRegistrations \subseteq GivenAliases
    /\ UnityPaths \cup FileNames \cup ServicePaths \cup ServiceNames \cup ScopedPaths \cup Texts \subseteq Seq(STRING)
    /\ Globs \subseteq Seq(STRING \ {"**"})   \* "**" is two characters
    /\ Seeds \subseteq Seq(GivenSeeds)
    /\ \A key \in DOMAIN UnityFiles : UnityFiles[key] \in Seq(STRING)
    /\ \A path \in ScopedPaths : Rank(path) \in Int
    /\ Limits \cup NameLimits \cup {DefaultNameLength} \subseteq Int
    /\ {KeyUnits, MaxEntries, MaxStoredEntries, MaxStoredUnits, MaxValueUnits, MaxQueryWork} \subseteq Nat
ASSUME GatewayAssumption

VARIABLES projects,   \* the registered projects, by id
          bridge,     \* has the bridge been constructed
          files,      \* scoped text, by <<project, scope, path>>
          units,      \* scopedStoredUnits
          answer      \* what the last call returned
gatewayVars == <<projects, bridge, files, units, answer>>

Undefined == <<"undefined">>
NoAnswer == [tool |-> "none", code |-> "ok"]

(***************************************************************************)
(* The broker                                                              *)
(***************************************************************************)
NativeHosts == {"posix", "win32", "wsl"}

\* Which grammar an alias has, and the options it is read with.
AliasKind(alias, inherited) ==
    IF alias.kind # "undefined" THEN alias.kind
    ELSE IF alias.opts.sourceHost # "undefined" THEN alias.opts.sourceHost
    ELSE IF inherited.sourceHost \in NativeHosts THEN inherited.sourceHost ELSE "posix"

DefaultOptions ==
    [sourceHost |-> "posix", targetProfile |-> "portable", trimOuterWhitespace |-> FALSE,
     wslEnabled |-> FALSE, mountRoot |-> <<>>, allowFileUri |-> FALSE, allowVSCodeFileUri |-> FALSE,
     rejectEncodedSlash |-> TRUE, preserveExtendedLength |-> FALSE,
     rejectDeviceNames |-> FALSE, rejectADS |-> FALSE]

nativeAliasOptions(alias, inherited) ==
    LET kind == AliasKind(alias, inherited)
        base == CASE alias.opts # NoOptions -> alias.opts
                  [] alias.opts = NoOptions /\ inherited.sourceHost = kind -> inherited
                  [] OTHER -> DefaultOptions
    IN Unless(\/ kind \notin NativeHosts
              \/ alias.opts.sourceHost \notin {"undefined", kind}
              \/ base.trimOuterWhitespace
              \/ kind = "wsl" /\ ~base.wslEnabled,
              "ERR_INVALID_PATH", Ok([base EXCEPT !.sourceHost = kind]))

IsAbsoluteNative(root, kind) ==
    IF kind = "win32" THEN HasDriveRoot(root) \/ StartsWith(root, <<"/", "/">>)
    ELSE /\ StartsWith(root, <<"/">>)
         /\ StartsWith(root, <<"/", "/">>) => StartsWith(root, <<"/", "/", "/">>)

\* The strings of a registration are looked at one after another.
assertAliasStrings(alias) ==
    LET bad == {i \in DOMAIN alias.client : alias.client[i] \in {"", NUL}}
    IN IF bad # {}
       THEN Err(IF alias.client[Min(bad)] = "" THEN "ERR_INVALID_PATH" ELSE "ERR_NUL_BYTE")
       ELSE Unless(alias.hostRoot = <<>>, "ERR_INVALID_PATH",
              Unless(Has(alias.hostRoot, NUL), "ERR_NUL_BYTE", Ok(alias)))

createPathAlias(project, alias) ==
    Then(assertAliasStrings(alias), LAMBDA given :
      Then(nativeAliasOptions(given, project.opts), LAMBDA o :
        LET native == IF o.sourceHost = "win32" THEN Slashed(alias.hostRoot) ELSE alias.hostRoot
            dots == ToSet(Split(native)) \cap {<<".">>, <<".", ".">>} # {}
        IN Unless(~IsAbsoluteNative(native, o.sourceHost) \/ dots, "ERR_INVALID_PATH",
             Then(normalizeProjectRoot(alias.hostRoot, o), LAMBDA identity :
               Unless(identity # project.root, "ERR_INVALID_PATH",
                 Ok([client |-> alias.client, kind |-> o.sourceHost,
                     hostRoot |-> alias.hostRoot, opts |-> o]))))))

pathAliasKey(alias) == alias.client

addPathAlias(project, alias) ==
    Then(createPathAlias(project, alias), LAMBDA created :
      Unless(\E i \in DOMAIN project.aliases : pathAliasKey(project.aliases[i]) = pathAliasKey(created),
             "ERR_INVALID_PATH", Ok([project EXCEPT !.aliases = Append(@, created)])))

AllAliases(project, aliases) ==
    LET record[i \in 0..Len(aliases)] ==
          IF i = 0 THEN Ok(project) ELSE Then(record[i - 1], LAMBDA p : addPathAlias(p, aliases[i]))
    IN record[Len(aliases)]

\* A project that names no host is read as POSIX.
ProjectOptions(reg) == [reg.opts EXCEPT !.sourceHost = IF @ = "undefined" THEN "posix" ELSE @]

DefaultAlias(reg) ==
    [client |-> <<"gateway", "default", "default">>, kind |-> ProjectOptions(reg).sourceHost,
     hostRoot |-> reg.hostRoot, opts |-> ProjectOptions(reg)]

\* Wrong: a project that is registered again keeps the aliases it had.
NewRecordKeepsAliases(reg, root) ==
    [root |-> root, opts |-> ProjectOptions(reg), hostRoot |-> reg.hostRoot,
     aliases |-> IF reg.id \in DOMAIN projects THEN projects[reg.id].aliases ELSE <<>>]
NewRecord(reg, root) ==
    [root |-> root, opts |-> ProjectOptions(reg), hostRoot |-> reg.hostRoot, aliases |-> <<>>]

\* The record of a registration: none of it is kept unless all of it is right.
ProjectRecord(reg) ==
    Unless(reg.id = "", "ERR_INVALID_PATH",
      Unless(reg.id = NUL, "ERR_NUL_BYTE",
        Then(normalizeProjectRoot(reg.root, ProjectOptions(reg)), LAMBDA root :
          Unless(reg.hostRoot # Undefined /\ ProjectOptions(reg).sourceHost \notin NativeHosts, "ERR_INVALID_PATH",
            AllAliases(NewRecord(reg, root),
                       (IF reg.hostRoot = Undefined THEN <<>> ELSE <<DefaultAlias(reg)>>)
                       \o reg.aliases)))))

requireProject(id) ==
    IF id \in DOMAIN projects THEN Ok(projects[id]) ELSE Err("ERR_INVALID_PATH")

pathAliasMatches(alias, selector) ==
    /\ \A i \in 1..3 : selector.client[i] \in {"undefined", alias.client[i]}
    /\ selector.kind \in {"undefined", alias.kind}

resolveHostRoot(id, selector) ==
    Then(requireProject(id), LAMBDA project :
      LET matches == {i \in DOMAIN project.aliases : pathAliasMatches(project.aliases[i], selector)}
          any == \A i \in 1..3 : selector.client[i] = "undefined"
      IN IF any /\ selector.kind = "undefined"
         THEN Ok(IF project.hostRoot # Undefined THEN project.hostRoot
                 ELSE IF Len(project.aliases) = 1 THEN project.aliases[1].hostRoot ELSE Undefined)
         ELSE Unless(Cardinality(matches) # 1, "ERR_INVALID_PATH",
                Ok(project.aliases[CHOOSE i \in matches : TRUE].hostRoot)))

validateUnityAssetPath(id, raw, name, maxLength) ==
    Then(requireProject(id), LAMBDA project :
      Then(normalizeUnityAssetPath(raw), LAMBDA unityPath :
        Then(fromUnityAssetPath(project.root, unityPath), LAMBDA full :
          Then(IF name = Undefined THEN Ok(Undefined) ELSE makeSafeFileName(name, maxLength), LAMBDA safe :
            Ok([unityPath |-> unityPath, canonicalPath |-> full, safeFileName |-> safe])))))

(***************************************************************************)
(* The bridge's store                                                      *)
(***************************************************************************)
scopedFileKey(id, scope, path) == <<id, scope, path>>
Units(key) == KeyUnits + Len(key[3])

resolveWorkflowPath(id, scope, path) ==
    Then(requireProject(id), LAMBDA project : normalizeScopedPath(scope, path))

boundedPositiveInteger(n, hardCap) == Unless(n < 1 \/ n > hardCap, "ERR_INVALID_PATH", Ok(n))

\* The store with the text, or the cap that refuses it.
\* Wrong: a replacement is charged like a new entry.
storeScopedTextRecharges(store, key, text) ==
    LET projected == store.units + Units(key) + Len(text)
    IN Unless(\/ Len(text) > MaxValueUnits
              \/ key \notin DOMAIN store.files /\ Cardinality(DOMAIN store.files) >= MaxStoredEntries
              \/ projected > MaxStoredUnits,
              "ERR_INVALID_PATH",
              Ok([files |-> [k \in DOMAIN store.files \cup {key} |->
                               IF k = key THEN text ELSE store.files[k]],
                  units |-> projected]))

storeScopedText(store, key, text) ==
    LET new == key \notin DOMAIN store.files
        projected == store.units + (IF new THEN Units(key) ELSE 0) + Len(text)
                     - (IF new THEN 0 ELSE Len(store.files[key]))
    IN Unless(\/ Len(text) > MaxValueUnits
              \/ new /\ Cardinality(DOMAIN store.files) >= MaxStoredEntries
              \/ projected > MaxStoredUnits,
              "ERR_INVALID_PATH",
              Ok([files |-> [k \in DOMAIN store.files \cup {key} |->
                               IF k = key THEN text ELSE store.files[k]],
                  units |-> projected]))

storeSeed(store, seed) ==
    Then(resolveWorkflowPath(seed.id, seed.scope, seed.path), LAMBDA resolved :
      storeScopedText(store, scopedFileKey(seed.id, seed.scope, seed.path), seed.text))
seedStore(seeds) ==
    LET stored[i \in 0..Len(seeds)] ==
          IF i = 0 THEN Ok([files |-> <<>>, units |-> 0])
          ELSE Then(stored[i - 1], LAMBDA store : storeSeed(store, seeds[i]))
    IN stored[Len(seeds)]

(***************************************************************************)
(* Scoped queries                                                          *)
(***************************************************************************)
TwoStars(glob, i) == i < Len(glob) /\ glob[i] = "*" /\ glob[i + 1] = "*"
Starred(tokens) == IF EndsWith(tokens, "**") THEN tokens ELSE Append(tokens, "**")

\* Wrong: the second star of a pair is looked at again.
GlobTokensLookTwice(glob) ==
    LET scanned[i \in 0..Len(glob)] ==
          IF i = 0 THEN <<>>
          ELSE IF TwoStars(glob, i) THEN Starred(scanned[i - 1]) ELSE Append(scanned[i - 1], glob[i])
    IN scanned[Len(glob)]

\* Two stars are one token, and so are any number of such pairs in a row.
GlobTokens(glob) ==
    LET scanned[i \in 0..Len(glob)] ==
          CASE i = 0 -> [skip |-> FALSE, tokens |-> <<>>]
            [] i > 0 /\ scanned[i - 1].skip -> [skip |-> FALSE, tokens |-> scanned[i - 1].tokens]
            [] i > 0 /\ ~scanned[i - 1].skip /\ TwoStars(glob, i) ->
                 [skip |-> TRUE, tokens |-> Starred(scanned[i - 1].tokens)]
            [] OTHER -> [skip |-> FALSE, tokens |-> Append(scanned[i - 1].tokens, glob[i])]
    IN scanned[Len(glob)].tokens

\* One state per token, and each star is also passed without a unit: the states
\* that no unit leads to, and those that one more unit leads to.
Stars == {"*", "**"}
Passed(tokens, k, i) == \A l \in (k + 1)..i : tokens[l] \in Stars
Entered(tokens, before, x, k) ==
    CASE tokens[k] = "*" -> x # "/" /\ k \in before
      [] tokens[k] = "**" -> x # "LF" /\ k \in before
      [] tokens[k] = "?" -> x # "/" /\ (k - 1) \in before
      [] OTHER -> x = tokens[k] /\ (k - 1) \in before
GlobStart(tokens) == {i \in 0..Len(tokens) : Passed(tokens, 0, i)}
GlobStep(tokens, before, x) ==
    {i \in 1..Len(tokens) : \E k \in 1..i : Entered(tokens, before, x, k) /\ Passed(tokens, k, i)}
compileScopedGlob(glob, path) ==
    LET tokens == GlobTokens(glob)
        states[j \in 0..Len(path)] ==
          IF j = 0 THEN GlobStart(tokens) ELSE GlobStep(tokens, states[j - 1], path[j])
    IN Len(tokens) \in states[Len(path)]

isUnderPrefix(path, prefix) == path = prefix \/ StartsWith(path, Append(prefix, "/"))

\* Paths of one project and scope, and the work of looking at each of them.
PathsOf(id, scope) == {key[3] : key \in {k \in DOMAIN files : k[1] = id /\ k[2] = scope}}
ScanWork(id, scope, Cost(_)) ==
    KeyUnits * Cardinality(DOMAIN files)
    + MapThenSumSet(LAMBDA path : Len(path) + Cost(path), PathsOf(id, scope))

\* Sorting compares every path at least once.  How often depends on the engine,
\* which may compare two paths again: a binary insertion meets the pair that
\* ended the first run a second time.  Only the least and the most matter to the
\* budget, and twice for each pair bounds them.
SortWork(paths) ==
    LET length == MapThenSumSet(LAMBDA path : Len(path), paths)
    IN IF Cardinality(paths) < 2 THEN {0} ELSE {length, 2 * (Cardinality(paths) - 1) * length}

\* The collator may hold two paths for equal; they stay as they were stored,
\* and the order of storing is not kept here.
Sorted(paths) ==
    {s \in Bijection(1..Cardinality(paths), paths) :
       \A i, j \in DOMAIN s : i < j => Rank(s[i]) <= Rank(s[j])}

scopedEntries(id, scope, entries, Cost(_), sorting) ==
    Unless(\/ Cardinality(DOMAIN files) > MaxStoredEntries
           \/ ScanWork(id, scope, Cost) + sorting > MaxQueryWork,
           "ERR_INVALID_PATH", Ok(entries))

Bounded(entries, limit) ==
    [entries |-> SubSeq(entries, 1, Min({limit, Len(entries)})), truncated |-> Len(entries) > limit]

Listed(id, scope, prefix) == {p \in PathsOf(id, scope) : prefix = Undefined \/ isUnderPrefix(p, prefix)}
listScoped(id, scope, prefix, limit, sorted, sorting) ==
    Then(IF prefix = Undefined THEN requireProject(id) ELSE resolveWorkflowPath(id, scope, prefix),
         LAMBDA resolved :
           Then(scopedEntries(id, scope, sorted,
                              LAMBDA p : IF prefix = Undefined THEN 0 ELSE Len(p) + Len(prefix), sorting),
                LAMBDA entries : Ok(Bounded(entries, limit))))

Globbed(id, scope, glob) == {p \in PathsOf(id, scope) : compileScopedGlob(glob, p)}
globScoped(id, scope, glob, limit, sorted, sorting) ==
    LET width == Len(GlobTokens(glob)) + 1
    IN Then(requireProject(id), LAMBDA project :
         Then(normalizeScopedGlobPattern(scope, glob), LAMBDA clean :
           Then(boundedPositiveInteger(limit, MaxEntries), LAMBDA n :
             Then(scopedEntries(id, scope, sorted, LAMBDA p : width * (Len(p) + 1), sorting),
                  LAMBDA entries : Ok(Bounded(entries, n))))))

(***************************************************************************)
(* The calls.  A refused one answers with its error and changes nothing.   *)
(***************************************************************************)
GatewayInit == projects = <<>> /\ bridge = FALSE /\ files = <<>> /\ units = 0 /\ answer = NoAnswer

Answers(tool, args, r) == answer' = [tool |-> tool, args |-> args, code |-> r.code, value |-> r.value]
Put(f, key, value) == [k \in DOMAIN f \cup {key} |-> IF k = key THEN value ELSE f[k]]

RegisterProject(reg) ==
    LET record == ProjectRecord(reg)
    IN /\ projects' = IF IsOk(record) THEN Put(projects, reg.id, record.value) ELSE projects
       /\ Answers("registerProject", reg.id, record)
       /\ UNCHANGED <<bridge, files, units>>

RegisterPathAlias(id, alias) ==
    LET added == Then(requireProject(id), LAMBDA project : addPathAlias(project, alias))
    IN /\ projects' = IF IsOk(added) THEN [projects EXCEPT ![id] = added.value] ELSE projects
       /\ Answers("registerPathAlias", id, added)
       /\ UNCHANGED <<bridge, files, units>>

ResolveHostRoot(id, selector) ==
    /\ Answers("hostRoot", id, resolveHostRoot(id, selector))
    /\ UNCHANGED <<projects, bridge, files, units>>

\* The constructor takes all of the seeds or throws.
Construct(seeds) ==
    /\ ~bridge
    /\ LET seeded == seedStore(seeds)
       IN /\ bridge' = IsOk(seeded)
          /\ files' = IF IsOk(seeded) THEN seeded.value.files ELSE files
          /\ units' = IF IsOk(seeded) THEN seeded.value.units ELSE units
          /\ Answers("construct", seeds, seeded)
    /\ UNCHANGED projects

\* The path service keeps nothing; the root comes from the broker's record.
ServiceCall ==
    /\ \E raw \in ServicePaths :
         \/ Answers("normalizeUnityAssetPath", raw, normalizeUnityAssetPath(raw))
         \/ \E scope \in Scopes :
              \/ Answers("normalizeScopedPath", <<scope, raw>>, normalizeScopedPath(scope, raw))
              \/ \E id \in DOMAIN projects :
                   Answers("toScopedCanonicalPath", <<id, scope, raw>>,
                           toScopedCanonicalPath(projects[id].root, scope, raw))
    /\ UNCHANGED <<projects, bridge, files, units>>
NameCall ==
    /\ \E name \in ServiceNames, n \in NameLimits :
         Answers("makeSafeFileName", <<name, n>>, makeSafeFileName(name, n))
    /\ UNCHANGED <<projects, bridge, files, units>>

\* A call reaches the bridge directly or through the tools, which refuse an
\* empty string argument before the bridge is asked.
Vias == {"bridge", "tools"}
ToolArguments(via, strings) ==
    Unless(via = "tools" /\ <<>> \in ToSet(strings), "ERR_INVALID_PATH", Ok(strings))

ValidatePath(via, id, path, name, maxLength) ==
    /\ bridge
    /\ Answers("validatePath", <<id, maxLength>>,
               Then(ToolArguments(via, <<path, name>>), LAMBDA given :
                 validateUnityAssetPath(id, path, name, maxLength)))
    /\ UNCHANGED <<projects, bridge, files, units>>

ReadText(id, path, maxChars) ==
    /\ bridge
    /\ Answers("readText", <<id, path>>,
               Then(boundedPositiveInteger(maxChars, MaxValueUnits), LAMBDA limit :
                 Then(validateUnityAssetPath(id, path, Undefined, DefaultNameLength), LAMBDA valid :
                   LET key == <<id, valid.unityPath>>
                       text == IF key \in DOMAIN UnityFiles THEN UnityFiles[key] ELSE <<>>
                   IN Ok([text |-> SubSeq(text, 1, Min({limit, Len(text)})),
                          truncated |-> Len(text) > limit, projectPath |-> valid.unityPath]))))
    /\ UNCHANGED <<projects, bridge, files, units>>

\* Refreshing assets needs no path, and then no project is looked up.
WriteCommand(via, command, id, path, name) ==
    /\ bridge
    /\ Answers("writeCommand", id,
               Then(ToolArguments(via, <<path, name>>), LAMBDA given :
                 IF path # Undefined THEN validateUnityAssetPath(id, path, name, DefaultNameLength)
                 ELSE Unless(command # "assets.refresh", "ERR_INVALID_PATH", Ok(NoAnswer))))
    /\ UNCHANGED <<projects, bridge, files, units>>

ReadScopedText(id, scope, path, maxChars) ==
    LET key == scopedFileKey(id, scope, path)
        text == IF key \in DOMAIN files THEN files[key] ELSE <<>>
        read == Then(boundedPositiveInteger(maxChars, MaxValueUnits), LAMBDA limit :
                  Then(resolveWorkflowPath(id, scope, path), LAMBDA resolved :
                    Ok([text |-> SubSeq(text, 1, Min({limit, Len(text)})),
                        truncated |-> Len(text) > limit, projectPath |-> resolved])))
    IN /\ bridge
       /\ Answers("read", key, read)
       /\ UNCHANGED <<projects, bridge, files, units>>

\* Wrong: the text is kept before the caps are looked at.
WriteScopedTextKeepsFirst(via, id, scope, path, text, maxChars) ==
    LET key == scopedFileKey(id, scope, path)
        resolved == Then(boundedPositiveInteger(maxChars, MaxValueUnits), LAMBDA limit :
                      Unless(Len(text) > limit, "ERR_INVALID_PATH", resolveWorkflowPath(id, scope, path)))
        stored == Then(resolved, LAMBDA full :
                    storeScopedText([files |-> files, units |-> units], key, text))
    IN /\ bridge
       /\ files' = IF IsOk(resolved) THEN Put(files, key, text) ELSE files
       /\ units' = IF IsOk(stored) THEN stored.value.units ELSE units
       /\ Answers("write", key, Then(stored, LAMBDA store : Ok(Len(text))))
       /\ UNCHANGED <<projects, bridge>>

WriteScopedText(via, id, scope, path, text, maxChars) ==
    LET key == scopedFileKey(id, scope, path)
        stored == Then(ToolArguments(via, <<path, text>>), LAMBDA given :
                    Then(boundedPositiveInteger(maxChars, MaxValueUnits), LAMBDA limit :
                      Unless(Len(text) > limit, "ERR_INVALID_PATH",
                        Then(resolveWorkflowPath(id, scope, path), LAMBDA resolved :
                          storeScopedText([files |-> files, units |-> units], key, text)))))
    IN /\ bridge
       /\ files' = IF IsOk(stored) THEN stored.value.files ELSE files
       /\ units' = IF IsOk(stored) THEN stored.value.units ELSE units
       /\ Answers("write", key, Then(stored, LAMBDA store : Ok(Len(text))))
       /\ UNCHANGED <<projects, bridge>>

ListScoped(id, scope, prefix, limit) ==
    /\ bridge
    /\ \E sorted \in Sorted(Listed(id, scope, prefix)), sorting \in SortWork(Listed(id, scope, prefix)) :
         Answers("list", <<id, scope, prefix, limit>>,
                 Then(boundedPositiveInteger(limit, MaxEntries), LAMBDA n :
                   listScoped(id, scope, prefix, n, sorted, sorting)))
    /\ UNCHANGED <<projects, bridge, files, units>>

GlobScoped(id, scope, glob, limit) ==
    /\ bridge
    /\ \E sorted \in Sorted(Globbed(id, scope, glob)), sorting \in SortWork(Globbed(id, scope, glob)) :
         Answers("glob", <<id, scope, glob, limit>>, globScoped(id, scope, glob, limit, sorted, sorting))
    /\ UNCHANGED <<projects, bridge, files, units>>

BrokerCall ==
    \/ \E reg \in Registrations : RegisterProject(reg)
    \/ \E id \in Projects :
         \/ \E alias \in AliasRegistrations : RegisterPathAlias(id, alias)
         \/ \E selector \in Selectors : ResolveHostRoot(id, selector)

ToolCall ==
    \E id \in Projects, via \in Vias :
        \/ \E path \in UnityPaths, name \in FileNames, n \in NameLimits : ValidatePath(via, id, path, name, n)
        \/ \E path \in UnityPaths, n \in Limits : ReadText(id, path, n)
        \/ \E command \in {"assets.refresh", "scene.save"}, path \in UnityPaths \cup {Undefined},
              name \in FileNames : WriteCommand(via, command, id, path, name)
        \/ \E scope \in WorkflowScopes, n \in Limits :
             \/ \E path \in ScopedPaths : \/ ReadScopedText(id, scope, path, n)
                                         \/ \E text \in Texts : WriteScopedText(via, id, scope, path, text, n)
             \/ \E prefix \in ScopedPaths \cup {Undefined} : ListScoped(id, scope, prefix, n)
             \/ \E glob \in Globs : GlobScoped(id, scope, glob, n)

\* The caller takes the answer before it calls again.
Deliver == answer # NoAnswer /\ answer' = NoAnswer /\ UNCHANGED <<projects, bridge, files, units>>

GatewayNext == \/ answer = NoAnswer /\ (BrokerCall \/ ServiceCall \/ NameCall \/ ToolCall \/ \E seeds \in Seeds : Construct(seeds))
        \/ Deliver

GatewaySpec == GatewayInit /\ [][GatewayNext]_gatewayVars

(***************************************************************************)
(* Properties                                                              *)
(***************************************************************************)
\* Whatever was registered, replaced and refused before: the root of a project
\* is canonical, no two of its aliases answer to one client, and the native
\* text of each alias still reads, under the options kept with it, as the
\* identity of that project.
AliasesSound ==
    \A id \in DOMAIN projects :
        LET p == projects[id]
        IN /\ AssertCanonicalPath(p.root)
           /\ \A i, j \in DOMAIN p.aliases : i # j => p.aliases[i].client # p.aliases[j].client
           /\ \A i \in DOMAIN p.aliases :
                normalizeProjectRoot(p.aliases[i].hostRoot, p.aliases[i].opts) = Ok(p.root)

\* The books of the store are exact after every write, replacement and refusal
\* and within the caps, and every stored path lies in the folder of its scope
\* and belongs to a registered project.
StoreExact ==
    /\ LET charge == [key \in DOMAIN files |-> KeyUnits + Len(key[3]) + Len(files[key])]
       IN units = MapThenSumSet(LAMBDA key : charge[key], DOMAIN files)
    /\ units <= MaxStoredUnits /\ Cardinality(DOMAIN files) <= MaxStoredEntries
    /\ \A key \in DOMAIN files :
         /\ key[1] \in DOMAIN projects
         /\ AssertCanonicalRelativePath(key[3], TRUE)
         /\ key[2] = "artifact" => Split(key[3])[1] \in {<<"job-artifacts">>, <<"screenshots">>}
         /\ key[2] = "knowledge" => Split(key[3])[1] # <<"Assets">>

\* The expression a glob stands for, character by character: two stars are any
\* text within a line, one star any text without a slash, a question mark any
\* character but a slash.
Matches(glob, path) ==
    LET end == Len(path) + 1
        free(j, k, x) == \A i \in j..(k - 1) : path[i] # x
        from[i \in 1..(Len(glob) + 1)] ==   \* where the rest of the glob may start
          CASE i > Len(glob) -> {end}
            [] i <= Len(glob) /\ TwoStars(glob, i) ->
                 {j \in 1..end : \E k \in j..end : free(j, k, "LF") /\ k \in from[i + 2]}
            [] i <= Len(glob) /\ glob[i] = "*" /\ ~TwoStars(glob, i) ->
                 {j \in 1..end : \E k \in j..end : free(j, k, "/") /\ k \in from[i + 1]}
            [] OTHER -> {j \in 1..Len(path) : /\ glob[i] = path[j] \/ (glob[i] = "?" /\ path[j] # "/")
                                              /\ j + 1 \in from[i + 1]}
    IN 1 \in from[1]
Language == [glob \in Globs |-> {path \in ScopedPaths : Matches(glob, path)}]

\* A page of a query: the first entries of everything asked for, in order, and
\* marked truncated exactly when there is more.
PageOf(page, wanted, limit) ==
    /\ IsInjective(page.entries) /\ ToSet(page.entries) \subseteq wanted
    /\ Len(page.entries) = Min({limit, Cardinality(wanted)})
    /\ \A i \in DOMAIN page.entries : \A p \in wanted :
         Rank(p) < Rank(page.entries[i]) => \E j \in 1..(i - 1) : page.entries[j] = p
    /\ page.truncated = (Cardinality(wanted) > limit)

Stored(id, scope) == {path \in ScopedPaths : <<id, scope, path>> \in DOMAIN files}

\* What a scoped tool answers is what the store holds: read returns the start
\* of the text, list all paths under the prefix, glob all paths of the
\* language of the glob (the regular expression that the automaton replaced).
QueriesExact ==
    answer.code = "ok" =>
        /\ answer.tool = "read" =>
             LET text == IF answer.args \in DOMAIN files THEN files[answer.args] ELSE <<>>
             IN /\ IsPrefix(answer.value.text, text)
                /\ answer.value.truncated = (answer.value.text # text)
        /\ answer.tool = "readText" =>
             LET text == CASE <<answer.args[1], answer.value.projectPath>> \in DOMAIN UnityFiles ->
                                UnityFiles[<<answer.args[1], answer.value.projectPath>>]
                           [] OTHER -> <<>>
             IN /\ IsPrefix(answer.value.text, text)
                /\ answer.value.truncated = (answer.value.text # text)
        /\ answer.tool = "list" =>
             PageOf(answer.value,
                    {path \in Stored(answer.args[1], answer.args[2]) :
                       answer.args[3] = Undefined \/ IsPrefix(Split(answer.args[3]), Split(path))},
                    answer.args[4])
        /\ answer.tool = "glob" =>
             PageOf(answer.value,
                    Stored(answer.args[1], answer.args[2]) \cap Language[answer.args[3]],
                    answer.args[4])

\* A Unity path that was validated comes back from its canonical path, a
\* scoped path is found again below the root and inside the roots its scope is
\* given by the spec, a host root that is handed out denotes the project, and a
\* generated name fits its limit and is no device where the limit leaves room;
\* each answer of the path service is one scripts/validate-spec.mjs accepts
\* (whose vectors give a name a positive limit).
PathsExact ==
    /\ answer.tool = "normalizeUnityAssetPath" => UnityBridgeVector(answer.tool, answer.args, 0, answer)
    /\ answer.tool = "makeSafeFileName" /\ answer.args[2] > 0 =>
         UnityBridgeVector(answer.tool, answer.args[1], answer.args[2], answer)
    /\ answer.tool = "normalizeScopedPath" => UnityMcpScopeVector(answer.args[1], answer.args[2], answer)
    /\ answer.code = "ok" =>
         /\ answer.tool = "makeSafeFileName" /\ answer.args[2] > 10 =>
              HasReservedDeviceName(answer.value) = Ok(FALSE)
         /\ answer.tool = "toScopedCanonicalPath" =>
              Relative(projects[answer.args[1]].root, answer.value)
                = normalizeScopedPath(answer.args[2], answer.args[3])
         /\ answer.tool = "validatePath" =>
              /\ toUnityAssetPath(projects[answer.args[1]].root, answer.value.canonicalPath)
                   = Ok(answer.value.unityPath)
              /\ answer.value.safeFileName # Undefined =>
                   assertSafeFileName(answer.value.safeFileName, answer.args[2])
         /\ answer.tool = "hostRoot" /\ answer.value # Undefined =>
              \E alias \in ToSet(projects[answer.args].aliases) :
                  /\ alias.hostRoot = answer.value
                  /\ Normalize(answer.value, alias.opts) = Ok(projects[answer.args].root)

\* A call that answers with an error leaves everything as it was: half a
\* registration, half the seeds or a charge for text not kept never stay.
RefusedChangesNothing ==
    [][answer'.code # "ok" => UNCHANGED <<projects, bridge, files, units>>]_gatewayVars
=============================================================================
