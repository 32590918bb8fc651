------------------------------ MODULE MCGateway ------------------------------
(* Gateway with two project ids, a project that may be registered natively   *)
(* or as a Windows drive reached from WSL, and a store of two entries.       *)
EXTENDS Gateway

Posix == DefaultOptions
Wsl   == [DefaultOptions EXCEPT !.sourceHost = "wsl", !.wslEnabled = TRUE]
Win32 == [DefaultOptions EXCEPT !.sourceHost = "win32"]
Canon == [DefaultOptions EXCEPT !.sourceHost = "canonical"]
Unnamed == [DefaultOptions EXCEPT !.sourceHost = "undefined"]

Alias(i, kind, hostRoot, o) ==
    [client |-> <<"ide", i, "env">>, kind |-> kind, hostRoot |-> hostRoot, opts |-> o]
Registration(id, root, o, hostRoot, aliases) ==
    [id |-> id, root |-> root, opts |-> o, hostRoot |-> hostRoot, aliases |-> aliases]

Drive   == <<"C", ":", "\\", "x">>
Mounted == <<"/", "mnt", "/", "c", "/", "x">>

MCProjects == {"p", "q"}
MCAliases ==
    {Alias("1", "wsl", Mounted, Wsl), Alias("1", "undefined", <<"/", "x">>, NoOptions),
     Alias("2", "win32", Drive, NoOptions),
     Alias("2", "posix", <<"/", "x", "/", ".">>, NoOptions)}
MCRegistrations ==
    {Registration("p", <<"/", "x">>, Posix, <<"/", "x", "/">>, <<>>),
     Registration("p", Drive, Win32, Undefined, <<Alias("1", "wsl", Mounted, Wsl)>>),
     Registration("p", Drive, Win32, Drive, <<Alias("1", "wsl", Mounted, Wsl), Alias("1", "win32", Drive, NoOptions)>>),
     Registration("q", <<"/", "q">>, Unnamed, Undefined, <<>>),
     Registration("", <<"/", "q">>, Posix, Undefined, <<>>),
     Registration(NUL, <<"/", "q">>, Posix, Undefined, <<>>),
     Registration("q", <<"c", ":", "/", "x">>, Canon, Drive, <<>>)}
MCSelectors == {[client |-> <<"undefined", "undefined", "undefined">>, kind |-> k] : k \in {"undefined", "wsl"}}
               \cup {[client |-> <<"ide", "undefined", "env">>, kind |-> "undefined"]}

MCUnityPaths == {<<"Assets", "/", ".", "/", "x">>, <<"Packages", "\\", "x">>, <<"Assets", "x">>}
MCFileNames  == {Undefined, <<>>, <<"con", ".", "x">>, <<" ", ":", "/", "-">>, [i \in 1..14 |-> IF i = 2 THEN "/" ELSE "x"]}
MCServicePaths ==
    {<<"Assets", "/", "x">>, <<"Packages", "\\", "x">>, <<"Packages", "/", "manifest.json">>,
     <<"job-artifacts", "/", "x">>, <<"index", "/", "x">>, <<"x", "/", ".", ".">>, <<"x", "%2F", "x">>,
     <<"x", NUL>>, <<"c", ":", "/", "x">>}
MCServiceNames ==
    {<<>>, <<"x", NUL>>, <<"con", ".", "x">>, <<" ", ":", "/", "-">>, <<"con", ".">>,
     [i \in 1..14 |-> CASE i = 2 -> "/" [] i = 3 -> ":" [] OTHER -> "x"]}
MCUnityFiles == [key \in {<<"p", <<"Assets", "/", "x">> >>} |-> <<"a", "b">>]
MCScopedPaths == {<<"x">>, <<"job-artifacts", "/", "x">>, <<"job-artifacts", "/", "x", "LF">>,
                  <<"job-artifacts", "x">>, <<"Assets", "/", "x">>, <<"job-artifacts", "/", ".", ".">>}
MCGlobs == {<<"*", "*">>, <<"job-artifacts", "/", "?">>, <<"?", "*">>, <<"job-artifacts", "/", "*", "*", "*">>,
            <<"Assets", "*">>}
MCTexts == {<<>>, <<"a", "b">>}
MCSeeds ==
    LET seed(id, path) == [id |-> id, scope |-> "artifact", path |-> path, text |-> <<"a">>]
    IN {<<>>, <<seed("p", <<"job-artifacts", "/", "x">>), seed("q", <<"job-artifacts", "/", "x">>)>>}

\* A collator's order: by length, and a control character does not count.
MCRank(p) == Len(p) - (IF Has(p, "LF") THEN 1 ELSE 0)
=============================================================================
