---------------------------- MODULE MCPathIdentity ----------------------------
(* PathIdentity with texts that start like every root the code tells apart,  *)
(* up to three components chosen for the markers, dots, drives, colons,      *)
(* backslashes and escapes they hold, and nine sets of options.              *)
EXTENDS PathIdentity

MCStarts == {<<>>, <<"/">>, <<"/", "/">>, <<"/", "/", "/">>, <<".", "/">>,
             <<"C", ":", "/">>, <<"d", ":", "\\">>, <<"/", "c", ":", "/">>,
             <<"\\", "\\">>, <<"/", "/", "?", "/">>, <<"\\", "\\", "?", "\\", "UNC", "\\">>,
             <<"/", "mnt", "/">>, <<" ", "c", "/">>,
             <<"file", ":", "/", "/", "/">>, <<"file", ":", "/", "/">>,
             <<"vscode-file", ":", "/", "/", "srv", "/">>}
MCNames  == {<<"x">>, <<"c">>, <<".", ".">>, <<"c", ":">>, <<"C", ":", "x">>, <<"x", "\\", "c">>,
             <<"%63">>, <<>>}
MCRelatives == {<<"x">>, <<".", ".">>, <<"x", "/", ".", ".">>, <<".", "/", "c", ":">>,
                <<"C", ":", "x", "/", "c">>, <<"x", "\\", "c">>, <<"/", "x">>}
MCRawNames == {<<>>, <<"con", ".">>, <<"c", ":", "/", "LF", "x">>}
MCRefs == {<<"/", "%", "c", "HIGH", "LOW", "d", "x">>, <<"LOW", "HIGH">>, <<"/">>}
MCOptions ==
    {CanonicalHost, PosixHost, AnyHost, Win32Host,
     WSLHost(<<>>), WSLHost(<<"/">>), WSLHost(<<"/", "c", ":", "/", ".">>),
     [AnyHost EXCEPT !.allowFileUri = TRUE, !.allowVSCodeFileUri = TRUE, !.targetProfile = "win32-drive"],
     [PosixHost EXCEPT !.trimOuterWhitespace = TRUE, !.rejectDeviceNames = TRUE, !.rejectADS = TRUE,
                       !.targetProfile = "posix"]}
MCDefault == {AnyHost}
=============================================================================
