--------------------------- MODULE MCVectorHarness ---------------------------
(* Every script of VectorHarness over one case of each kind of the fixtures. *)
EXTENDS VectorHarness

Case(file, op, inputs, options, expected, error) ==
  [file |-> file, op |-> op, inputs |-> inputs, options |-> options, expected |-> expected, error |-> error]
Value(op, inputs, options, expected) == Case("shared", op, inputs, options, expected, Absent)
Refused(op, inputs, options) == Case("shared", op, inputs, options, Absent, "e1")

None == << >>
Raw == [raw |-> "r"]
Two == [root |-> "r", target |-> "t"]
Units == [rawUtf16 |-> "u"]

AllCases ==
  <<Value("normalize", Raw, None, "v"),
    Refused("normalize", Raw, [sourceHost |-> "wsl", enabled |-> "true", mountRoot |-> "/m"]),
    Refused("normalize", [raw |-> "nul"], [sourceHost |-> "posix"]),
    Value("normalize", Raw, [enabled |-> "true", rejectEncodedSlash |-> "false"], "v"),
    Value("is-equal", Two, None, "true"),
    Value("is-equal", Two, [sourceHost |-> "posix"], "false"),
    Value("relative", Two, None, "v"),
    Value("join", [root |-> "r", relative |-> "t"], None, "v"),
    Value("to-wsl", Raw, [mountRoot |-> "/m"], "v"),
    Refused("to-win32", Raw, None),
    Value("sanitize-component", [raw |-> "r", profile |-> "p"], None, "v"),
    Value("encode-git-ref", Raw, None, "v"),
    Case("git-ref-utf16", "encode-git-ref", Units, None, Absent, "e1"),
    Case("uri-utf16", "normalize", Units, [rejectEncodedSlash |-> "false"], Absent, "e1")>>

MCCases == [files \in SUBSET Files |-> SelectSeq(AllCases, LAMBDA c : c.file \in files)]

MCAnswers == {[ok |-> TRUE, text |-> t] : t \in {"v", "", "true", "false"}}
        \cup {[ok |-> FALSE, text |-> t] : t \in {"e1", "e2"}}
=============================================================================
