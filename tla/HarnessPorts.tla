----------------------------- MODULE HarnessPorts -----------------------------
(***************************************************************************)
(* What the scripts run-<port>-canonicalpath-vectors.mjs do with a case of *)
(* the fixtures, port by port: the question put to the port (<Port>Asks),  *)
(* the comparison of its answer (<Port>Passes), the laws of the contract   *)
(* the program checks besides (<Port>Laws), and the script around it       *)
(* (<Port>Harness): may it be skipped, which files it loads, does it keep  *)
(* its directory, does it go on after a failure, and its programs.         *)
(*                                                                         *)
(* A case has its operation, its inputs and options (functions on the      *)
(* fields that are given), and what is expected: a value or an error.      *)
(* Four options stand for all: a text without default, a flag, a text with *)
(* a default, and a flag that is on unless it is switched off.             *)
(***************************************************************************)
EXTENDS Integers, Sequences, Functions

Files == {"shared", "git-ref-utf16", "uri-utf16"}

Absent == "absent"
OrElse(value, default) == IF value = Absent THEN default ELSE value
Only(f, fields) == Restrict(f, fields \cap DOMAIN f)
Given(f, field) == IF field \in DOMAIN f THEN f[field] ELSE Absent

Laws == {"native", "reparse", "posix", "join", "canonical", "mount", "strict",
         "parts", "roots", "self", "grammar", "literal", "bytes", "replacement", "bridge"}

(***************************************************************************)
(* Questions.  UTF-16 units are given in place of raw for two operations.  *)
(***************************************************************************)
Operands(op) ==
  CASE op = "relative"                                    -> <<"root", "target">>
    [] op = "is-equal"                                    -> <<"root", "target">>
    [] op = "join"                                        -> <<"root", "relative">>
    [] op \in {"sanitize-component", "encode-component"}  -> <<"raw", "profile">>
    [] OTHER                                              -> <<"raw">>

\* The operands of c, where units are read for the operations unitOps.
Read(c, unitOps) ==
  LET units == c.op \in unitOps /\ "rawUtf16" \in DOMAIN c.inputs
  IN [i \in DOMAIN Operands(c.op) |->
        Given(c.inputs, IF units THEN "rawUtf16" ELSE Operands(c.op)[i])]

Defaults == [sourceHost |-> Absent, enabled |-> "false", mountRoot |-> "/mnt", rejectEncodedSlash |-> "true"]
Effective(options) == [f \in DOMAIN Defaults |-> OrElse(Given(options, f), Defaults[f])]

\* The options that reach the port: all, those of WSL, or none.
Passed(op, options) ==
  CASE op \in {"normalize", "is-equal"} -> Effective(options)
    [] op = "to-wsl" -> Only(Effective(options), {"enabled", "mountRoot"})
    [] OTHER -> Absent

Put(c, unitOps, options) ==
  [op |-> c.op, operands |-> Read(c, unitOps), options |-> Passed(c.op, options)]

HasNul(c) == \E i \in DOMAIN Operands(c.op) : Given(c.inputs, Operands(c.op)[i]) = "nul"

FixtureQuestion(c) == Put(c, {"normalize", "encode-git-ref"}, c.options)
Agrees(c, answer) ==
  IF c.error = Absent THEN answer.ok /\ answer.text = c.expected
                      ELSE ~answer.ok /\ answer.text = c.error

(***************************************************************************)
(* Comparisons shared by several scripts: generated code, which takes the  *)
(* branch when it is written, and an interpreter of cases, which takes it  *)
(* when it runs.  An expected value left out is written as the empty text. *)
(***************************************************************************)
RunError(error, answer) == ~answer.ok /\ answer.text = error
RunValue(expected, answer) == answer.ok /\ answer.text = expected
Written(c, answer) == IF c.error \notin {Absent, ""} THEN RunError(c.error, answer)
                                                     ELSE RunValue(OrElse(c.expected, ""), answer)
Interpreted(c, answer) == IF answer.ok THEN c.error = Absent /\ answer.text = c.expected
                                       ELSE c.error = answer.text

Program(compiled, cases, laws) == [compiled |-> compiled, cases |-> cases, laws |-> laws]

\* ---- Swift: decodes the files itself, and fills in some of the options ----
SwiftReads == {"raw", "root", "target", "relative", "profile"}
\* A slip: no mount root is passed on as an empty one.
SwiftOptionsEmptyMount(o) ==
  [sourceHost |-> Given(o, "sourceHost"), enabled |-> OrElse(Given(o, "enabled"), "false"),
   mountRoot |-> OrElse(Given(o, "mountRoot"), ""), rejectEncodedSlash |-> Given(o, "rejectEncodedSlash")]

SwiftOptions(o) ==
  [sourceHost |-> Given(o, "sourceHost"), enabled |-> OrElse(Given(o, "enabled"), "false"),
   mountRoot |-> OrElse(Given(o, "mountRoot"), "/mnt"), rejectEncodedSlash |-> Given(o, "rejectEncodedSlash")]
SwiftAsks(c) == Put([c EXCEPT !.inputs = Only(@, SwiftReads)], {}, SwiftOptions(c.options))
SwiftPasses(c, answer) ==
  IF answer.ok THEN c.error = Absent /\ c.expected # Absent /\ answer.text = c.expected
               ELSE c.error # Absent /\ answer.text = c.error
SwiftLaws == {"native", "reparse", "posix", "join", "canonical", "mount", "strict"}
SwiftHarness == [skips |-> TRUE, keeps |-> TRUE, collects |-> FALSE, files |-> {"shared"},
                 programs |-> <<Program(FALSE, TRUE, SwiftLaws)>>]

\* ---- C: generated; a second program holds the laws ----
CAsks(c) == Put(c, {}, c.options)
CPasses(c, answer) ==
  IF c.op = "is-equal" /\ c.error \in {Absent, ""}
    THEN RunValue(IF c.expected = "true" THEN "true" ELSE "false", answer)
    ELSE Written(c, answer)
CBytes == {"bytes"}
CLaws == {"native", "reparse", "posix", "join", "self", "mount", "grammar"}
CHarness == [skips |-> TRUE, keeps |-> TRUE, collects |-> FALSE, files |-> {"shared"},
             programs |-> <<Program(TRUE, TRUE, CBytes), Program(TRUE, FALSE, CLaws)>>]

\* ---- C++: as C ----
CppAsks(c) == Put(c, {}, c.options)
CppPasses(c, answer) == Written(c, answer)
CppBytes == {"bytes"}
CppLaws == {"native", "reparse", "posix", "join", "self", "mount", "grammar"}
CppHarness == [skips |-> TRUE, keeps |-> TRUE, collects |-> FALSE, files |-> {"shared"},
               programs |-> <<Program(TRUE, TRUE, CppBytes), Program(TRUE, FALSE, CppLaws)>>]

\* ---- Kotlin: generated, one program; loads both UTF-16 files ----
KotlinAsks(c) == Put(c, {"normalize", "encode-git-ref"}, c.options)
KotlinPasses(c, answer) == Written(c, answer)
KotlinLaws == {"native", "reparse", "posix", "join", "canonical", "mount", "strict"}
KotlinHarness == [skips |-> TRUE, keeps |-> TRUE, collects |-> FALSE,
                  files |-> {"shared", "git-ref-utf16", "uri-utf16"},
                  programs |-> <<Program(TRUE, TRUE, KotlinLaws)>>]

\* ---- Rust: generated; may not be skipped and removes its directory ----
RustAsks(c) == Put(c, {}, c.options)
RustPasses(c, answer) == Written(c, answer)
RustHarness == [skips |-> FALSE, keeps |-> FALSE, collects |-> FALSE, files |-> {"shared"},
                programs |-> <<Program(FALSE, TRUE, {})>>]

\* ---- GDScript: decodes every operand first, and goes on after a failure ----
GdscriptAsks(c) ==
  IF HasNul(c) THEN [op |-> "from_utf8", operands |-> Read(c, {}), options |-> Absent]
               ELSE Put(c, {}, c.options)
GdscriptPasses(c, answer) == Written(c, answer)
GdscriptLaws == {"native", "reparse", "join", "mount", "strict", "replacement"}
GdscriptHarness == [skips |-> TRUE, keeps |-> TRUE, collects |-> TRUE, files |-> {"shared"},
                    programs |-> <<Program(FALSE, TRUE, GdscriptLaws)>>]

\* ---- Haxe: generated ----
HaxeAsks(c) == Put(c, {}, c.options)
HaxePasses(c, answer) == Written(c, answer)
HaxeLaws == {"native", "reparse", "join", "mount", "parts", "strict"}
HaxeHarness == [skips |-> TRUE, keeps |-> TRUE, collects |-> FALSE, files |-> {"shared"},
                programs |-> <<Program(FALSE, TRUE, HaxeLaws)>>]

\* ---- Python: interprets the cases; UTF-16 units for Git references ----
PythonAsks(c) == Put(c, {"encode-git-ref"}, c.options)
PythonPasses(c, answer) == Interpreted(c, answer)
PythonLaws == {"native", "reparse", "posix", "join", "canonical", "mount", "strict"}
PythonHarness == [skips |-> TRUE, keeps |-> TRUE, collects |-> FALSE, files |-> {"shared", "git-ref-utf16"},
                  programs |-> <<Program(FALSE, TRUE, PythonLaws)>>]

\* ---- Dart: interprets the cases; loads both UTF-16 files ----
DartAsks(c) == Put(c, {"normalize", "encode-git-ref"}, c.options)
DartPasses(c, answer) == Interpreted(c, answer)
DartLaws == {"native", "reparse", "posix", "join", "canonical", "mount", "strict"}
DartHarness == [skips |-> TRUE, keeps |-> TRUE, collects |-> FALSE,
                files |-> {"shared", "git-ref-utf16", "uri-utf16"},
                programs |-> <<Program(FALSE, TRUE, DartLaws)>>]

\* ---- C# and the C# of the Unity package: decode the files; flags have a value ----
CSharpReads == {"raw", "rawUtf16", "root", "target", "relative", "profile"}
CSharpOptions(o) ==
  [f \in DOMAIN Defaults |-> IF f = "enabled" THEN OrElse(Given(o, f), "false") ELSE Given(o, f)]
CSharpAsks(c) ==
  Put([c EXCEPT !.inputs = Only(@, CSharpReads)], {"encode-git-ref"}, CSharpOptions(c.options))
\* A difference is thrown where the answer is read; the handler lets it through.
CSharpPasses(c, answer) ==
  IF c.error \in {Absent, ""} THEN answer.ok /\ answer.text = c.expected
                              ELSE ~answer.ok /\ answer.text = c.error
CSharpLaws == {"native", "reparse", "join", "mount", "parts", "roots", "literal"}
CSharpHarness == [skips |-> TRUE, keeps |-> TRUE, collects |-> FALSE, files |-> {"shared", "git-ref-utf16"},
                  programs |-> <<Program(FALSE, TRUE, CSharpLaws)>>]

UnityReads == {"raw", "rawUtf16", "root", "target", "relative", "profile"}
UnityOptions(o) ==
  [f \in DOMAIN Defaults |-> IF f = "enabled" THEN OrElse(Given(o, f), "false") ELSE Given(o, f)]
UnityAsks(c) ==
  Put([c EXCEPT !.inputs = Only(@, UnityReads)], {"encode-git-ref"}, UnityOptions(c.options))
UnityPasses(c, answer) ==
  IF c.error \in {Absent, ""} THEN answer.ok /\ answer.text = c.expected
                              ELSE ~answer.ok /\ answer.text = c.error
UnityLaws == {"native", "reparse", "join", "mount", "parts", "roots", "literal", "bridge"}
UnityHarness == [skips |-> TRUE, keeps |-> TRUE, collects |-> FALSE, files |-> {"shared", "git-ref-utf16"},
                 programs |-> <<Program(FALSE, TRUE, UnityLaws)>>]

(***************************************************************************)
(* The scripts by port.                                                    *)
(***************************************************************************)
Harness == [swift |-> SwiftHarness, c |-> CHarness, cpp |-> CppHarness, kotlin |-> KotlinHarness,
            rust |-> RustHarness, gdscript |-> GdscriptHarness, haxe |-> HaxeHarness,
            python |-> PythonHarness, dart |-> DartHarness, csharp |-> CSharpHarness, unity |-> UnityHarness]
AllPorts == DOMAIN Harness

Question(port, c) ==
  CASE port = "swift" -> SwiftAsks(c)   [] port = "c" -> CAsks(c)
    [] port = "cpp" -> CppAsks(c)       [] port = "kotlin" -> KotlinAsks(c)
    [] port = "rust" -> RustAsks(c)     [] port = "gdscript" -> GdscriptAsks(c)
    [] port = "haxe" -> HaxeAsks(c)     [] port = "python" -> PythonAsks(c)
    [] port = "dart" -> DartAsks(c)     [] port = "csharp" -> CSharpAsks(c)
    [] port = "unity" -> UnityAsks(c)

Passes(port, c, answer) ==
  CASE port = "swift" -> SwiftPasses(c, answer)   [] port = "c" -> CPasses(c, answer)
    [] port = "cpp" -> CppPasses(c, answer)       [] port = "kotlin" -> KotlinPasses(c, answer)
    [] port = "rust" -> RustPasses(c, answer)     [] port = "gdscript" -> GdscriptPasses(c, answer)
    [] port = "haxe" -> HaxePasses(c, answer)     [] port = "python" -> PythonPasses(c, answer)
    [] port = "dart" -> DartPasses(c, answer)     [] port = "csharp" -> CSharpPasses(c, answer)
    [] port = "unity" -> UnityPasses(c, answer)
=============================================================================
