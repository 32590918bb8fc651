---------------------------- MODULE VectorHarness ----------------------------
(***************************************************************************)
(* The scripts run-<port>-canonicalpath-vectors.mjs: each builds a program *)
(* in one port's language, lets it put every case of the shared fixtures   *)
(* to the port, and reports by its exit code whether the port agrees.      *)
(*                                                                         *)
(* HarnessPorts says what each script does.  Here one script runs: it      *)
(* looks for its tools, prepares a directory an earlier, interrupted run   *)
(* may have left behind, compiles, and runs its programs, any of which may *)
(* fail to start, end with a status or be killed.  What the port answers   *)
(* and which laws of the contract it breaks are not the script's choice.   *)
(***************************************************************************)
EXTENDS HarnessPorts

CONSTANTS Ports,     \* the scripts of this instance
          Cases,     \* Cases[files]: the cases of these fixture files, in order
          Answers    \* what a port may answer: [ok, text]

\* A fixture expects a value or an error; the answer to is-equal is a Boolean.
Sound(c) ==
  \/ c.error = Absent /\ c.expected # Absent /\ (c.op = "is-equal" => c.expected \in {"true", "false"})
  \/ c.error \notin {Absent, ""} /\ c.expected = Absent

\* What validate-spec.mjs admits to the fixtures: UTF-16 units stand only in the
\* two files for them, and each of these has one operation.
Fixture(c) ==
  /\ DOMAIN c = {"file", "op", "inputs", "options", "expected", "error"}
  /\ c.file \in Files
  /\ DOMAIN c.inputs \subseteq {"raw", "rawUtf16", "root", "target", "relative", "profile"}
UnitsOnlyWhere(c) ==
  "rawUtf16" \in DOMAIN c.inputs =>
    \/ c.file = "git-ref-utf16" /\ c.op = "encode-git-ref"
    \/ c.file = "uri-utf16" /\ c.op = "normalize"

PortsAssumption == Ports \subseteq AllPorts
CasesAssumption ==
  \A files \in SUBSET Files :
    /\ Len(Cases[files]) \in Nat
    /\ \A i \in 1 .. Len(Cases[files]) :
         LET c == Cases[files][i]
         IN Fixture(c) /\ c.file \in files /\ Sound(c) /\ UnitsOnlyWhere(c)
AnswersAssumption == \A answer \in Answers : answer.ok \in BOOLEAN /\ answer.text # Absent
ASSUME Assumptions == PortsAssumption /\ CasesAssumption /\ AnswersAssumption

VARIABLES port,       \* whose script this is
          tool,       \* are its tools there?
          broken,     \* a law the port breaks, or Absent
          workspace,  \* the script's directory: absent, stale, sources, built
          pc,         \* probe, prepare, compile, run, ended
          program,    \* which of the script's programs
          next,       \* the next case the program puts to the port
          asked,      \* the last question: of which case, and what
          failed,     \* a program that collects its failures has one
          exit,       \* exit code of the script, Running before it ends
          disagreed,  \* history: some answer differs from the fixture
          fault       \* history: a tool or the preparation failed by itself

answering == <<next, asked, failed, disagreed>>
vars == <<port, tool, broken, workspace, pc, program, answering, exit, fault>>

Running == -1
NoStatus == -1
NoQuestion == [at |-> 0, question |-> Absent]

Mine == Harness[port]
Loaded == Cases[Mine.files]
Current == Mine.programs[program]

TypeOK ==
  /\ port \in Ports /\ tool \in BOOLEAN /\ broken \in Laws \cup {Absent}
  /\ workspace \in {"absent", "stale", "sources", "built"}
  /\ pc \in {"probe", "prepare", "compile", "run", "ended"}
  /\ program \in 1 .. Len(Mine.programs) /\ next \in 1 .. Len(Loaded) + 1
  /\ asked.at \in 0 .. Len(Loaded) /\ failed \in BOOLEAN
  /\ exit \in {Running, 0, 1} /\ disagreed \in BOOLEAN /\ fault \in BOOLEAN

Init ==
  /\ port \in Ports /\ tool \in BOOLEAN /\ broken \in Laws \cup {Absent}
  /\ workspace \in IF Mine.keeps THEN {"absent", "stale"} ELSE {"absent"}
  /\ pc = "probe" /\ program = 1 /\ next = 1 /\ asked = NoQuestion
  /\ failed = FALSE /\ exit = Running /\ disagreed = FALSE /\ fault = FALSE

(***************************************************************************)
(* How spawnSync reports a command, and what the scripts exit with: no     *)
(* status after a signal or a failed start, any other status but 0 is 1.   *)
(***************************************************************************)
Troubles == {"status", "signal", "error"}

StatusOf(outcome) == CASE outcome = "ok"     -> 0
                       [] outcome = "status" -> 1
                       [] OTHER              -> NoStatus

\* A slip: a command without a status taken for one that ended well.
ExitOfStatus(outcome) == IF StatusOf(outcome) = NoStatus THEN 0 ELSE StatusOf(outcome)

ExitOf(outcome) == IF StatusOf(outcome) = NoStatus THEN 1 ELSE StatusOf(outcome)

\* The script ends; only the Rust script removes its directory, however it ends.
End(code) ==
  /\ pc' = "ended" /\ exit' = code
  /\ workspace' = IF Mine.keeps THEN workspace ELSE "absent"
  /\ UNCHANGED <<port, tool, broken, program>>

Probe ==
  /\ pc = "probe"
  /\ \/ /\ tool
        /\ pc' = "prepare"
        /\ UNCHANGED <<port, tool, broken, workspace, program, exit>>
     \/ ~tool /\ End(IF Mine.skips THEN 0 ELSE 1)
  /\ UNCHANGED <<answering, fault>>

\* The Rust script throws if its fixtures hold no case.
Prepare ==
  /\ pc = "prepare"
  /\ port = "rust" => Loaded # << >>
  /\ workspace' = "sources"
  /\ pc' = IF Current.compiled THEN "compile" ELSE "run"
  /\ UNCHANGED <<port, tool, broken, program, answering, exit, fault>>

\* A fixture cannot be read or parsed, or the directory cannot be removed or
\* written: an exception that nothing catches, with the directory half done.
PrepareFails ==
  /\ pc = "prepare"
  /\ fault' = TRUE /\ pc' = "ended" /\ exit' = 1
  /\ workspace' \in IF Mine.keeps THEN {"absent", "stale"} ELSE {"absent"}
  /\ UNCHANGED <<port, tool, broken, program, answering>>

Compile ==
  /\ pc = "compile"
  /\ workspace' = "built" /\ pc' = "run"
  /\ UNCHANGED <<port, tool, broken, program, answering, exit, fault>>

\* The compiler or a program does not start, is killed, or dies of something
\* that is no answer of the port.
ToolFails ==
  /\ pc \in {"compile", "run"}
  /\ fault' = TRUE
  /\ \E outcome \in Troubles : End(ExitOf(outcome))
  /\ UNCHANGED answering

\* A program that found a difference exits with a status or dies by a signal.
ProgramFails == \E outcome \in {"status", "signal"} : End(ExitOf(outcome))

(***************************************************************************)
(* The program puts the next case to the port and compares the answer.     *)
(***************************************************************************)
Asking == pc = "run" /\ Current.cases /\ next <= Len(Loaded)

Ask ==
  /\ Asking
  /\ \E answer \in Answers :
       LET case == Loaded[next]
           good == Passes(port, case, answer)
       IN /\ asked' = [at |-> next, question |-> Question(port, case)]
          /\ disagreed' = (disagreed \/ ~Agrees(case, answer))
          /\ IF good \/ Mine.collects
               THEN /\ next' = next + 1
                    /\ failed' = (failed \/ ~good)
                    /\ UNCHANGED <<port, tool, broken, workspace, pc, program, exit>>
               ELSE /\ ProgramFails
                    /\ UNCHANGED <<next, failed>>
  /\ UNCHANGED fault

\* After the cases the program checks its laws; then comes the next program.
Finish ==
  /\ pc = "run" /\ ~Asking
  /\ \/ /\ failed \/ broken \in Current.laws
        /\ ProgramFails
     \/ /\ ~failed /\ broken \notin Current.laws
        /\ IF program < Len(Mine.programs)
             THEN /\ program' = program + 1
                  /\ pc' = IF Mine.programs[program + 1].compiled THEN "compile" ELSE "run"
                  /\ UNCHANGED <<port, tool, broken, workspace, exit>>
             ELSE End(ExitOf("ok"))
  /\ UNCHANGED <<answering, fault>>

Next == Probe \/ Prepare \/ PrepareFails \/ Compile \/ ToolFails \/ Ask \/ Finish

Spec == Init /\ [][Next]_vars

(***************************************************************************)
(* A script's exit code means what a reader of a green build takes it for. *)
(* It is 0 only if the tools are missing and the script may be skipped, or *)
(* every case the script loads was put to the port, every answer was the   *)
(* fixture's, and none of the laws its programs check is broken.  It is 1  *)
(* only for a difference, a broken law, a failing tool, or a missing tool  *)
(* that may not be skipped.                                                *)
(***************************************************************************)
LawsOf(p) == UNION {Harness[p].programs[i].laws : i \in DOMAIN Harness[p].programs}

VerdictIsRight ==
  /\ exit = 0 => \/ ~tool /\ Mine.skips
                 \/ /\ ~disagreed /\ next = Len(Loaded) + 1
                    /\ broken \notin LawsOf(port) /\ ~fault
  /\ exit = 1 => disagreed \/ broken \in LawsOf(port) \/ fault \/ ~tool

(***************************************************************************)
(* The port is asked what the fixture says: the operation, the operands,   *)
(* given as text or as UTF-16 units, and the options that count, where     *)
(* what the fixture leaves out has the default of the contract.  Godot     *)
(* cannot pass on a NUL; its text is put to the port's own decoder.        *)
(***************************************************************************)
AsksTheFixture ==
  asked.at > 0 =>
    LET case == Loaded[asked.at]
    IN \/ asked.question = FixtureQuestion(case)
       \/ HasNul(case) /\ asked.question.op = "from_utf8"
=============================================================================
