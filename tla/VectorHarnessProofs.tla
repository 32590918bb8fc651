------------------------- MODULE VectorHarnessProofs -------------------------
(***************************************************************************)
(* Proofs about VectorHarness for every set of scripts, every fixture      *)
(* validate-spec.mjs accepts and every answer of a port.                   *)
(***************************************************************************)
EXTENDS VectorHarness, TLAPS

\* What all scripts have in common: one or two programs, the first of which
\* holds the cases.
FirstHoldsCases(harness) ==
  /\ harness.programs[1].cases = TRUE
  /\ Len(harness.programs) \in 1 .. 2
  /\ DOMAIN harness.programs = 1 .. Len(harness.programs)
  /\ harness.files \subseteq Files
  /\ harness.skips \in BOOLEAN /\ harness.collects \in BOOLEAN

LEMMA EveryFirstHoldsCases == \A p \in AllPorts : FirstHoldsCases(Harness[p])
<1> USE DEF FirstHoldsCases, Program, Files
<1>1. FirstHoldsCases(SwiftHarness)
  BY DEF SwiftHarness
<1>2. FirstHoldsCases(CHarness)
  BY DEF CHarness
<1>3. FirstHoldsCases(CppHarness)
  BY DEF CppHarness
<1>4. FirstHoldsCases(KotlinHarness)
  BY DEF KotlinHarness
<1>5. FirstHoldsCases(RustHarness)
  BY DEF RustHarness
<1>6. FirstHoldsCases(GdscriptHarness)
  BY DEF GdscriptHarness
<1>7. FirstHoldsCases(HaxeHarness)
  BY DEF HaxeHarness
<1>8. FirstHoldsCases(PythonHarness)
  BY DEF PythonHarness
<1>9. FirstHoldsCases(DartHarness)
  BY DEF DartHarness
<1>10. FirstHoldsCases(CSharpHarness)
  BY DEF CSharpHarness
<1>11. FirstHoldsCases(UnityHarness)
  BY DEF UnityHarness
<1> HIDE DEF FirstHoldsCases, Program, Files
<1> QED
  BY <1>1, <1>2, <1>3, <1>4, <1>5, <1>6, <1>7, <1>8, <1>9, <1>10, <1>11 DEF AllPorts, Harness

\* However a script words its comparison, it accepts exactly the answers that
\* agree with a case the fixtures may hold.
LEMMA PassesIsAgrees ==
  ASSUME NEW p \in AllPorts, NEW c, Sound(c),
         NEW answer, answer.ok \in BOOLEAN, answer.text # Absent
  PROVE  Passes(p, c, answer) <=> Agrees(c, answer)
<1> USE DEF Sound, Agrees, Absent, OrElse
<1>1. SwiftPasses(c, answer) <=> Agrees(c, answer)
  BY DEF SwiftPasses
<1>2. Written(c, answer) <=> Agrees(c, answer)
  BY DEF Written, RunError, RunValue
<1>3. Interpreted(c, answer) <=> Agrees(c, answer)
  BY DEF Interpreted
<1>4. CPasses(c, answer) <=> Agrees(c, answer)
  BY <1>2 DEF CPasses, RunValue
<1>5. CSharpPasses(c, answer) <=> Agrees(c, answer)
  BY DEF CSharpPasses
<1>6. UnityPasses(c, answer) <=> Agrees(c, answer)
  BY DEF UnityPasses
<1> HIDE DEF Sound, Agrees, Absent, OrElse
<1> QED
  BY <1>1, <1>2, <1>3, <1>4, <1>5, <1>6
  DEF Passes, AllPorts, Harness, CppPasses, KotlinPasses, RustPasses, GdscriptPasses,
      HaxePasses, PythonPasses, DartPasses

\* The units are read for every operation they are given for, whatever else a
\* script would read them for.
LEMMA UnitsReadWhereGiven ==
  ASSUME NEW c, NEW units, "rawUtf16" \in DOMAIN c.inputs => c.op \in units,
         units \subseteq {"normalize", "encode-git-ref"}
  PROVE  Read(c, units) = Read(c, {"normalize", "encode-git-ref"})
  BY DEF Read

\* Decoding only some of the fields, all the fields of a case among them, reads
\* the same operands.
LEMMA DecodedIsRead ==
  ASSUME NEW c, {"op", "inputs"} \subseteq DOMAIN c,
         NEW fields, DOMAIN c.inputs \subseteq fields,
         NEW d, d = [c EXCEPT !.inputs = Only(@, fields)], NEW units
  PROVE  d.op = c.op /\ Read(d, units) = Read(c, units)
<1>1. d.op = c.op /\ d.inputs = Only(c.inputs, fields)
  OBVIOUS
<1>2. /\ DOMAIN d.inputs = DOMAIN c.inputs
      /\ \A f \in DOMAIN c.inputs : d.inputs[f] = c.inputs[f]
  BY <1>1 DEF Only, Restrict
<1>3. \A f : Given(d.inputs, f) = Given(c.inputs, f)
  BY <1>2, Zenon DEF Given
<1> QED
  BY <1>1, <1>2, <1>3, Zenon DEF Read

\* A script that fills in the defaults asks for the same effective options.
LEMMA FilledOptionsAreEffective ==
  ASSUME NEW o
  PROVE  /\ Effective(SwiftOptions(o)) = Effective(o)
         /\ Effective(CSharpOptions(o)) = Effective(o)
         /\ Effective(UnityOptions(o)) = Effective(o)
  BY DEF Effective, SwiftOptions, CSharpOptions, UnityOptions, Defaults, Given, OrElse, Absent

\* A question made with the units of the case and options of the same effect is
\* the question of the fixture.
LEMMA PutAsGiven ==
  ASSUME NEW c, NEW units, units \subseteq {"normalize", "encode-git-ref"},
         "rawUtf16" \in DOMAIN c.inputs => c.op \in units,
         NEW options, Effective(options) = Effective(c.options)
  PROVE  Put(c, units, options) = FixtureQuestion(c)
<1>1. Read(c, units) = Read(c, {"normalize", "encode-git-ref"})
  BY UnitsReadWhereGiven
<1>2. Passed(c.op, options) = Passed(c.op, c.options)
  BY Zenon DEF Passed
<1> QED
  BY <1>1, <1>2, Zenon DEF Put, FixtureQuestion

\* Which files each script loads: three groups of ports.
LEMMA FilesOfPorts ==
  /\ AllPorts = {"swift", "c", "cpp", "kotlin", "rust", "gdscript", "haxe", "python", "dart", "csharp", "unity"}
  /\ \A p \in {"swift", "c", "cpp", "rust", "gdscript", "haxe"} : Harness[p].files = {"shared"}
  /\ \A p \in {"python", "csharp", "unity"} : Harness[p].files = {"shared", "git-ref-utf16"}
  /\ \A p \in {"kotlin", "dart"} : Harness[p].files = {"shared", "git-ref-utf16", "uri-utf16"}
<1>1. AllPorts = {"swift", "c", "cpp", "kotlin", "rust", "gdscript", "haxe", "python", "dart", "csharp", "unity"}
  BY DEF AllPorts, Harness
<1>2. \A p \in {"swift", "c", "cpp", "rust", "gdscript", "haxe"} : Harness[p].files = {"shared"}
  BY DEF Harness, SwiftHarness, CHarness, CppHarness, RustHarness, GdscriptHarness, HaxeHarness
<1>3. \A p \in {"python", "csharp", "unity"} : Harness[p].files = {"shared", "git-ref-utf16"}
  BY DEF Harness, PythonHarness, CSharpHarness, UnityHarness
<1>4. \A p \in {"kotlin", "dart"} : Harness[p].files = {"shared", "git-ref-utf16", "uri-utf16"}
  BY DEF Harness, KotlinHarness, DartHarness
<1> QED
  BY <1>1, <1>2, <1>3, <1>4

\* Every script puts the questions of the files it loads.
LEMMA QuestionIsTheFixtures ==
  ASSUME NEW p \in AllPorts, NEW c, Fixture(c), UnitsOnlyWhere(c), c.file \in Harness[p].files
  PROVE  \/ Question(p, c) = FixtureQuestion(c)
         \/ HasNul(c) /\ Question(p, c).op = "from_utf8"
<1> DEFINE given == "rawUtf16" \in DOMAIN c.inputs
           both == {"normalize", "encode-git-ref"}
<1>1. CASE Harness[p].files = {"shared"}
  <2>1. ~given
    BY <1>1 DEF UnitsOnlyWhere
  <2>2. Put(c, {}, c.options) = FixtureQuestion(c)
    BY <2>1, PutAsGiven
  <2>3. SwiftAsks(c) = FixtureQuestion(c)
    <3> DEFINE d == [c EXCEPT !.inputs = Only(@, SwiftReads)]
    <3>1. d.op = c.op /\ Read(d, {}) = Read(c, {})
      BY <2>1, DecodedIsRead DEF Fixture, SwiftReads
    <3> HIDE DEF d
    <3>2. Put(d, {}, SwiftOptions(c.options)) = Put(c, {}, SwiftOptions(c.options))
      BY <3>1, Zenon DEF Put
    <3>3. Put(c, {}, SwiftOptions(c.options)) = FixtureQuestion(c)
      BY <2>1, PutAsGiven, FilledOptionsAreEffective
    <3> QED
      BY <3>2, <3>3 DEF SwiftAsks, d
  <2>4. p \in {"swift", "c", "cpp", "rust", "gdscript", "haxe"}
    BY <1>1, FilesOfPorts
  <2>5. \/ GdscriptAsks(c) = FixtureQuestion(c)
        \/ HasNul(c) /\ GdscriptAsks(c).op = "from_utf8"
    BY <2>2 DEF GdscriptAsks
  <2> QED
    BY <2>2, <2>3, <2>4, <2>5 DEF Question, CAsks, CppAsks, RustAsks, HaxeAsks
<1>2. CASE Harness[p].files = {"shared", "git-ref-utf16"}
  <2>1. given => c.op \in {"encode-git-ref"}
    BY <1>2 DEF UnitsOnlyWhere
  <2>2. \A options : Effective(options) = Effective(c.options)
          => Put(c, {"encode-git-ref"}, options) = FixtureQuestion(c)
    BY <2>1, PutAsGiven
  <2>3. Put([c EXCEPT !.inputs = Only(@, CSharpReads)], {"encode-git-ref"}, CSharpOptions(c.options))
          = FixtureQuestion(c)
    <3> DEFINE d == [c EXCEPT !.inputs = Only(@, CSharpReads)]
    <3>1. d.op = c.op /\ Read(d, {"encode-git-ref"}) = Read(c, {"encode-git-ref"})
      BY DecodedIsRead DEF Fixture, CSharpReads
    <3> HIDE DEF d
    <3>2. Put(d, {"encode-git-ref"}, CSharpOptions(c.options))
            = Put(c, {"encode-git-ref"}, CSharpOptions(c.options))
      BY <3>1, Zenon DEF Put
    <3> QED
      BY <2>2, <3>2, FilledOptionsAreEffective DEF d
  <2>4. CSharpAsks(c) = FixtureQuestion(c) /\ UnityAsks(c) = FixtureQuestion(c)
    BY <2>3 DEF CSharpAsks, UnityAsks, CSharpReads, UnityReads, CSharpOptions, UnityOptions
  <2>5. PythonAsks(c) = FixtureQuestion(c)
    BY <2>2 DEF PythonAsks
  <2>6. p \in {"python", "csharp", "unity"}
    BY <1>2, FilesOfPorts
  <2> QED
    BY <2>4, <2>5, <2>6 DEF Question
<1>3. CASE p \in {"kotlin", "dart"}
  BY <1>3 DEF Question, KotlinAsks, DartAsks, FixtureQuestion
<1>4. \/ Harness[p].files = {"shared"} \/ Harness[p].files = {"shared", "git-ref-utf16"}
      \/ p \in {"kotlin", "dart"}
  BY DEF AllPorts, Harness, SwiftHarness, CHarness, CppHarness, RustHarness, GdscriptHarness,
         HaxeHarness, PythonHarness, CSharpHarness, UnityHarness
<1> QED
  BY <1>1, <1>2, <1>3, <1>4

LEMMA MineHoldsCases ==
  ASSUME port \in Ports
  PROVE  FirstHoldsCases(Mine)
  BY EveryFirstHoldsCases, Assumptions DEF Assumptions, PortsAssumption, Mine

LEMMA LoadedIsSound ==
  ASSUME port \in Ports
  PROVE  /\ Len(Loaded) \in Nat
         /\ \A i \in 1 .. Len(Loaded) :
              Sound(Loaded[i]) /\ Fixture(Loaded[i]) /\ UnitsOnlyWhere(Loaded[i])
              /\ Loaded[i].file \in Mine.files
  BY MineHoldsCases, Assumptions DEF Assumptions, CasesAssumption, FirstHoldsCases, Loaded

\* No trouble with a command is taken for success.
LEMMA TroubleIsExitOne == (\A outcome \in Troubles : ExitOf(outcome) = 1) /\ ExitOf("ok") = 0
  BY DEF Troubles, ExitOf, StatusOf, NoStatus

(***************************************************************************)
(* The inductive invariant.  While the script runs, no tool has failed and *)
(* a difference is known exactly by the flag of the program that collects  *)
(* them; a later program starts only after all cases and laws of the       *)
(* earlier ones have passed.                                               *)
(***************************************************************************)
InProgress == pc # "ended" => exit = Running /\ ~fault /\ disagreed = failed
CasesPassed == pc # "ended" /\ program > 1 => next = Len(Loaded) + 1 /\ ~failed
LawsPassed == \A i \in 1 .. (program - 1) : broken \notin Mine.programs[i].laws

IInv == TypeOK /\ InProgress /\ CasesPassed /\ LawsPassed /\ VerdictIsRight

LEMMA InitIInv == Init => IInv
<1> SUFFICES ASSUME Init PROVE IInv
  OBVIOUS
<1>1. FirstHoldsCases(Mine) /\ Len(Loaded) \in Nat
  BY MineHoldsCases, LoadedIsSound DEF Init
<1>2. /\ port \in Ports /\ tool \in BOOLEAN /\ broken \in Laws \cup {Absent}
      /\ workspace \in {"absent", "stale"} /\ pc = "probe" /\ exit = Running
      /\ program = 1 /\ next = 1 /\ asked = NoQuestion
  BY DEF Init
<1>3. failed = FALSE /\ disagreed = FALSE /\ fault = FALSE
  BY DEF Init
<1>4. ~failed /\ ~fault
  BY <1>3
<1>5. TypeOK
  <2>1. program \in 1 .. Len(Mine.programs) /\ next \in 1 .. Len(Loaded) + 1
    BY <1>1, <1>2 DEF FirstHoldsCases
  <2>2. asked.at \in 0 .. Len(Loaded)
    BY <1>1, <1>2 DEF NoQuestion
  <2> QED
    BY <1>2, <1>3, <2>1, <2>2, Zenon DEF TypeOK
<1>6. InProgress
  BY <1>2, <1>3, <1>4 DEF InProgress
<1>7. CasesPassed /\ LawsPassed
  BY <1>2, <1>3, <1>4 DEF CasesPassed, LawsPassed
<1>8. VerdictIsRight
  BY <1>2 DEF VerdictIsRight, Running
<1> QED
  BY <1>5, <1>6, <1>7, <1>8 DEF IInv

\* A script that ends with code keeps the invariant if the code is right.
LEMMA EndPreserves ==
  ASSUME IInv, NEW code \in {0, 1}, End(code),
         next' = next, asked'.at \in 0 .. Len(Loaded),
         failed' = failed, disagreed' \in BOOLEAN, fault' \in BOOLEAN,
         VerdictIsRight'
  PROVE  IInv'
<1> USE DEF IInv, End
<1>1. TypeOK'
  BY DEF TypeOK, Mine, Loaded
<1>2. InProgress' /\ CasesPassed'
  BY DEF InProgress, CasesPassed
<1>3. LawsPassed'
  BY DEF LawsPassed, Mine
<1> QED
  BY <1>1, <1>2, <1>3

LEMMA ProbePreserves == IInv /\ Probe => IInv'
<1> SUFFICES ASSUME IInv, Probe PROVE IInv'
  OBVIOUS
<1> USE DEF Probe, answering
<1>1. CASE pc' = "prepare"
  BY <1>1 DEF IInv, TypeOK, InProgress, CasesPassed, LawsPassed, VerdictIsRight, Mine, Loaded, End
<1>2. CASE ~tool /\ End(IF Mine.skips THEN 0 ELSE 1)
  <2>1. VerdictIsRight'
    BY <1>2 DEF VerdictIsRight, End, Mine, Loaded
  <2>2. asked'.at \in 0 .. Len(Loaded)
    BY DEF IInv, TypeOK
  <2> QED
    BY <1>2, <2>1, EndPreserves DEF IInv, TypeOK
<1> QED
  BY <1>1, <1>2

LEMMA BuildPreserves == IInv /\ (Prepare \/ Compile) => IInv'
  BY DEF IInv, Prepare, Compile, answering, TypeOK, InProgress, CasesPassed, LawsPassed,
         VerdictIsRight, Mine, Loaded

LEMMA PrepareFailsPreserves == IInv /\ PrepareFails => IInv'
<1> SUFFICES ASSUME IInv, PrepareFails PROVE IInv'
  OBVIOUS
<1>1. /\ pc' = "ended" /\ exit' = 1 /\ fault' = TRUE /\ workspace' \in {"absent", "stale"}
      /\ UNCHANGED <<port, tool, broken, program, answering>>
  BY DEF PrepareFails
<1>2. TypeOK'
  BY <1>1 DEF IInv, TypeOK, Mine, Loaded, answering
<1>3. InProgress' /\ CasesPassed' /\ VerdictIsRight'
  BY <1>1 DEF InProgress, CasesPassed, VerdictIsRight
<1>4. LawsPassed'
  BY <1>1 DEF IInv, LawsPassed, Mine
<1> QED
  BY <1>2, <1>3, <1>4 DEF IInv

LEMMA ToolFailsPreserves == IInv /\ ToolFails => IInv'
<1> SUFFICES ASSUME IInv, ToolFails PROVE IInv'
  OBVIOUS
<1>1. End(1) /\ fault' = TRUE /\ UNCHANGED answering
  BY TroubleIsExitOne DEF ToolFails
<1>2. VerdictIsRight'
  BY <1>1 DEF VerdictIsRight, End
<1> QED
  BY <1>1, <1>2, EndPreserves DEF IInv, TypeOK, answering, End, Loaded, Mine

\* A program of an unended script that has nothing to ask has asked every case.
LEMMA AllAsked == ASSUME IInv, pc = "run", ~Asking PROVE next = Len(Loaded) + 1
<1>1. FirstHoldsCases(Mine) /\ Len(Loaded) \in Nat
  BY MineHoldsCases, LoadedIsSound DEF IInv, TypeOK
<1>2. CASE program > 1
  BY <1>2 DEF IInv, CasesPassed
<1>3. CASE ~(program > 1)
  <2>1. program = 1
    BY <1>1, <1>3 DEF IInv, TypeOK, FirstHoldsCases
  <2>2. Current.cases
    BY <1>1, <2>1 DEF Current, FirstHoldsCases
  <2> QED
    BY <1>1, <2>2 DEF Asking, IInv, TypeOK
<1> QED
  BY <1>2, <1>3

LEMMA AskPreserves == IInv /\ Ask => IInv'
<1> SUFFICES ASSUME IInv, Ask PROVE IInv'
  OBVIOUS
<1>1. PICK answer \in Answers :
        LET case == Loaded[next]
            good == Passes(port, case, answer)
        IN /\ asked' = [at |-> next, question |-> Question(port, case)]
           /\ disagreed' = (disagreed \/ ~Agrees(case, answer))
           /\ IF good \/ Mine.collects
                THEN /\ next' = next + 1
                     /\ failed' = (failed \/ ~good)
                     /\ UNCHANGED <<port, tool, broken, workspace, pc, program, exit>>
                ELSE /\ ProgramFails
                     /\ UNCHANGED <<next, failed>>
  BY DEF Ask
<1> DEFINE case == Loaded[next]
           good == Passes(port, case, answer)
<1>2. /\ pc = "run" /\ next \in 1 .. Len(Loaded) /\ Len(Loaded) \in Nat
      /\ exit = Running /\ ~fault /\ disagreed = failed /\ fault' = fault /\ Sound(case)
      /\ disagreed \in BOOLEAN /\ failed \in BOOLEAN /\ fault \in BOOLEAN
  BY LoadedIsSound DEF Ask, Asking, IInv, TypeOK, InProgress
<1>3. good <=> Agrees(case, answer)
  BY <1>2, PassesIsAgrees, Assumptions
  DEF Assumptions, AnswersAssumption, PortsAssumption, IInv, TypeOK
<1>4. asked'.at = next /\ disagreed' \in BOOLEAN
  BY <1>1
<1>5. CASE good \/ Mine.collects
  <2>1. /\ next' = next + 1 /\ failed' = (failed \/ ~good)
        /\ UNCHANGED <<port, tool, broken, workspace, pc, program, exit>>
    BY <1>1, <1>5
  <2>2. disagreed' = failed'
    BY <1>1, <1>2, <1>3, <2>1
  <2>3. TypeOK'
    BY <1>2, <1>4, <2>1, <2>2 DEF IInv, TypeOK, Mine, Loaded
  <2>4. InProgress'
    BY <1>2, <2>1, <2>2 DEF InProgress
  <2>5. CasesPassed' /\ LawsPassed'
    BY <1>2, <2>1 DEF IInv, CasesPassed, LawsPassed, Mine
  <2>6. VerdictIsRight'
    BY <1>2, <2>1 DEF VerdictIsRight, Running
  <2> QED
    BY <2>3, <2>4, <2>5, <2>6 DEF IInv
<1>6. CASE ~(good \/ Mine.collects)
  <2>1. End(1) /\ UNCHANGED <<next, failed>>
    BY <1>1, <1>6, TroubleIsExitOne DEF ProgramFails, Troubles
  <2>2. disagreed' = TRUE
    BY <1>1, <1>3, <1>6
  <2>3. VerdictIsRight'
    BY <2>1, <2>2 DEF VerdictIsRight, End
  <2> QED
    BY <1>2, <1>4, <2>1, <2>3, EndPreserves
<1> QED
  BY <1>5, <1>6

LEMMA FinishPreserves == IInv /\ Finish => IInv'
<1> SUFFICES ASSUME IInv, Finish PROVE IInv'
  OBVIOUS
<1>1. /\ pc = "run" /\ next = Len(Loaded) + 1 /\ UNCHANGED <<answering, fault>>
      /\ exit = Running /\ ~fault /\ disagreed = failed /\ FirstHoldsCases(Mine)
  BY AllAsked, MineHoldsCases DEF Finish, IInv, TypeOK, InProgress
<1>2. program \in DOMAIN Mine.programs /\ program \in 1 .. Len(Mine.programs)
  BY <1>1 DEF IInv, TypeOK, FirstHoldsCases
<1>3. LawsOf(port) = UNION {Mine.programs[i].laws : i \in DOMAIN Mine.programs}
  BY DEF LawsOf, Mine
<1>4. ASSUME NEW code \in {0, 1}, End(code), VerdictIsRight' PROVE IInv'
  BY <1>1, <1>4, EndPreserves DEF answering, IInv, TypeOK
<1>5. CASE (failed \/ broken \in Current.laws) /\ ProgramFails
  <2>1. End(1)
    BY <1>5, TroubleIsExitOne DEF ProgramFails, Troubles
  <2>2. disagreed \/ broken \in LawsOf(port)
    BY <1>1, <1>2, <1>3, <1>5 DEF Current
  <2>3. VerdictIsRight'
    BY <1>1, <2>1, <2>2 DEF VerdictIsRight, End, answering
  <2> QED
    BY <1>4, <2>1, <2>3
<1>6. CASE /\ ~failed /\ broken \notin Current.laws
           /\ program < Len(Mine.programs)
           /\ program' = program + 1
           /\ pc' \in {"compile", "run"}
           /\ UNCHANGED <<port, tool, broken, workspace, exit>>
  <2>1. TypeOK'
    BY <1>1, <1>2, <1>6 DEF IInv, TypeOK, FirstHoldsCases, Mine, Loaded, answering
  <2>2. InProgress'
    BY <1>1, <1>6 DEF InProgress, answering
  <2>3. CasesPassed'
    BY <1>1, <1>6 DEF CasesPassed, answering, Loaded, Mine
  <2>4. LawsPassed'
    BY <1>2, <1>6 DEF IInv, LawsPassed, Current, Mine
  <2>5. VerdictIsRight'
    BY <1>1, <1>6 DEF VerdictIsRight, Running
  <2> QED
    BY <2>1, <2>2, <2>3, <2>4, <2>5 DEF IInv
<1>7. CASE /\ ~failed /\ broken \notin Current.laws
           /\ ~(program < Len(Mine.programs)) /\ End(0)
  <2>1. program = Len(Mine.programs)
    BY <1>1, <1>2, <1>7 DEF FirstHoldsCases
  <2>2. broken \notin LawsOf(port)
    <3>1. \A i \in DOMAIN Mine.programs : broken \notin Mine.programs[i].laws
      BY <1>1, <1>7, <2>1 DEF IInv, LawsPassed, Current, FirstHoldsCases
    <3> QED
      BY <1>3, <3>1
  <2>3. VerdictIsRight'
    BY <1>1, <1>7, <2>2 DEF VerdictIsRight, End, answering, Loaded, Mine
  <2> QED
    BY <1>4, <1>7, <2>3
<1> QED
  BY <1>5, <1>6, <1>7, TroubleIsExitOne DEF Finish

LEMMA StepIInv == IInv /\ [Next]_vars => IInv'
<1>1. CASE UNCHANGED vars
  BY <1>1 DEF vars, answering, IInv, TypeOK, InProgress, CasesPassed, LawsPassed, VerdictIsRight,
              Mine, Loaded
<1> QED
  BY <1>1, ProbePreserves, BuildPreserves, PrepareFailsPreserves, ToolFailsPreserves, AskPreserves, FinishPreserves DEF Next

LEMMA Invariant == Spec => []IInv
  BY InitIInv, StepIInv, PTL DEF Spec

(***************************************************************************)
(* The variables of a script keep their types, for every set of scripts,   *)
(* every sound fixture and every answer.                                   *)
(***************************************************************************)
THEOREM TypeCorrect == Spec => []TypeOK
<1>1. IInv => TypeOK
  BY DEF IInv
<1> QED
  BY Invariant, <1>1, PTL

(***************************************************************************)
(* A script is green only when it may be skipped or the port agrees with   *)
(* every case and every law, and red only for a reason: whatever the       *)
(* fixtures hold, whatever the port answers and whatever tool dies.        *)
(***************************************************************************)
THEOREM VerdictsAreRight == Spec => []VerdictIsRight
<1>1. IInv => VerdictIsRight
  BY DEF IInv
<1> QED
  BY Invariant, <1>1, PTL

\* A question that is put is one of the fixture's, and nothing takes it back: the
\* script of a port, and with it the cases it loads, never changes.
LEMMA StepAsks == IInv /\ AsksTheFixture /\ [Next]_vars => AsksTheFixture'
<1> SUFFICES ASSUME IInv, AsksTheFixture, [Next]_vars PROVE AsksTheFixture'
  OBVIOUS
<1>1. port' = port
  BY DEF Next, Probe, Prepare, PrepareFails, Compile, ToolFails, Ask, Finish, ProgramFails, End, vars
<1>2. Mine' = Mine /\ Loaded' = Loaded
  BY <1>1 DEF Mine, Loaded
<1>3. CASE asked' = asked
  BY <1>2, <1>3 DEF AsksTheFixture
<1>4. CASE Ask
  <2>1. asked' = [at |-> next, question |-> Question(port, Loaded[next])]
    BY <1>4 DEF Ask
  <2>2. next \in 1 .. Len(Loaded) /\ port \in Ports
    BY <1>4, LoadedIsSound DEF Ask, Asking, IInv, TypeOK
  <2>3. \/ Question(port, Loaded[next]) = FixtureQuestion(Loaded[next])
        \/ HasNul(Loaded[next]) /\ Question(port, Loaded[next]).op = "from_utf8"
    BY <2>2, LoadedIsSound, QuestionIsTheFixtures, Assumptions
    DEF Assumptions, PortsAssumption, Mine
  <2> QED
    BY <1>2, <2>1, <2>3 DEF AsksTheFixture
<1> QED
  BY <1>3, <1>4 DEF Next, Probe, Prepare, PrepareFails, Compile, ToolFails, Finish, answering, vars

(***************************************************************************)
(* Whatever the fixtures hold that validate-spec.mjs admits, every script  *)
(* puts each case as it stands to its port: no operand is lost, no option  *)
(* gets another default than the contract's, and units are read wherever   *)
(* they are given.                                                         *)
(***************************************************************************)
THEOREM QuestionsAreTheFixtures == Spec => []AsksTheFixture
<1>1. Init => AsksTheFixture
  BY DEF Init, NoQuestion, AsksTheFixture
<1> QED
  BY Invariant, StepAsks, <1>1, PTL DEF Spec
=============================================================================
