----------------------------- MODULE CrustBench -----------------------------
(***************************************************************************)
(* The CRUST-Bench evaluation (noricum-cli/src/crust_bench.rs): every      *)
(* project of the dataset has C sources, interface files to implement and  *)
(* tests.  A model writes the files, `cargo build` and the tests judge     *)
(* them, and the model is asked to repair until the repairs run out.       *)
(*                                                                         *)
(* A text is a value of Texts; what is written as file contents is a       *)
(* sequence of them, for a reply is cut at its `// === file ===` lines and *)
(* what it says elsewhere may end up in a file.  A test binary tests one   *)
(* file.                                                                   *)
(***************************************************************************)
EXTENDS Integers, Sequences, FiniteSets, Functions, SequencesExt

CONSTANTS
  CProjects,     \* projects of CBench, in order of name
  RProjects,     \* projects of RBench
  Underscored,   \* of a name of CBench, the name with _ for -
  Selections,    \* which projects --filter and --limit may leave
  FileLists,     \* interface files a project may have: sequences
  CSizes,        \* lines of C a project may have
  BenchReplies   \* replies of the model: sequences of lines, see Parsed

ASSUME BenchAssumption ==
  /\ FileLists \subseteq Seq(STRING)
  /\ CSizes \subseteq Nat

BASE_REPAIR_ITERATIONS == 5
MAX_REPAIR_ITERATIONS  == 10

\* "broken" does not compile, "fails" does not pass its tests, and "unfit" compiles,
\* but its tests do not compile against it.
Texts == {"works", "fails", "unfit", "broken"}

VARIABLES
  project,      \* the project that is run, its files, its size; "none"
  step,         \* where run_project is
  disk,         \* the working copy: the contents of the files written so far
  llmCalls, repairIterations,
  compiled, passed,   \* compilation_success, tests_passed
  remaining,    \* repairs left in the loop that runs
  offset,       \* iter_offset of the test repair loop
  todo,         \* projects to run
  results       \* what run_project returned: whether files compile, and pass

benchVars == <<project, step, disk, llmCalls, repairIterations, compiled, passed,
               remaining, offset, todo, results>>

-----------------------------------------------------------------------------
(***************************************************************************)
(* The dataset and the limits.                                             *)
(***************************************************************************)
\* discover_projects: a project of CBench is run if RBench has its name, or the
\* name with underscores.
Discovered ==
  SelectSeq(CProjects, LAMBDA p : p \in RProjects \/ Underscored[p] \in RProjects)

effective_max_repairs(interfaces, loc) ==
  LET moduleBonus == interfaces \div 3
      sizeBonus   == IF loc > 2000 THEN 2 ELSE IF loc > 1000 THEN 1 ELSE 0
      wanted      == BASE_REPAIR_ITERATIONS + moduleBonus + sizeBonus
  IN IF wanted < MAX_REPAIR_ITERATIONS THEN wanted ELSE MAX_REPAIR_ITERATIONS

MaxRepairs == effective_max_repairs(Len(project.files), project.loc)
Files      == Range(project.files)

-----------------------------------------------------------------------------
(***************************************************************************)
(* Replies.  A line is [header |-> TRUE, name |-> f], or a text            *)
(* [header |-> FALSE, text |-> t].                                         *)
(***************************************************************************)
\* parse_multi_file_output: what follows a header belongs to its file.  What
\* precedes the first header, or follows one that names no file, is not dropped:
\* it waits for the next file.
ParseLine(state, line) ==
  IF ~line.header
  THEN [state EXCEPT !.content = Append(@, line.text)]
  ELSE LET next == IF line.name \in Files THEN <<line.name>> ELSE <<>>
       IN IF state.current = <<>> THEN [state EXCEPT !.current = next]
          ELSE [current |-> next, content |-> <<>>,
                found |-> Append(state.found, <<state.current[1], state.content>>)]

Parsed(reply) ==
  LET contents == SelectSeq(reply, LAMBDA l : ~l.header)
      code     == [k \in DOMAIN contents |-> contents[k].text]
      end      == FoldLeft(ParseLine, [current |-> <<>>, content |-> <<>>, found |-> <<>>], reply)
      found    == IF end.current = <<>> THEN end.found
                  ELSE Append(end.found, <<end.current[1], end.content>>)
  IN IF Len(project.files) = 1 \/ (found = <<>> /\ project.files # <<>>)
     THEN <<<<project.files[1], code>>>>
     ELSE found

\* write_and_read_impls: one file after the other; the last text of a file stays.
Write(old, found) ==
  [f \in DOMAIN old \union {found[k][1] : k \in DOMAIN found} |->
     IF \E k \in DOMAIN found : found[k][1] = f
     THEN found[Max({k \in DOMAIN found : found[k][1] = f})][2]
     ELSE old[f]]

-----------------------------------------------------------------------------
(***************************************************************************)
(* cargo.  Both commands may also fail to start.                           *)
(***************************************************************************)
\* External: a file builds if its text is whole; two texts in one file define
\* things twice.
Builds(d)  == DOMAIN d = Files /\ \A f \in Files : Len(d[f]) = 1 /\ d[f][1] # "broken"
Failing(d) == {f \in Files : f \notin DOMAIN d \/ d[f] # <<"works">>}
Unfit(d)   == {f \in Files : f \in DOMAIN d /\ d[f] = <<"unfit">>}

\* run_cargo_build
BuildRuns(d) == {Builds(d), FALSE}

\* The files whose test binary `cargo test --no-run` reports.  When a test does not
\* compile, cargo stops: of the others any may have been built before.
Found(d) == IF Unfit(d) = {} THEN {Files, {}} ELSE SUBSET (Files \ Unfit(d))

\* run_cargo_test_per_binary: each test binary that was found is run, or all tests
\* at once if none was.  That some did not compile is not looked at.
TestRuns(d) ==
  {FALSE} \union
  {(IF found = {} THEN Failing(d) = {} ELSE Failing(d) \cap found = {}) : found \in Found(d)}

-----------------------------------------------------------------------------
NoProject == [name |-> "none", files |-> <<>>, loc |-> 0]

\* What run_project starts with.
NothingYet ==
  /\ disk' = <<>> /\ llmCalls' = 0 /\ repairIterations' = 0
  /\ compiled' = FALSE /\ passed' = FALSE /\ offset' = 0

\* make_error_result
ErrorResult == [compiled |-> FALSE, passed |-> FALSE]

BenchInit ==
  /\ project = NoProject /\ step = "idle" /\ disk = <<>>
  /\ llmCalls = 0 /\ repairIterations = 0
  /\ compiled = FALSE /\ passed = FALSE
  /\ remaining = 0 /\ offset = 0 /\ todo = <<>> /\ results = <<>>

\* run_crust_bench
BeginBench ==
  /\ step = "idle"
  /\ \E chosen \in Selections : todo' = SelectSeq(Discovered, LAMBDA p : p \in chosen)
  /\ step' = "next"
  /\ UNCHANGED <<project, disk, llmCalls, repairIterations, compiled, passed,
                 remaining, offset, results>>

\* run_project returns; its variables are gone.
EndProject(result) ==
  /\ results' = Append(results, result)
  /\ step' = "next" /\ project' = NoProject /\ remaining' = 0
  /\ NothingYet
  /\ UNCHANGED todo

\* run_project, up to the first prompt.
StartProject ==
  /\ step = "next" /\ todo # <<>>
  /\ todo' = Tail(todo)
  /\ NothingYet
  /\ \E files \in FileLists, loc \in CSizes :
       /\ project' = [name |-> Head(todo), files |-> files, loc |-> loc]
       /\ remaining' = Len(files)
  /\ step' = "translate"
  /\ UNCHANGED results

\* Reading, copying or making the client fails.
StartFails ==
  /\ step = "translate" /\ llmCalls = 0
  /\ EndProject(ErrorResult)

\* One prompt for each file; a failing one leaves the file unwritten.
TranslateModule ==
  /\ step = "translate" /\ Len(project.files) > 1 /\ remaining > 0
  /\ LET f == project.files[Len(project.files) - remaining + 1] IN
       \/ \E t \in Texts : disk' = Write(disk, <<<<f, <<t>>>>>>)
       \/ disk' = disk
  /\ llmCalls' = llmCalls + 1
  /\ remaining' = remaining - 1
  /\ step' = IF remaining = 1 THEN "build" ELSE "translate"
  /\ UNCHANGED <<project, repairIterations, compiled, passed, offset, todo, results>>

\* One prompt for the only file, or for none.
TranslateWhole ==
  /\ step = "translate" /\ Len(project.files) <= 1
  /\ llmCalls' = 1
  /\ \E reply \in BenchReplies : disk' = Write(disk, Parsed(reply))
  /\ step' = "build"
  /\ UNCHANGED <<project, repairIterations, compiled, passed, remaining, offset, todo, results>>

TranslateFails ==
  /\ step = "translate" /\ Len(project.files) <= 1
  /\ EndProject(ErrorResult)

\* Step 6
FirstBuild ==
  /\ step = "build"
  /\ \E ok \in BuildRuns(disk) :
       /\ compiled' = ok
       /\ step' = IF ok THEN "test" ELSE "repairBuild"
  /\ remaining' = MaxRepairs
  /\ UNCHANGED <<project, disk, llmCalls, repairIterations, passed, offset,
                 todo, results>>

\* The errors in a prompt of either loop are cut at a byte, which may be inside a
\* character: the thread panics, and with it ends the program, without a report.
CutPanics ==
  /\ step \in {"repairBuild", "repairTests"} /\ remaining > 0
  /\ step' = "panicked"
  /\ UNCHANGED <<project, disk, llmCalls, repairIterations, compiled, passed,
                 remaining, offset, todo, results>>

\* Step 7.  A failing call ends the loop.
RepairBuild ==
  /\ step = "repairBuild" /\ remaining > 0
  /\ llmCalls' = llmCalls + 1
  /\ repairIterations' = repairIterations + 1
  /\ remaining' = remaining - 1
  /\ \/ /\ \E reply \in BenchReplies : disk' = Write(disk, Parsed(reply))
        /\ \E ok \in BuildRuns(disk') :
             /\ compiled' = ok
             /\ step' = IF ok THEN "test" ELSE "repairBuild"
     \/ step' = "score" /\ UNCHANGED <<disk, compiled>>
  /\ UNCHANGED <<project, passed, offset, todo, results>>

\* Step 8
RunTests ==
  /\ step = "test"
  /\ \E ok \in TestRuns(disk) :
       /\ passed' = ok
       /\ step' = IF ok THEN "score" ELSE "repairTests"
  /\ remaining' = IF MaxRepairs > repairIterations THEN MaxRepairs - repairIterations ELSE 0
  /\ offset' = 1
  /\ UNCHANGED <<project, disk, llmCalls, repairIterations, compiled, todo, results>>

\* Slip: a repair that breaks the build goes unnoticed.
RepairTestsOnly ==
  /\ step = "repairTests" /\ remaining > 0
  /\ llmCalls' = llmCalls + 1
  /\ repairIterations' = repairIterations + offset
  /\ offset' = offset + 1 /\ remaining' = remaining - 1
  /\ \/ /\ \E reply \in BenchReplies : disk' = Write(disk, Parsed(reply))
        /\ \E pass \in TestRuns(disk') :
             passed' = pass /\ step' = IF pass THEN "score" ELSE "repairTests"
     \/ step' = "score" /\ UNCHANGED <<disk, passed>>
  /\ UNCHANGED <<project, compiled, todo, results>>

\* The number of the repair (iter_offset) is added to the one before.
RepairTests ==
  /\ step = "repairTests" /\ remaining > 0
  /\ llmCalls' = llmCalls + 1
  /\ repairIterations' = repairIterations + offset
  /\ offset' = offset + 1
  /\ remaining' = remaining - 1
  /\ \/ /\ \E reply \in BenchReplies : disk' = Write(disk, Parsed(reply))
        /\ \E ok \in BuildRuns(disk') :
             /\ compiled' = ok
             /\ IF ok THEN \E pass \in TestRuns(disk') :
                             /\ passed' = pass
                             /\ step' = IF pass THEN "score" ELSE "repairTests"
                ELSE UNCHANGED <<passed, step>>
     \/ step' = "score" /\ UNCHANGED <<disk, compiled, passed>>
  /\ UNCHANGED <<project, todo, results>>

RepairsRunOut ==
  /\ step \in {"repairBuild", "repairTests"} /\ remaining = 0
  /\ step' = "score"
  /\ UNCHANGED <<project, disk, llmCalls, repairIterations, compiled, passed,
                 remaining, offset, todo, results>>

\* Step 9
Score ==
  /\ step = "score"
  /\ EndProject([compiled |-> compiled, passed |-> passed])

\* The report counts the results.
EndBench ==
  /\ step = "next" /\ todo = <<>>
  /\ step' = "reported"
  /\ UNCHANGED <<project, disk, llmCalls, repairIterations, compiled, passed,
                 remaining, offset, todo, results>>

BenchStep ==
  \/ StartProject \/ StartFails \/ TranslateModule \/ TranslateWhole
  \/ TranslateFails \/ FirstBuild
  \/ RepairBuild \/ RunTests \/ RepairTests \/ CutPanics \/ RepairsRunOut
  \/ Score \/ EndBench

BenchNext == BeginBench \/ BenchStep

=============================================================================
