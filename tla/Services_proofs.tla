--------------------------- MODULE Services_proofs ---------------------------
(***************************************************************************)
(* The safety properties of the services, for every dataset, reply, crate, *)
(* limit and clock.  Each part has an invariant of its own, which the      *)
(* others leave alone.                                                     *)
(***************************************************************************)
EXTENDS Services, FiniteSetTheorems, SequenceTheorems, WellFoundedInduction, TLAPS

-----------------------------------------------------------------------------
(***************************************************************************)
(* The benchmark.                                                          *)
(***************************************************************************)
\* Prompts that translate the files of the project.
Translations == Len(project.files) + (IF project.files = <<>> THEN 1 ELSE 0)

BenchSteps == {"idle", "next", "translate", "build", "repairBuild", "test",
               "repairTests", "score", "reported", "panicked"}

BenchTypeOK ==
  /\ step \in BenchSteps
  /\ project.files \in Seq(STRING) /\ project.loc \in Nat
  /\ {llmCalls, repairIterations, remaining, offset} \subseteq Nat

\* What is known of a verdict until the next one: it is about the files on disk,
\* because each reply that is written is followed by the command that judges it.
Judged ==
  /\ step \in {"translate", "build", "repairBuild"} => ~compiled
  /\ step = "test" => compiled
  /\ step \in {"translate", "build", "repairBuild", "test", "repairTests"} => ~passed
  /\ step \in {"test", "repairTests", "score"} => (compiled => Builds(disk))
  /\ step = "score" => (passed => compiled /\ TestsHold(disk))

\* The prompts so far and those the loop may still make.
PromptsCounted ==
  /\ step = "translate" =>
       IF Len(project.files) <= 1 THEN llmCalls = 0 ELSE llmCalls + remaining = Len(project.files)
  /\ step \in {"translate", "build"} => repairIterations = 0
  /\ step = "build" => llmCalls <= Translations
  /\ step = "repairBuild" => llmCalls <= Translations + repairIterations
                              /\ repairIterations + remaining <= MaxRepairs
  /\ step = "test" => llmCalls <= Translations + repairIterations
                      /\ repairIterations <= MaxRepairs
  /\ step = "repairTests" => llmCalls + remaining <= Translations + MaxRepairs
  /\ step = "score" => llmCalls <= Translations + MaxRepairs

BenchInv == BenchTypeOK /\ Judged /\ PromptsCounted

LEMMA NothingAdded == \A n \in Nat : 0 + n = n
  OBVIOUS

LEMMA RepairsAreANumber ==
  ASSUME NEW interfaces \in Nat, NEW loc \in Nat
  PROVE  effective_max_repairs(interfaces, loc) \in Nat
  BY DEF effective_max_repairs, BASE_REPAIR_ITERATIONS, MAX_REPAIR_ITERATIONS

LEMMA BenchNumbers ==
  ASSUME BenchTypeOK
  PROVE  Translations \in Nat /\ MaxRepairs \in Nat /\ Len(project.files) \in Nat
         /\ (Len(project.files) <= 1 => 1 <= Translations)
         /\ Len(project.files) <= Translations
  <1>1. project.files \in Seq(STRING) /\ Len(project.files) \in Nat /\ project.loc \in Nat
    BY DEF BenchTypeOK
  <1>2. MaxRepairs \in Nat
    BY <1>1, RepairsAreANumber DEF MaxRepairs
  <1>3. Len(project.files) = 0 <=> project.files = <<>>
    BY <1>1
  <1>4. CASE project.files = <<>>
    <2>1. Len(project.files) = 0 /\ Translations = 1
      BY <1>3, <1>4 DEF Translations
    <2>2. QED
      BY <1>2, <2>1
  <1>5. CASE project.files # <<>>
    <2>1. Len(project.files) # 0 /\ Translations = Len(project.files)
      BY <1>1, <1>3, <1>5 DEF Translations
    <2>2. QED
      BY <1>1, <1>2, <2>1
  <1>6. QED
    BY <1>4, <1>5

\* Of the files on disk, the commands say no more than is true.
LEMMA CommandsAreTrue ==
  ASSUME NEW d
  PROVE  /\ \A ok \in BuildRuns(d) : ok => Builds(d)
         /\ \A ok \in TestRuns(d) : ok => TestsHold(d)
         /\ BuildRuns(d) \subseteq BOOLEAN /\ TestRuns(d) \subseteq BOOLEAN
  <1>1. /\ \A ok \in BuildRuns(d) : ok => Builds(d)
        /\ BuildRuns(d) \subseteq BOOLEAN /\ TestRuns(d) \subseteq BOOLEAN
    BY DEF BuildRuns, TestRuns, Builds
  <1>2. ASSUME TRUE \in TestRuns(d) PROVE TestsHold(d)
    <2>1. PICK found \in Found(d) :
            IF found = {} THEN Failing(d) = {} ELSE Failing(d) \cap found = {}
      BY <1>2 DEF TestRuns
    <2>2. Failing(d) \subseteq Files /\ Unfit(d) \subseteq Failing(d)
      BY DEF Failing, Unfit
    <2>3. CASE Unfit(d) = {}
      BY <2>1, <2>2, <2>3 DEF TestsHold, Found
    <2>4. CASE Unfit(d) # {}
      <3>1. found # {} /\ found \subseteq Files /\ Failing(d) \cap found = {}
        BY <2>1, <2>2, <2>4 DEF Found
      <3>2. QED
        BY <2>4, <3>1 DEF TestsHold
    <2>5. QED
      BY <2>3, <2>4
  <1>3. QED
    BY <1>1, <1>2

\* Where a project ends, nothing of it is left.
LEMMA EndsClean ==
  ASSUME NEW result, EndProject(result), BenchInv
  PROVE  BenchInv'
  <1>1. /\ step' = "next" /\ project' = NoProject /\ remaining' = 0
        /\ llmCalls' = 0 /\ repairIterations' = 0 /\ offset' = 0
    BY DEF EndProject, NothingYet
  <1>2. project'.files = <<>> /\ project'.loc = 0
    BY <1>1 DEF NoProject
  <1>3. BenchTypeOK'
    BY <1>1, <1>2 DEF BenchTypeOK, BenchSteps
  <1>4. Judged' /\ PromptsCounted'
    BY <1>1 DEF Judged, PromptsCounted
  <1>5. QED
    BY <1>3, <1>4 DEF BenchInv

LEMMA BenchStarts == Init => BenchInv
  <1> SUFFICES ASSUME Init PROVE BenchInv
    OBVIOUS
  <1>1. BenchInit
    BY DEF Init
  <1>2. project.files = <<>> /\ project.loc = 0
    BY <1>1 DEF BenchInit, NoProject
  <1>3. QED
    BY <1>1, <1>2 DEF BenchInit, BenchInv, BenchTypeOK, BenchSteps, Judged, PromptsCounted

\* Steps that make no prompt, or that begin a project.
LEMMA PlainBenchStep ==
  ASSUME BenchInv, BeginBench \/ StartProject \/ StartFails \/ TranslateFails \/ RepairsRunOut
                   \/ Score \/ EndBench \/ CutPanics
  PROVE  BenchInv'
  <1> USE DEF BenchInv
  <1>1. CASE BeginBench
    BY <1>1 DEF BeginBench, BenchTypeOK, BenchSteps, Judged, PromptsCounted
  <1>2. CASE StartProject
    <2>1. PICK list \in FileLists, size \in CSizes :
            /\ project' = [name |-> Head(todo), files |-> list, loc |-> size]
            /\ remaining' = Len(list)
      BY <1>2 DEF StartProject
    <2>2. /\ list \in Seq(STRING) /\ size \in Nat /\ Len(list) \in Nat
          /\ project'.files = list /\ project'.loc = size
      BY <2>1, BenchAssumption
    <2>3. step' = "translate" /\ llmCalls' = 0 /\ repairIterations' = 0 /\ offset' = 0
      BY <1>2 DEF StartProject, NothingYet
    <2>4. ~compiled' /\ ~passed'
      BY <1>2 DEF StartProject, NothingYet
    <2>5. remaining' \in Nat
      BY <2>1, <2>2
    <2>6. project'.files \in Seq(STRING) /\ project'.loc \in Nat
      BY <2>2
    <2>7. BenchTypeOK'
      BY ONLY <2>3, <2>5, <2>6 DEF BenchTypeOK, BenchSteps
    <2>8. Judged'
      BY <2>3, <2>4 DEF Judged
    <2>9. Len(project'.files) = remaining'
      BY <2>1, <2>2
    <2>10. llmCalls' = 0 /\ llmCalls' + remaining' = Len(project'.files)
      BY ONLY <2>3, <2>5, <2>9, NothingAdded, Zenon
    <2>11. PromptsCounted'
      BY ONLY <2>3, <2>10 DEF PromptsCounted
    <2>12. QED
      BY <2>7, <2>8, <2>11
  <1>3. CASE StartFails \/ TranslateFails \/ Score
    BY <1>3, EndsClean DEF StartFails, TranslateFails, Score
  <1>4. CASE RepairsRunOut
    <2>1. /\ step \in {"repairBuild", "repairTests"} /\ remaining = 0 /\ step' = "score"
          /\ UNCHANGED <<project, disk, llmCalls, repairIterations, compiled, passed,
                         remaining, offset>>
      BY <1>4 DEF RepairsRunOut
    <2>2. BenchTypeOK'
      BY <2>1 DEF BenchTypeOK, BenchSteps
    <2>3. Judged'
      BY <2>1 DEF Judged, Builds, TestsHold, Unfit, Failing, Files
    <2>4. Translations' = Translations /\ MaxRepairs' = MaxRepairs
      BY <2>1 DEF Translations, MaxRepairs
    <2>5. llmCalls <= Translations + MaxRepairs
      <3>1. /\ llmCalls \in Nat /\ repairIterations \in Nat /\ Translations \in Nat
            /\ MaxRepairs \in Nat
        BY BenchNumbers DEF BenchTypeOK
      <3>2. remaining \in Nat
        BY DEF BenchTypeOK
      <3>3. CASE step = "repairBuild"
        <4>1. llmCalls <= Translations + repairIterations
              /\ repairIterations + remaining <= MaxRepairs
          BY <3>3 DEF PromptsCounted
        <4>2. QED
          BY <3>1, <3>2, <4>1
      <3>4. CASE step = "repairTests"
        <4>1. llmCalls + remaining <= Translations + MaxRepairs
          BY <3>4 DEF PromptsCounted
        <4>2. QED
          BY <3>1, <3>2, <4>1
      <3>5. QED
        BY <2>1, <3>3, <3>4
    <2>6. PromptsCounted'
      BY <2>1, <2>4, <2>5 DEF PromptsCounted
    <2>7. QED
      BY <2>2, <2>3, <2>6
  <1>5. CASE EndBench
    BY <1>5 DEF EndBench, BenchTypeOK, BenchSteps, Judged, PromptsCounted
  <1>6. CASE CutPanics
    BY <1>6 DEF CutPanics, BenchTypeOK, BenchSteps, Judged, PromptsCounted
  <1>7. QED
    BY <1>1, <1>2, <1>3, <1>4, <1>5, <1>6

LEMMA TranslationStep ==
  ASSUME BenchInv, TranslateModule \/ TranslateWhole \/ FirstBuild
  PROVE  BenchInv'
  <1> USE DEF BenchInv
  <1>1. /\ llmCalls \in Nat /\ repairIterations \in Nat /\ remaining \in Nat /\ offset \in Nat
        /\ Translations \in Nat /\ MaxRepairs \in Nat /\ Len(project.files) \in Nat
        /\ (Len(project.files) <= 1 => 1 <= Translations)
        /\ Len(project.files) <= Translations
        /\ project.files \in Seq(STRING) /\ project.loc \in Nat
    BY BenchNumbers DEF BenchTypeOK
  <1>2. CASE TranslateModule
    <2>1. /\ step = "translate" /\ Len(project.files) > 1 /\ remaining > 0
          /\ llmCalls' = llmCalls + 1 /\ remaining' = remaining - 1
          /\ step' = IF remaining = 1 THEN "build" ELSE "translate"
          /\ UNCHANGED <<project, repairIterations, compiled, passed, offset>>
      BY <1>2 DEF TranslateModule
    <2>2. BenchTypeOK'
      BY <1>1, <2>1 DEF BenchTypeOK, BenchSteps
    <2>3. Judged'
      BY <2>1 DEF Judged
    <2>4. Translations' = Translations /\ project'.files = project.files
      BY <2>1 DEF Translations
    <2>5. llmCalls + remaining = Len(project.files) /\ repairIterations' = 0
      BY <1>1, <2>1 DEF PromptsCounted
    <2>6. llmCalls' + remaining' = Len(project.files) /\ llmCalls' <= Translations
      BY <1>1, <2>1, <2>5
    <2>7. PromptsCounted'
      BY <1>1, <2>1, <2>4, <2>5, <2>6 DEF PromptsCounted
    <2>8. QED
      BY <2>2, <2>3, <2>7
  <1>3. CASE TranslateWhole
    <2>1. /\ step = "translate" /\ Len(project.files) <= 1 /\ llmCalls' = 1 /\ step' = "build"
          /\ UNCHANGED <<project, repairIterations, compiled, passed, remaining, offset>>
      BY <1>3 DEF TranslateWhole
    <2>2. BenchTypeOK'
      BY <1>1, <2>1 DEF BenchTypeOK, BenchSteps
    <2>3. Judged'
      BY <2>1 DEF Judged
    <2>4. Translations' = Translations
      BY <2>1 DEF Translations
    <2>5. PromptsCounted'
      BY <1>1, <2>1, <2>4 DEF PromptsCounted
    <2>6. QED
      BY <2>2, <2>3, <2>5
  <1>4. CASE FirstBuild
    <2>1. PICK ok \in BuildRuns(disk) :
            compiled' = ok /\ step' = IF ok THEN "test" ELSE "repairBuild"
      BY <1>4 DEF FirstBuild
    <2>2. /\ step = "build" /\ remaining' = MaxRepairs
          /\ UNCHANGED <<project, disk, llmCalls, repairIterations, passed, offset>>
      BY <1>4 DEF FirstBuild
    <2>3. ok \in BOOLEAN /\ (ok => Builds(disk))
      BY CommandsAreTrue
    <2>4. BenchTypeOK'
      BY <1>1, <2>1, <2>2 DEF BenchTypeOK, BenchSteps
    <2>5. Builds(disk)' = Builds(disk)
      BY <2>2 DEF Builds, Files
    <2>6. Judged'
      BY <2>1, <2>2, <2>3, <2>5 DEF Judged
    <2>7. Translations' = Translations /\ MaxRepairs' = MaxRepairs
      BY <2>2 DEF Translations, MaxRepairs
    <2>8. repairIterations' = 0 /\ llmCalls' = llmCalls /\ llmCalls <= Translations
      BY <2>2 DEF PromptsCounted
    <2>9. step' \in {"test", "repairBuild"}
      BY <2>1
    <2>10. llmCalls' <= (Translations + repairIterations)' /\ (repairIterations <= MaxRepairs)'
           /\ (repairIterations + remaining <= MaxRepairs)'
      BY <1>1, <2>2, <2>7, <2>8
    <2>11. PromptsCounted'
      BY <2>9, <2>10 DEF PromptsCounted
    <2>12. QED
      BY <2>4, <2>6, <2>11
  <1>5. QED
    BY <1>2, <1>3, <1>4

\* A repair is judged before the next one: the build first, and the tests if it
\* builds.
LEMMA RepairOfBuild ==
  ASSUME BenchInv, RepairBuild
  PROVE  BenchInv'
  <1> USE DEF BenchInv
  <1>1. /\ llmCalls \in Nat /\ repairIterations \in Nat /\ remaining \in Nat /\ offset \in Nat
        /\ Translations \in Nat /\ MaxRepairs \in Nat
        /\ project.files \in Seq(STRING) /\ project.loc \in Nat
    BY BenchNumbers DEF BenchTypeOK
  <1>2. /\ step = "repairBuild" /\ remaining > 0
        /\ llmCalls' = llmCalls + 1 /\ repairIterations' = repairIterations + 1
        /\ remaining' = remaining - 1
        /\ UNCHANGED <<project, passed, offset>>
    BY DEF RepairBuild
  <1>3. /\ step' \in {"test", "repairBuild", "score"}
        /\ step' = "test" => compiled' /\ Builds(disk')
        /\ step' = "repairBuild" => ~compiled'
        /\ step' = "score" => ~compiled'
    <2>1. CASE step' = "score" /\ UNCHANGED <<disk, compiled>>
      BY <1>2, <2>1 DEF Judged
    <2>2. CASE \E ok \in BuildRuns(disk') :
                 compiled' = ok /\ step' = IF ok THEN "test" ELSE "repairBuild"
      BY <2>2, CommandsAreTrue
    <2>3. QED
      BY <2>1, <2>2 DEF RepairBuild
  <1>4. Builds(disk)' <=> Builds(disk')
    BY <1>2 DEF Builds, Files
  <1>5. ~passed'
    BY <1>2 DEF Judged
  <1>6. BenchTypeOK'
    BY <1>1, <1>2, <1>3 DEF BenchTypeOK, BenchSteps
  <1>7. Judged'
    BY <1>3, <1>4, <1>5 DEF Judged
  <1>8. Translations' = Translations /\ MaxRepairs' = MaxRepairs
    BY <1>2 DEF Translations, MaxRepairs
  <1>9. llmCalls <= Translations + repairIterations /\ repairIterations + remaining <= MaxRepairs
    BY <1>2 DEF PromptsCounted
  <1>10. /\ llmCalls' <= Translations + repairIterations'
         /\ repairIterations' + remaining' <= MaxRepairs
         /\ repairIterations' <= MaxRepairs
         /\ llmCalls' <= Translations + MaxRepairs
    BY <1>1, <1>2, <1>9
  <1>11. PromptsCounted'
    BY <1>3, <1>8, <1>10 DEF PromptsCounted
  <1>12. QED
    BY <1>6, <1>7, <1>11

LEMMA FirstTests ==
  ASSUME BenchInv, RunTests
  PROVE  BenchInv'
  <1> USE DEF BenchInv
  <1>1. /\ llmCalls \in Nat /\ repairIterations \in Nat
        /\ Translations \in Nat /\ MaxRepairs \in Nat
        /\ project.files \in Seq(STRING) /\ project.loc \in Nat
    BY BenchNumbers DEF BenchTypeOK
  <1>2. /\ step = "test" /\ offset' = 1
        /\ remaining' = IF MaxRepairs > repairIterations THEN MaxRepairs - repairIterations ELSE 0
        /\ UNCHANGED <<project, disk, llmCalls, repairIterations, compiled>>
    BY DEF RunTests
  <1>3. PICK ok \in TestRuns(disk) :
          passed' = ok /\ step' = IF ok THEN "score" ELSE "repairTests"
    BY DEF RunTests
  <1>4. ok \in BOOLEAN /\ (ok => TestsHold(disk))
    BY CommandsAreTrue
  <1>5. /\ Builds(disk)' = Builds(disk) /\ TestsHold(disk)' = TestsHold(disk)
        /\ Translations' = Translations /\ MaxRepairs' = MaxRepairs
    BY <1>2 DEF Builds, TestsHold, Unfit, Failing, Files, Translations, MaxRepairs
  <1>6. compiled' /\ Builds(disk)'
    BY <1>2, <1>5 DEF Judged
  <1>7. llmCalls <= Translations + repairIterations /\ repairIterations <= MaxRepairs
    BY <1>2 DEF PromptsCounted
  <1>8. /\ remaining' \in Nat
        /\ llmCalls' + remaining' <= Translations + MaxRepairs
        /\ llmCalls' <= Translations + MaxRepairs
    BY <1>1, <1>2, <1>7
  <1>9. step' \in {"score", "repairTests"}
    BY <1>3
  <1>10. BenchTypeOK'
    BY <1>1, <1>2, <1>8, <1>9 DEF BenchTypeOK, BenchSteps
  <1>11. Judged'
    BY <1>3, <1>4, <1>5, <1>6, <1>9 DEF Judged
  <1>12. PromptsCounted'
    BY <1>5, <1>8, <1>9 DEF PromptsCounted
  <1>13. QED
    BY <1>10, <1>11, <1>12

LEMMA RepairOfTests ==
  ASSUME BenchInv, RepairTests
  PROVE  BenchInv'
  <1> USE DEF BenchInv
  <1>1. /\ llmCalls \in Nat /\ repairIterations \in Nat /\ remaining \in Nat /\ offset \in Nat
        /\ Translations \in Nat /\ MaxRepairs \in Nat
        /\ project.files \in Seq(STRING) /\ project.loc \in Nat
    BY BenchNumbers DEF BenchTypeOK
  <1>2. /\ step = "repairTests" /\ remaining > 0
        /\ llmCalls' = llmCalls + 1 /\ repairIterations' = repairIterations + offset
        /\ offset' = offset + 1 /\ remaining' = remaining - 1
        /\ UNCHANGED project
    BY DEF RepairTests
  <1>3. ~passed /\ (compiled => Builds(disk))
    BY <1>2 DEF Judged
  <1>4. /\ step' \in {"score", "repairTests"}
        /\ step' = "repairTests" => ~passed'
        /\ compiled' => Builds(disk')
        /\ passed' => compiled' /\ TestsHold(disk')
    <2>1. CASE step' = "score" /\ UNCHANGED <<disk, compiled, passed>>
      BY <1>3, <2>1
    <2>2. CASE \E ok \in BuildRuns(disk') :
                 /\ compiled' = ok
                 /\ IF ok THEN \E pass \in TestRuns(disk') :
                                 passed' = pass /\ step' = IF pass THEN "score" ELSE "repairTests"
                    ELSE UNCHANGED <<passed, step>>
      <3>1. PICK ok \in BuildRuns(disk') :
              /\ compiled' = ok
              /\ IF ok THEN \E pass \in TestRuns(disk') :
                              passed' = pass /\ step' = IF pass THEN "score" ELSE "repairTests"
                 ELSE UNCHANGED <<passed, step>>
        BY <2>2
      <3>2. CASE ok
        BY <3>1, <3>2, CommandsAreTrue
      <3>3. CASE ~ok
        BY <1>2, <1>3, <3>1, <3>3
      <3>4. QED
        BY <3>2, <3>3
    <2>3. QED
      BY <2>1, <2>2 DEF RepairTests
  <1>5. (Builds(disk)' <=> Builds(disk')) /\ (TestsHold(disk)' <=> TestsHold(disk'))
    BY <1>2 DEF Builds, TestsHold, Unfit, Failing, Files
  <1>6. Translations' = Translations /\ MaxRepairs' = MaxRepairs
    BY <1>2 DEF Translations, MaxRepairs
  <1>7. llmCalls + remaining <= Translations + MaxRepairs
    BY <1>2 DEF PromptsCounted
  <1>8. /\ llmCalls' + remaining' <= Translations + MaxRepairs
        /\ llmCalls' <= Translations + MaxRepairs
    BY <1>1, <1>2, <1>7
  <1>9. BenchTypeOK'
    BY <1>1, <1>2, <1>4 DEF BenchTypeOK, BenchSteps
  <1>10. Judged'
    BY <1>4, <1>5 DEF Judged
  <1>11. PromptsCounted'
    BY <1>4, <1>6, <1>8 DEF PromptsCounted
  <1>12. QED
    BY <1>9, <1>10, <1>11

LEMMA BenchLeftAlone ==
  ASSUME BenchInv, UNCHANGED benchVars
  PROVE  BenchInv'
  BY DEF benchVars, BenchInv, BenchTypeOK, Judged, PromptsCounted, Translations, MaxRepairs,
         Builds, TestsHold, Unfit, Failing, Files

LEMMA BenchStays ==
  ASSUME BenchInv, [Next]_serviceVars
  PROVE  BenchInv'
  <1>1. BenchNext \/ UNCHANGED benchVars
    BY DEF Next, Choose, InBench, InMcp, InApi, InLearned, InCrate, serviceVars
  <1>2. CASE BenchNext
    BY <1>2, PlainBenchStep, TranslationStep, RepairOfBuild, FirstTests, RepairOfTests
       DEF BenchNext, BenchStep
  <1>3. QED
    BY <1>1, <1>2, BenchLeftAlone

\* A project is reported as compiled or passed only if the files that its repairs
\* left build and pass, for every reply of the model, and within its prompts.  Where
\* a test does not compile against the files, "passed" says only that some file passes.
THEOREM BenchReportTrue == Spec => []BenchReportIsTrue
  <1>1. BenchInv => BenchReportIsTrue
    <2> SUFFICES ASSUME BenchInv, step = "score"
                 PROVE  /\ compiled => Builds(disk)
                        /\ passed => compiled /\ TestsHold(disk)
                        /\ llmCalls <= Len(project.files) + MaxRepairs
                                       + (IF project.files = <<>> THEN 1 ELSE 0)
      BY DEF BenchReportIsTrue
    <2>1. (compiled => Builds(disk)) /\ (passed => compiled /\ TestsHold(disk))
      BY DEF BenchInv, Judged
    <2>2. llmCalls <= Translations + MaxRepairs
      BY DEF BenchInv, PromptsCounted
    <2>3. Len(project.files) \in Nat /\ MaxRepairs \in Nat
      BY BenchNumbers DEF BenchInv
    <2> DEFINE Whole == IF project.files = <<>> THEN 1 ELSE 0
    <2>4. Whole \in Nat /\ Translations = Len(project.files) + Whole
      BY DEF Translations
    <2>5. llmCalls <= Len(project.files) + MaxRepairs + Whole
      <3> HIDE DEF Whole
      <3>1. \A a, b, c \in Nat : (a + b) + c = (a + c) + b
        OBVIOUS
      <3>2. QED
        BY ONLY <2>2, <2>3, <2>4, <3>1, Zenon
    <2>6. QED
      BY <2>1, <2>5
  <1>2. QED
    BY <1>1, BenchStarts, BenchStays, PTL DEF Spec

-----------------------------------------------------------------------------
(***************************************************************************)
(* The crate.                                                              *)
(***************************************************************************)
ModuleTexts == [headers : Nat, body : Bodies]

RepairSteps == {"check", "checked", "ask", "end"}

CrateTypeOK ==
  /\ cstep \in {"new", "write", "repair"} \union RepairSteps
  /\ builder \in [modules : Seq(DOMAIN sources), types : BOOLEAN]
  /\ \A n \in DOMAIN sources : sources[n] \in ModuleTexts
  /\ ceiling \in Nat

NothingWritten == cstep = "new" => builder.modules = <<>>

\* The text that the rules and the model start from is within the ceiling too, for
\* it may be written again.
UnsafeWithin ==
  /\ cstep \in RepairSteps => module \in DOMAIN sources /\ sources[module].body.unsafe <= ceiling
  /\ cstep \in {"checked", "ask"} => current \in ModuleTexts /\ current.body.unsafe <= ceiling

SuccessIsLast == succeeded => cstep = "end" /\ check_crate_compiles(sources)

CrateInv == CrateTypeOK /\ NothingWritten /\ UnsafeWithin /\ SuccessIsLast

\* What write_module leaves: the text under its name, the others as they were.
LEMMA PutReplaces ==
  ASSUME NEW old, NEW name, NEW text \in ModuleTexts, builder.types \in BOOLEAN,
         \A n \in DOMAIN old : old[n] \in ModuleTexts
  PROVE  /\ DOMAIN Put(old, name, text) = DOMAIN old \union {name}
         /\ \A n \in DOMAIN Put(old, name, text) : Put(old, name, text)[n] \in ModuleTexts
         /\ Put(old, name, text)[name].body = text.body
  <1> DEFINE added == IF builder.types THEN 1 ELSE 0
             new   == [text EXCEPT !.headers = @ + added]
  <1>1. text.headers \in Nat /\ text.body \in Bodies /\ added \in Nat
    BY DEF ModuleTexts
  <1>2. new = [headers |-> text.headers + added, body |-> text.body]
    BY DEF ModuleTexts
  <1>3. new \in ModuleTexts /\ new.body = text.body
    BY <1>1, <1>2 DEF ModuleTexts
  <1>4. Put(old, name, text) = [n \in DOMAIN old \union {name} |-> IF n = name THEN new ELSE old[n]]
    BY DEF Put
  <1> HIDE DEF new
  <1>5. QED
    BY <1>3, <1>4

LEMMA ListedIsListed ==
  ASSUME NEW S, NEW list \in Seq(S), NEW name
  PROVE  Listed(list, name) \in Seq(S \union {name})
  <1>1. list \in Seq(S \union {name})
    OBVIOUS
  <1>2. QED
    BY <1>1 DEF Listed

LEMMA CrateStarts == Init => CrateInv
  <1> SUFFICES ASSUME CrateInit PROVE CrateInv
    BY DEF Init
  <1>1. DOMAIN sources = {}
    BY DEF CrateInit
  <1>2. builder \in [modules : Seq(DOMAIN sources), types : BOOLEAN]
    BY DEF CrateInit
  <1>3. CrateTypeOK
    BY <1>1, <1>2 DEF CrateInit, CrateTypeOK
  <1>4. NothingWritten /\ UnsafeWithin /\ SuccessIsLast
    BY DEF CrateInit, NothingWritten, UnsafeWithin, SuccessIsLast, RepairSteps
  <1>5. QED
    BY <1>3, <1>4 DEF CrateInv

\* Before the repair.
LEMMA CrateIsWritten ==
  ASSUME CrateInv, BeginCrateOutput \/ WriteModule \/ FinishCrate
  PROVE  CrateInv'
  <1>1. /\ cstep' \in {"write", "repair"} /\ cstep \notin RepairSteps
        /\ UNCHANGED <<ceiling, succeeded>>
    BY DEF BeginCrateOutput, WriteModule, FinishCrate, RepairSteps
  <1>2. NothingWritten' /\ UnsafeWithin' /\ SuccessIsLast'
    BY <1>1 DEF CrateInv, NothingWritten, UnsafeWithin, SuccessIsLast, RepairSteps
  <1>3. /\ builder \in [modules : Seq(DOMAIN sources), types : BOOLEAN]
        /\ \A n \in DOMAIN sources : sources[n] \in ModuleTexts
        /\ ceiling \in Nat
    BY DEF CrateInv, CrateTypeOK
  <1>4. /\ builder' \in [modules : Seq(DOMAIN sources'), types : BOOLEAN]
        /\ \A n \in DOMAIN sources' : sources'[n] \in ModuleTexts
    <2>1. CASE UNCHANGED <<builder, sources>>
      BY <1>3, <2>1
    <2>2. CASE cstep = "new" /\ builder' = [builder EXCEPT !.types = TRUE]
               /\ \E ok \in BOOLEAN :
                    sources' = [n \in {"types"} |-> [headers |-> 0, body |-> [compiles |-> ok, unsafe |-> 0]]]
      <3>1. PICK ok \in BOOLEAN :
              sources' = [n \in {"types"} |-> [headers |-> 0, body |-> [compiles |-> ok, unsafe |-> 0]]]
        BY <2>2
      <3>2. [headers |-> 0, body |-> [compiles |-> ok, unsafe |-> 0]] \in ModuleTexts
        BY DEF ModuleTexts, Bodies
      <3>3. builder.modules = <<>>
        BY <2>2 DEF CrateInv, NothingWritten
      <3>4. builder' = [modules |-> builder.modules, types |-> TRUE]
        BY <1>3, <2>2
      <3>5. QED
        BY <3>1, <3>2, <3>3, <3>4
    <2> DEFINE name == SafeName[Head(unwritten)]
    <2>3. CASE \E b \in Bodies :
                 /\ sources' = Put(sources, name, [headers |-> 0, body |-> b])
                 /\ builder' = [builder EXCEPT !.modules = Listed(@, name)]
      <3>1. PICK b \in Bodies :
              /\ sources' = Put(sources, name, [headers |-> 0, body |-> b])
              /\ builder' = [builder EXCEPT !.modules = Listed(@, name)]
        BY <2>3
      <3> HIDE DEF name
      <3>2. [headers |-> 0, body |-> b] \in ModuleTexts
        BY DEF ModuleTexts
      <3>3. /\ DOMAIN sources' = DOMAIN sources \union {name}
            /\ \A n \in DOMAIN sources' : sources'[n] \in ModuleTexts
        BY <1>3, <3>1, <3>2, PutReplaces
      <3>4. Listed(builder.modules, name) \in Seq(DOMAIN sources')
        BY <1>3, <3>3, ListedIsListed
      <3>5. builder' = [modules |-> Listed(builder.modules, name), types |-> builder.types]
        BY <1>3, <3>1
      <3>6. QED
        BY <1>3, <3>3, <3>4, <3>5
    <2>4. QED
      BY <2>1, <2>2, <2>3 DEF BeginCrateOutput, WriteModule, FinishCrate
  <1>5. CrateTypeOK'
    BY <1>1, <1>3, <1>4 DEF CrateTypeOK, RepairSteps
  <1>6. QED
    BY <1>2, <1>5 DEF CrateInv

LEMMA RepairBegins ==
  ASSUME CrateInv, BeginRepair
  PROVE  CrateInv'
  <1>1. /\ cstep = "repair" /\ cstep' = "check"
        /\ UNCHANGED <<builder, sources, succeeded>>
    BY DEF BeginRepair
  <1>2. PICK k \in DOMAIN builder.modules, given \in UnsafeCeilings :
          /\ module' = builder.modules[k]
          /\ ceiling' = IF given > sources[builder.modules[k]].body.unsafe THEN given
                        ELSE sources[builder.modules[k]].body.unsafe
    BY DEF BeginRepair
  <1>3. builder \in [modules : Seq(DOMAIN sources), types : BOOLEAN]
        /\ \A n \in DOMAIN sources : sources[n] \in ModuleTexts
    BY DEF CrateInv, CrateTypeOK
  <1>4. module' \in DOMAIN sources
    BY <1>2, <1>3
  <1>5. sources[module'].body.unsafe \in Nat /\ given \in Nat
    BY <1>3, <1>4, CrateAssumption DEF ModuleTexts, Bodies
  <1>6. ceiling' \in Nat /\ sources[module'].body.unsafe <= ceiling'
    BY <1>2, <1>5
  <1>7. CrateTypeOK'
    BY <1>1, <1>3, <1>6 DEF CrateTypeOK, RepairSteps
  <1>8. UnsafeWithin'
    BY <1>1, <1>4, <1>6 DEF UnsafeWithin
  <1>9. NothingWritten' /\ SuccessIsLast'
    BY <1>1 DEF CrateInv, NothingWritten, SuccessIsLast
  <1>10. QED
    BY <1>7, <1>8, <1>9 DEF CrateInv

\* Steps of the repair that write nothing.
LEMMA RepairOnlyLooks ==
  ASSUME CrateInv, CheckModule \/ RepairFails \/ GiveUp
  PROVE  CrateInv'
  <1>1. /\ cstep \in RepairSteps /\ cstep' \in {"checked", "end"}
        /\ UNCHANGED <<builder, sources, lib, module, ceiling>>
        /\ cstep' = "checked" => current' = sources[module]
        /\ cstep \in {"check", "checked", "ask"}
    BY DEF CheckModule, RepairFails, GiveUp, RepairSteps
  <1>2. succeeded' => cstep' = "end" /\ check_crate_compiles(sources)
    BY <1>1 DEF CheckModule, RepairFails, GiveUp, CrateInv, SuccessIsLast
  <1>3. check_crate_compiles(sources)' = check_crate_compiles(sources)
    BY <1>1 DEF check_crate_compiles, ModuleCompiles
  <1>4. module \in DOMAIN sources /\ sources[module].body.unsafe <= ceiling
        /\ \A n \in DOMAIN sources : sources[n] \in ModuleTexts
    BY <1>1 DEF CrateInv, UnsafeWithin, CrateTypeOK
  <1>5. CrateTypeOK'
    BY <1>1 DEF CrateInv, CrateTypeOK, RepairSteps
  <1>6. UnsafeWithin' /\ NothingWritten'
    BY <1>1, <1>4 DEF UnsafeWithin, NothingWritten
  <1>7. SuccessIsLast'
    BY <1>2, <1>3 DEF SuccessIsLast
  <1>8. QED
    BY <1>5, <1>6, <1>7 DEF CrateInv

\* What is written in the repair is the module, with no more unsafe blocks than
\* the ceiling.
LEMMA RewriteKeepsWithin ==
  ASSUME CrateInv, module \in DOMAIN sources, UNCHANGED <<builder, module, ceiling>>,
         NEW text \in ModuleTexts, text.body.unsafe <= ceiling, Rewrite(text)
  PROVE  /\ DOMAIN sources' = DOMAIN sources
         /\ \A n \in DOMAIN sources' : sources'[n] \in ModuleTexts
         /\ sources'[module].body.unsafe <= ceiling
  <1>1. builder.types \in BOOLEAN /\ \A n \in DOMAIN sources : sources[n] \in ModuleTexts
    BY DEF CrateInv, CrateTypeOK
  <1>2. sources' = Put(sources, module, text)
    BY DEF Rewrite
  <1>3. /\ DOMAIN Put(sources, module, text) = DOMAIN sources \union {module}
        /\ \A n \in DOMAIN Put(sources, module, text) : Put(sources, module, text)[n] \in ModuleTexts
        /\ Put(sources, module, text)[module].body = text.body
    BY <1>1, PutReplaces
  <1>4. QED
    BY <1>2, <1>3

LEMMA RepairWrites ==
  ASSUME CrateInv, ApplyRules \/ AskRepair
  PROVE  CrateInv'
  <1>1. /\ cstep \in {"checked", "ask"} /\ cstep' \in {"ask", "end", "check"}
        /\ cstep' = "ask" => cstep = "checked"
        /\ UNCHANGED <<builder, lib, module, ceiling, current>>
    BY DEF ApplyRules, AskRepair
  <1>2. /\ module \in DOMAIN sources /\ sources[module].body.unsafe <= ceiling
        /\ current \in ModuleTexts /\ current.body.unsafe <= ceiling /\ ceiling \in Nat
        /\ builder \in [modules : Seq(DOMAIN sources), types : BOOLEAN]
        /\ \A n \in DOMAIN sources : sources[n] \in ModuleTexts
        /\ ~succeeded
    BY <1>1 DEF CrateInv, UnsafeWithin, CrateTypeOK, SuccessIsLast, RepairSteps
  <1>3. /\ DOMAIN sources' = DOMAIN sources
        /\ \A n \in DOMAIN sources' : sources'[n] \in ModuleTexts
        /\ sources'[module].body.unsafe <= ceiling
    <2>1. CASE UNCHANGED sources
      BY <1>2, <2>1
    <2>2. CASE \E compiles \in BOOLEAN :
                 Rewrite([current EXCEPT !.body = [@ EXCEPT !.compiles = compiles]])
      <3>1. PICK compiles \in BOOLEAN :
              Rewrite([current EXCEPT !.body = [@ EXCEPT !.compiles = compiles]])
        BY <2>2
      <3> DEFINE body == [current.body EXCEPT !.compiles = compiles]
                 text == [current EXCEPT !.body = body]
      <3>2. body \in Bodies /\ body.unsafe = current.body.unsafe
        BY <1>2 DEF ModuleTexts, Bodies
      <3>3. Rewrite(text)
        BY <3>1
      <3> HIDE DEF body
      <3>4. text \in ModuleTexts /\ text.body = body
        BY <1>2, <3>2 DEF ModuleTexts
      <3> HIDE DEF text
      <3>5. QED
        BY <1>1, <1>2, <3>2, <3>3, <3>4, RewriteKeepsWithin
    <2>3. CASE \E headers \in 0 .. current.headers, b \in Bodies :
                 b.unsafe <= ceiling /\ Rewrite([headers |-> headers, body |-> b])
      <3>1. PICK headers \in 0 .. current.headers, b \in Bodies :
              b.unsafe <= ceiling /\ Rewrite([headers |-> headers, body |-> b])
        BY <2>3
      <3>2. headers \in Nat
        BY <1>2 DEF ModuleTexts
      <3> DEFINE text == [headers |-> headers, body |-> b]
      <3>3. text \in ModuleTexts /\ text.body = b
        BY <3>2 DEF ModuleTexts
      <3>4. Rewrite(text) /\ text.body.unsafe <= ceiling
        BY <3>1
      <3> HIDE DEF text
      <3>5. QED
        BY <1>1, <1>2, <3>3, <3>4, RewriteKeepsWithin
    <2>4. QED
      BY <2>1, <2>2, <2>3 DEF ApplyRules, AskRepair
  <1>4. succeeded' => cstep' = "end" /\ check_crate_compiles(sources')
    BY <1>2 DEF ApplyRules, AskRepair
  <1>5. check_crate_compiles(sources)' <=> check_crate_compiles(sources')
    BY <1>1 DEF check_crate_compiles, ModuleCompiles
  <1>6. CrateTypeOK'
    BY <1>1, <1>2, <1>3 DEF CrateTypeOK, RepairSteps
  <1>7. UnsafeWithin' /\ NothingWritten'
    BY <1>1, <1>2, <1>3 DEF UnsafeWithin, NothingWritten
  <1>8. SuccessIsLast'
    BY <1>4, <1>5 DEF SuccessIsLast
  <1>9. QED
    BY <1>6, <1>7, <1>8 DEF CrateInv

LEMMA CrateLeftAlone ==
  ASSUME CrateInv, UNCHANGED crateVars
  PROVE  CrateInv'
  BY DEF crateVars, CrateInv, CrateTypeOK, NothingWritten, UnsafeWithin, SuccessIsLast,
         check_crate_compiles, ModuleCompiles

LEMMA CrateStays ==
  ASSUME CrateInv, [Next]_serviceVars
  PROVE  CrateInv'
  <1>1. CrateNext \/ UNCHANGED crateVars
    BY DEF Next, Choose, InBench, InMcp, InApi, InLearned, InCrate, serviceVars
  <1>2. CASE CrateNext
    BY <1>2, CrateIsWritten, RepairBegins, RepairOnlyLooks, RepairWrites
       DEF CrateNext, RepairStep
  <1>3. QED
    BY <1>1, <1>2, CrateLeftAlone

\* A repair of a module reports success only of a crate that compiles as it then
\* stands, and never leaves the module more unsafe blocks than it had or was
\* allowed, whichever modules were written, under whichever names.
THEOREM CrateRepairTrue == Spec => []RepairedCrateCompiles
  <1>1. CrateInv => RepairedCrateCompiles
    BY DEF CrateInv, SuccessIsLast, UnsafeWithin, RepairSteps, RepairedCrateCompiles
  <1>2. QED
    BY <1>1, CrateStarts, CrateStays, PTL DEF Spec

-----------------------------------------------------------------------------
(***************************************************************************)
(* The limits of the servers.                                              *)
(***************************************************************************)
Places == {"away", "waiting", "admission", "lock", "handler", "working", "answered"}

ApiTypeOK ==
  /\ now \in Nat
  /\ calls \in [Calls -> Kinds \union {NoKind}]
  /\ where \in [Calls -> Places]
  /\ queue \in [Routes -> Seq(Calls)]
  /\ status \in [Calls -> Nat]
  /\ stamp \in [Calls -> Nat]
  /\ timestamps \in [Clients -> SUBSET Calls]

\* A request waits in one place of one queue.
Queued ==
  \A r \in Routes : \A n \in DOMAIN queue[r] :
    /\ where[queue[r][n]] = "waiting"
    /\ \A q \in Routes : \A m \in DOMAIN queue[q] :
         queue[q][m] = queue[r][n] => q = r /\ m = n

Arrived ==
  \A c \in Calls : stamp[c] <= now /\ (where[c] # "away" => calls[c] \in Kinds)

\* The requests the limiter has forgotten are a window old, for whoever made it
\* forget them had read the clock by now.
Remembered ==
  \A i \in Clients :
    /\ timestamps[i] \subseteq LetThrough(i)
    /\ Cardinality(timestamps[i]) <= max_rpm
    /\ \A c \in LetThrough(i) : c \in timestamps[i] \/ now - stamp[c] >= Window

Near(c) == {d \in LetThrough(calls[c].client) : stamp[c] - stamp[d] < Window}

RefusedRightly ==
  \A c \in Calls : status[c] = 429 => where[c] = "answered" /\ Cardinality(Near(c)) >= max_rpm

ApiInv == ApiTypeOK /\ Queued /\ Arrived /\ Remembered /\ RefusedRightly

LEMMA CallsAreFinite ==
  /\ \A S \in SUBSET Calls : IsFiniteSet(S) /\ Cardinality(S) \in Nat
  /\ \A S, T \in SUBSET Calls : S \subseteq T => Cardinality(S) <= Cardinality(T)
  <1>1. IsFiniteSet(Calls)
    BY ApiAssumption, FS_Interval DEF Calls
  <1>2. QED
    BY <1>1, FS_Subset, FS_CardinalityType

LEMMA ApiStarts == Init => ApiInv
  <1> SUFFICES ASSUME ApiInit PROVE ApiInv
    BY DEF Init
  <1>1. ApiTypeOK
    BY DEF ApiInit, ApiTypeOK, Places
  <1>2. Queued
    BY DEF ApiInit, Queued
  <1>3. Arrived
    BY DEF ApiInit, Arrived
  <1>4. \A i \in Clients : timestamps[i] = {} /\ LetThrough(i) = {}
    BY DEF ApiInit, LetThrough
  <1>5. Remembered
    BY <1>4, FS_EmptySet, ApiAssumption DEF Remembered
  <1>6. RefusedRightly
    BY DEF ApiInit, RefusedRightly
  <1>7. QED
    BY <1>1, <1>2, <1>3, <1>5, <1>6 DEF ApiInv

\* A step of requests that are neither counted nor refused by it.
LEMMA LimitsHold ==
  ASSUME ApiInv, ApiTypeOK', timestamps' = timestamps, now' >= now,
         \A i \in Clients : LetThrough(i)' = LetThrough(i),
         \A i \in Clients : \A d \in LetThrough(i) : stamp'[d] = stamp[d],
         \A c \in Calls : status'[c] = 429 =>
           status[c] = 429 /\ where'[c] = where[c] /\ stamp'[c] = stamp[c] /\ calls'[c] = calls[c]
  PROVE  Remembered' /\ RefusedRightly'
  <1>1. /\ now \in Nat /\ now' \in Nat /\ stamp \in [Calls -> Nat] /\ Window \in Nat
        /\ \A i : LetThrough(i) \subseteq Calls
    BY ApiAssumption DEF ApiInv, ApiTypeOK, LetThrough
  <1>2. Remembered'
    <2> SUFFICES ASSUME NEW i \in Clients
                 PROVE  /\ timestamps'[i] \subseteq LetThrough(i)'
                        /\ Cardinality(timestamps'[i]) <= max_rpm
                        /\ \A c \in LetThrough(i)' : c \in timestamps'[i] \/ now' - stamp'[c] >= Window
      BY DEF Remembered
    <2>1. /\ timestamps[i] \subseteq LetThrough(i)
          /\ Cardinality(timestamps[i]) <= max_rpm
          /\ \A c \in LetThrough(i) : c \in timestamps[i] \/ now - stamp[c] >= Window
      BY DEF ApiInv, Remembered
    <2>2. ASSUME NEW c \in LetThrough(i), now - stamp[c] >= Window
          PROVE  now' - stamp'[c] >= Window
      <3>1. stamp[c] \in Nat /\ stamp'[c] = stamp[c]
        BY <1>1
      <3>2. now' - stamp[c] >= Window
        BY <1>1, <2>2, <3>1
      <3>3. QED
        BY <3>1, <3>2
    <2>3. QED
      BY <2>1, <2>2
  <1>3. RefusedRightly'
    <2> SUFFICES ASSUME NEW c \in Calls, status'[c] = 429
                 PROVE  where'[c] = "answered" /\ Cardinality(Near(c)') >= max_rpm
      BY DEF RefusedRightly
    <2>1. /\ where'[c] = "answered" /\ Cardinality(Near(c)) >= max_rpm
          /\ stamp'[c] = stamp[c] /\ calls'[c] = calls[c] /\ where[c] = "answered"
      BY DEF ApiInv, RefusedRightly
    <2>2. calls[c].client \in Clients
      BY <2>1 DEF ApiInv, Arrived, Clients
    <2>3. Near(c)' = Near(c)
      BY <2>1, <2>2 DEF Near
    <2>4. QED
      BY <2>1, <2>3
  <1>4. QED
    BY <1>2, <1>3

LEMMA ArriveKeeps ==
  ASSUME ApiInv, NEW c \in Calls, Arrive(c)
  PROVE  ApiInv'
  <1>1. PICK k \in Kinds : /\ calls' = [calls EXCEPT ![c] = k]
                           /\ queue' = [queue EXCEPT ![k.route] = Append(@, c)]
    BY DEF Arrive
  <1>2. /\ where[c] = "away" /\ where' = [where EXCEPT ![c] = "waiting"]
        /\ UNCHANGED <<now, status, stamp, timestamps>>
    BY DEF Arrive
  <1>3. ApiTypeOK /\ Queued /\ Arrived
    BY DEF ApiInv
  <1>4. ApiTypeOK'
    <2>1. queue' \in [Routes -> Seq(Calls)]
      <3>1. queue \in [Routes -> Seq(Calls)]
        BY <1>3 DEF ApiTypeOK
      <3>2. \A r \in Routes : queue'[r] = queue[r] \/ queue'[r] = Append(queue[r], c)
        BY <1>1, <3>1
      <3>3. \A r \in Routes : queue'[r] \in Seq(Calls)
        <4>1. \A list \in Seq(Calls) : Append(list, c) \in Seq(Calls)
          OBVIOUS
        <4>2. QED
          BY <3>1, <3>2, <4>1, Zenon
      <3>4. QED
        BY <1>1, <3>1, <3>3
    <2>2. calls' \in [Calls -> Kinds \union {NoKind}] /\ where' \in [Calls -> Places]
      BY <1>1, <1>2, <1>3 DEF ApiTypeOK, Places
    <2>3. QED
      BY <1>2, <1>3, <2>1, <2>2 DEF ApiTypeOK
  <1>5. Arrived'
    BY <1>1, <1>2, <1>3 DEF Arrived, ApiTypeOK
  <1>6. \A r \in Routes : \A n \in DOMAIN queue[r] : queue[r][n] # c /\ queue[r][n] \in Calls
    BY <1>2, <1>3 DEF Queued, ApiTypeOK
  <1>7. Queued'
    <2>1. \A r \in Routes : \A n \in DOMAIN queue'[r] :
            \/ n \in DOMAIN queue[r] /\ queue'[r][n] = queue[r][n]
            \/ r = k.route /\ n = Len(queue[r]) + 1 /\ queue'[r][n] = c
      BY <1>1, <1>3 DEF ApiTypeOK
    <2>2. \A r \in Routes : \A n \in DOMAIN queue'[r] : where'[queue'[r][n]] = "waiting"
      BY <1>2, <1>3, <1>6, <2>1 DEF Queued, ApiTypeOK
    <2>3. \A r, q \in Routes : \A n \in DOMAIN queue'[r], m \in DOMAIN queue'[q] :
            queue'[q][m] = queue'[r][n] => q = r /\ m = n
      BY <1>3, <1>6, <2>1 DEF Queued
    <2>4. QED
      BY <2>2, <2>3 DEF Queued
  <1>8. \A i \in Clients : LetThrough(i)' = LetThrough(i)
    BY <1>1, <1>2, <1>3 DEF LetThrough, ApiTypeOK
  <1>9. \A d \in Calls : status'[d] = 429 =>
          status[d] = 429 /\ where'[d] = where[d] /\ stamp'[d] = stamp[d] /\ calls'[d] = calls[d]
    BY <1>1, <1>2, <1>3 DEF ApiTypeOK, ApiInv, RefusedRightly
  <1>10. Remembered' /\ RefusedRightly'
    <2>1. now' >= now
      BY <1>2, <1>3 DEF ApiTypeOK
    <2>2. QED
      BY <1>2, <1>4, <1>8, <1>9, <2>1, LimitsHold
  <1>11. QED
    BY <1>4, <1>5, <1>7, <1>10 DEF ApiInv

LEMMA TakeSlotKeeps ==
  ASSUME ApiInv, NEW r \in Routes, TakeSlot(r)
  PROVE  ApiInv'
  <1> DEFINE c == Head(queue[r])
  <1>1. ApiTypeOK /\ Queued /\ Arrived
    BY DEF ApiInv
  <1>2. /\ queue[r] # <<>> /\ where' = [where EXCEPT ![c] = "admission"]
        /\ queue' = [queue EXCEPT ![r] = Tail(@)]
        /\ UNCHANGED <<now, calls, status, stamp, timestamps>>
    BY DEF TakeSlot
  <1>3. queue[r] \in Seq(Calls) /\ Len(queue[r]) \in Nat \ {0} /\ 1 \in DOMAIN queue[r]
        /\ c = queue[r][1] /\ c \in Calls
    BY <1>1, <1>2 DEF ApiTypeOK
  <1>4. where[c] = "waiting"
    BY <1>1, <1>3 DEF Queued
  <1> HIDE DEF c
  <1>5. ApiTypeOK'
    <2>1. queue' \in [Routes -> Seq(Calls)]
      BY <1>1, <1>2, <1>3 DEF ApiTypeOK
    <2>2. where' \in [Calls -> Places]
      BY <1>1, <1>2 DEF ApiTypeOK, Places
    <2>3. QED
      BY <1>1, <1>2, <2>1, <2>2 DEF ApiTypeOK
  <1>6. Arrived'
    BY <1>1, <1>2, <1>4 DEF Arrived, ApiTypeOK
  <1>7. Queued'
    <2>1. Tail(queue[r]) = [n \in 1 .. Len(queue[r]) - 1 |-> queue[r][n + 1]]
      BY <1>3
    <2>2. \A q \in Routes : \A n \in DOMAIN queue'[q] :
            IF q = r THEN n + 1 \in DOMAIN queue[q] /\ n + 1 # 1 /\ queue'[q][n] = queue[q][n + 1]
                          /\ n \in Nat
            ELSE n \in DOMAIN queue[q] /\ queue'[q][n] = queue[q][n]
      BY <1>1, <1>2, <1>3, <2>1 DEF ApiTypeOK
    <2>3. \A q \in Routes : \A n \in DOMAIN queue'[q] :
            queue'[q][n] # c /\ where[queue'[q][n]] = "waiting" /\ queue'[q][n] \in Calls
      <3> SUFFICES ASSUME NEW q \in Routes, NEW n \in DOMAIN queue'[q]
                   PROVE  queue'[q][n] # c /\ where[queue'[q][n]] = "waiting" /\ queue'[q][n] \in Calls
        OBVIOUS
      <3>1. PICK m \in DOMAIN queue[q] : queue'[q][n] = queue[q][m] /\ (q = r => m # 1)
        BY <2>2
      <3>2. queue[q] \in Seq(Calls) /\ where[queue[q][m]] = "waiting"
        BY <1>1 DEF Queued, ApiTypeOK
      <3>3. queue[q][m] # queue[r][1]
        BY <1>1, <1>3, <3>1 DEF Queued
      <3>4. QED
        BY <1>3, <3>1, <3>2, <3>3
    <2>4. \A q \in Routes : \A n \in DOMAIN queue'[q] : where'[queue'[q][n]] = "waiting"
      BY <1>1, <1>2, <2>3 DEF ApiTypeOK
    <2>5. \A p, q \in Routes : \A n \in DOMAIN queue'[p], m \in DOMAIN queue'[q] :
            queue'[q][m] = queue'[p][n] => q = p /\ m = n
      BY <1>1, <2>2 DEF Queued
    <2>6. QED
      BY <2>4, <2>5 DEF Queued
  <1>8. \A i \in Clients : LetThrough(i)' = LetThrough(i)
    BY <1>1, <1>2, <1>4 DEF LetThrough, ApiTypeOK
  <1>9. \A d \in Calls : status'[d] = 429 =>
          status[d] = 429 /\ where'[d] = where[d] /\ stamp'[d] = stamp[d] /\ calls'[d] = calls[d]
    BY <1>1, <1>2, <1>4 DEF ApiTypeOK, ApiInv, RefusedRightly
  <1>10. now' >= now
    BY <1>1, <1>2 DEF ApiTypeOK
  <1>11. Remembered' /\ RefusedRightly'
    BY <1>2, <1>5, <1>8, <1>9, <1>10, LimitsHold
  <1>12. QED
    BY <1>5, <1>6, <1>7, <1>11 DEF ApiInv

\* A request that has its slot waits in no queue.
LEMMA SlotKeepsQueues ==
  ASSUME ApiInv, NEW c \in Calls, where[c] # "waiting", queue' = queue,
         NEW p, where' = [where EXCEPT ![c] = p]
  PROVE  Queued'
  <1>1. \A r \in Routes : \A n \in DOMAIN queue[r] : queue[r][n] # c /\ queue[r][n] \in Calls
    BY DEF ApiInv, Queued, ApiTypeOK
  <1>2. \A d \in Calls : d # c => where'[d] = where[d]
    BY DEF ApiInv, ApiTypeOK
  <1>3. QED
    BY <1>1, <1>2 DEF ApiInv, Queued

LEMMA ReadClockKeeps ==
  ASSUME ApiInv, NEW c \in Calls, ReadClock(c)
  PROVE  ApiInv'
  <1>1. ApiTypeOK /\ Arrived
    BY DEF ApiInv
  <1>2. /\ where[c] = "admission" /\ where' = [where EXCEPT ![c] = "lock"]
        /\ stamp' = [stamp EXCEPT ![c] = now]
        /\ UNCHANGED <<now, calls, queue, status, timestamps>>
    BY DEF ReadClock
  <1>3. now \in Nat /\ now' = now /\ now' >= now
    BY <1>1, <1>2 DEF ApiTypeOK
  <1>4. ApiTypeOK'
    BY <1>1, <1>2 DEF ApiTypeOK, Places
  <1>5. Arrived'
    BY <1>1, <1>2, <1>3 DEF Arrived, ApiTypeOK
  <1>6. Queued'
    BY <1>2, SlotKeepsQueues
  <1>7. \A i \in Clients : LetThrough(i)' = LetThrough(i) /\ c \notin LetThrough(i)
    BY <1>1, <1>2 DEF LetThrough, ApiTypeOK
  <1>8. \A i \in Clients : \A d \in LetThrough(i) : stamp'[d] = stamp[d]
    BY <1>1, <1>2, <1>7 DEF LetThrough, ApiTypeOK
  <1>9. \A d \in Calls : status'[d] = 429 =>
          status[d] = 429 /\ where'[d] = where[d] /\ stamp'[d] = stamp[d] /\ calls'[d] = calls[d]
    BY <1>1, <1>2 DEF ApiTypeOK, ApiInv, RefusedRightly
  <1>10. Remembered' /\ RefusedRightly'
    BY <1>2, <1>3, <1>4, <1>7, <1>8, <1>9, LimitsHold
  <1>11. QED
    BY <1>4, <1>5, <1>6, <1>10 DEF ApiInv

LEMMA HandlersDoNotRefuse == \A route : Handler(route) \subseteq {200, 500}
  BY DEF Handler, analyze, score, check, diff_test, migrate

\* Work on a request that was let through.
LEMMA HandlerKeeps ==
  ASSUME ApiInv, NEW c \in Calls, Enter(c) \/ Work(c)
  PROVE  ApiInv'
  <1>1. ApiTypeOK /\ Arrived
    BY DEF ApiInv
  <1>2. /\ where[c] \in {"handler", "working"}
        /\ UNCHANGED <<now, calls, queue, stamp, timestamps>>
    BY DEF Enter, Work
  <1>3. \/ \E code \in {200, 400, 401, 413, 500} : Respond(c, code)
        \/ where' = [where EXCEPT ![c] = "working"] /\ status' = status
    <2>1. CASE Enter(c)
      BY <2>1 DEF Enter
    <2>2. CASE Work(c)
      BY <2>2, HandlersDoNotRefuse DEF Work
    <2>3. QED
      BY <2>1, <2>2
  <1>4. PICK place \in {"working", "answered"} :
          /\ where' = [where EXCEPT ![c] = place]
          /\ place = "working" => status' = status
          /\ place = "answered" => \E code \in {200, 400, 401, 413, 500} :
                                     status' = [status EXCEPT ![c] = code]
    BY <1>3 DEF Respond
  <1>5. /\ status' \in [Calls -> Nat] /\ \A d \in Calls : d # c => status'[d] = status[d]
        /\ place = "answered" => status'[c] # 429
        /\ status[c] # 429 /\ (place = "working" => status'[c] # 429)
    <2>1. status \in [Calls -> Nat] /\ status[c] # 429
      BY <1>1, <1>2 DEF ApiTypeOK, ApiInv, RefusedRightly
    <2>2. CASE place = "working"
      BY <1>4, <2>1, <2>2
    <2>3. CASE place = "answered"
      <3>1. PICK code \in {200, 400, 401, 413, 500} : status' = [status EXCEPT ![c] = code]
        BY <1>4, <2>3
      <3>2. code \in Nat /\ code # 429
        OBVIOUS
      <3>3. status' \in [Calls -> Nat] /\ status'[c] = code
            /\ \A d \in Calls : d # c => status'[d] = status[d]
        BY <2>1, <3>1, <3>2
      <3>4. QED
        BY <2>1, <2>3, <3>2, <3>3
    <2>4. QED
      BY <2>2, <2>3
  <1>6. ApiTypeOK'
    <2>1. where' \in [Calls -> Places]
      BY <1>1, <1>4 DEF ApiTypeOK, Places
    <2>2. QED
      BY <1>1, <1>2, <1>5, <2>1 DEF ApiTypeOK
  <1>7. Arrived'
    BY <1>1, <1>2, <1>4 DEF Arrived, ApiTypeOK
  <1>8. Queued'
    <2>1. where[c] # "waiting" /\ queue' = queue /\ where' = [where EXCEPT ![c] = place]
      BY <1>2, <1>4
    <2>2. QED
      BY ONLY <2>1, ApiInv, c \in Calls, SlotKeepsQueues
  <1>9. \A i \in Clients : LetThrough(i)' = LetThrough(i)
    BY <1>1, <1>2, <1>4, <1>5 DEF LetThrough, ApiTypeOK
  <1>10. \A d \in Calls : status'[d] = 429 =>
           status[d] = 429 /\ where'[d] = where[d] /\ stamp'[d] = stamp[d] /\ calls'[d] = calls[d]
    BY <1>1, <1>2, <1>4, <1>5 DEF ApiTypeOK
  <1>11. now' >= now
    BY <1>1, <1>2 DEF ApiTypeOK
  <1>12. Remembered' /\ RefusedRightly'
    BY <1>2, <1>6, <1>9, <1>10, <1>11, LimitsHold
  <1>13. QED
    BY <1>6, <1>7, <1>8, <1>12 DEF ApiInv

LEMMA TimePassesKeeps ==
  ASSUME ApiInv, TimePasses \/ UNCHANGED apiVars
  PROVE  ApiInv'
  <1>1. ApiTypeOK /\ Arrived /\ Queued
    BY DEF ApiInv
  <1>2. /\ UNCHANGED <<calls, where, queue, status, stamp, timestamps>>
        /\ now' = now \/ now' = now + 1
    BY DEF TimePasses, apiVars
  <1>3. now \in Nat /\ now' \in Nat /\ now' >= now
    BY <1>1, <1>2 DEF ApiTypeOK
  <1>4. ApiTypeOK' /\ Arrived' /\ Queued'
    BY <1>1, <1>2, <1>3 DEF ApiTypeOK, Arrived, Queued
  <1>5. \A i \in Clients : LetThrough(i)' = LetThrough(i)
    BY <1>2 DEF LetThrough
  <1>6. Remembered' /\ RefusedRightly'
    BY <1>2, <1>3, <1>4, <1>5, LimitsHold DEF ApiInv, RefusedRightly
  <1>7. QED
    BY <1>4, <1>6 DEF ApiInv

\* What the limiter still counts, after the lock is taken.
LEMMA RecentIsRemembered ==
  ASSUME ApiInv, NEW c \in Calls, calls[c].client \in Clients
  PROVE  LET i == calls[c].client
             recent == Recent(timestamps[i], stamp[c])
         IN /\ recent \subseteq LetThrough(i) /\ recent \subseteq timestamps[i] /\ recent \subseteq Calls
            /\ \A d \in recent : stamp[c] - stamp[d] < Window
            /\ \A d \in LetThrough(i) : d \in recent \/ now - stamp[d] >= Window
  <1> DEFINE i == calls[c].client
             recent == Recent(timestamps[i], stamp[c])
  <1>1. /\ timestamps[i] \subseteq LetThrough(i) /\ timestamps[i] \subseteq Calls
        /\ \A d \in LetThrough(i) : d \in timestamps[i] \/ now - stamp[d] >= Window
    BY DEF ApiInv, Remembered, ApiTypeOK
  <1>2. \A d \in timestamps[i] : d \in recent \/ stamp[c] - stamp[d] >= Window
    <2> SUFFICES ASSUME NEW d \in timestamps[i], d \notin recent
                 PROVE  stamp[c] - stamp[d] >= Window
      OBVIOUS
    <2>1. stamp[c] \in Nat /\ stamp[d] \in Nat /\ Window \in Nat
      BY <1>1, ApiAssumption DEF ApiInv, ApiTypeOK
    <2>2. ~(stamp[c] - stamp[d] < Window)
      BY DEF Recent
    <2>3. QED
      BY <2>1, <2>2
  <1>3. \A d \in timestamps[i] : stamp[c] - stamp[d] >= Window => now - stamp[d] >= Window
    <2> SUFFICES ASSUME NEW d \in timestamps[i], stamp[c] - stamp[d] >= Window
                 PROVE  now - stamp[d] >= Window
      OBVIOUS
    <2>1. /\ stamp[c] \in Nat /\ stamp[d] \in Nat /\ Window \in Nat /\ now \in Nat
          /\ stamp[c] <= now
      BY <1>1, ApiAssumption DEF ApiInv, ApiTypeOK, Arrived
    <2>2. QED
      BY <2>1
  <1>4. recent \subseteq timestamps[i] /\ \A d \in recent : stamp[c] - stamp[d] < Window
    BY DEF Recent
  <1>5. QED
    BY <1>1, <1>2, <1>3, <1>4

LEMMA CheckKeeps ==
  ASSUME ApiInv, NEW c \in Calls, Check(c)
  PROVE  ApiInv'
  <1> DEFINE i == calls[c].client
             recent == Recent(timestamps[i], stamp[c])
  <1>1. ApiTypeOK /\ Arrived /\ Remembered /\ RefusedRightly
    BY DEF ApiInv
  <1>2. /\ where[c] = "lock" /\ UNCHANGED <<now, calls, queue, stamp>>
        /\ IF Cardinality(recent) >= max_rpm
           THEN /\ timestamps' = [timestamps EXCEPT ![i] = recent]
                /\ Respond(c, 429)
           ELSE /\ timestamps' = [timestamps EXCEPT ![i] = recent \union {c}]
                /\ where' = [where EXCEPT ![c] = "handler"]
                /\ UNCHANGED status
    BY DEF Check
  <1>3. i \in Clients
    BY <1>1, <1>2 DEF Arrived, Clients
  <1>4. /\ recent \subseteq LetThrough(i) /\ recent \subseteq timestamps[i] /\ recent \subseteq Calls
        /\ \A d \in recent : stamp[c] - stamp[d] < Window
        /\ \A d \in LetThrough(i) : d \in recent \/ now - stamp[d] >= Window
    BY <1>3, RecentIsRemembered
  <1>5. /\ Cardinality(recent) \in Nat /\ Cardinality(recent) <= max_rpm
        /\ max_rpm \in Nat /\ IsFiniteSet(recent)
    <2>1. timestamps[i] \in SUBSET Calls /\ Cardinality(timestamps[i]) <= max_rpm
      BY <1>1, <1>3 DEF ApiTypeOK, Remembered
    <2>2. /\ Cardinality(recent) \in Nat /\ Cardinality(timestamps[i]) \in Nat /\ IsFiniteSet(recent)
          /\ Cardinality(recent) <= Cardinality(timestamps[i])
      BY <1>4, <2>1, CallsAreFinite
    <2>3. QED
      BY <2>1, <2>2, ApiAssumption
  <1> HIDE DEF recent
  <1>6. c \notin LetThrough(i) /\ c \notin recent /\ status[c] # 429
    BY <1>1, <1>2, <1>4 DEF LetThrough, RefusedRightly
  <1>7. CASE Cardinality(recent) >= max_rpm
    <2>1. /\ timestamps' = [timestamps EXCEPT ![i] = recent]
          /\ where' = [where EXCEPT ![c] = "answered"] /\ status' = [status EXCEPT ![c] = 429]
      BY <1>2, <1>7 DEF Respond
    <2>2. ApiTypeOK'
      <3>1. status' \in [Calls -> Nat]
        BY <1>1, <2>1 DEF ApiTypeOK
      <3>2. timestamps' \in [Clients -> SUBSET Calls]
        BY <1>1, <1>4, <2>1 DEF ApiTypeOK
      <3>3. where' \in [Calls -> Places]
        BY <1>1, <2>1 DEF ApiTypeOK, Places
      <3>4. QED
        BY <1>1, <1>2, <3>1, <3>2, <3>3 DEF ApiTypeOK
    <2>3. Arrived'
      BY <1>1, <1>2, <2>1 DEF Arrived, ApiTypeOK
    <2>4. Queued'
      BY <1>2, <2>1, SlotKeepsQueues
    <2>5. \A j \in Clients : LetThrough(j)' = LetThrough(j)
      BY <1>1, <1>2, <2>1 DEF LetThrough, ApiTypeOK
    <2>6. Remembered'
      <3>1. \A j \in Clients : j # i => timestamps'[j] = timestamps[j]
        BY <1>1, <2>1 DEF ApiTypeOK
      <3>2. timestamps'[i] = recent
        BY <1>1, <1>3, <2>1 DEF ApiTypeOK
      <3>3. QED
        BY <1>1, <1>2, <1>4, <1>5, <2>5, <3>1, <3>2 DEF Remembered
    <2>7. RefusedRightly'
      <3> SUFFICES ASSUME NEW d \in Calls, status'[d] = 429
                   PROVE  where'[d] = "answered" /\ Cardinality(Near(d)') >= max_rpm
        BY DEF RefusedRightly
      <3>1. CASE d = c
        <4>1. recent \subseteq Near(c)' /\ Near(c)' \subseteq Calls
          BY <1>2, <1>3, <1>4, <2>5 DEF Near, LetThrough
        <4>2. Cardinality(recent) <= Cardinality(Near(c)') /\ Cardinality(Near(c)') \in Nat
          BY <1>4, <4>1, CallsAreFinite
        <4>3. Cardinality(Near(c)') >= max_rpm
          BY <1>5, <1>7, <4>2
        <4>4. where'[c] = "answered"
          BY <1>1, <2>1 DEF ApiTypeOK
        <4>5. QED
          BY <3>1, <4>3, <4>4
      <3>2. CASE d # c
        <4>1. status[d] = 429 /\ where'[d] = where[d]
          BY <1>1, <2>1, <3>2 DEF ApiTypeOK
        <4>2. where[d] = "answered" /\ Cardinality(Near(d)) >= max_rpm
          BY <1>1, <4>1 DEF RefusedRightly
        <4>3. calls[d].client \in Clients
          BY <1>1, <4>2 DEF Arrived, Clients
        <4>4. Near(d)' = Near(d)
          BY <1>2, <2>5, <4>3 DEF Near
        <4>5. QED
          BY <4>1, <4>2, <4>4
      <3>3. QED
        BY <3>1, <3>2
    <2>8. QED
      BY <2>2, <2>3, <2>4, <2>6, <2>7 DEF ApiInv
  <1>8. CASE ~(Cardinality(recent) >= max_rpm)
    <2>1. /\ timestamps' = [timestamps EXCEPT ![i] = recent \union {c}]
          /\ where' = [where EXCEPT ![c] = "handler"] /\ status' = status
      BY <1>2, <1>8
    <2>2. ApiTypeOK'
      BY <1>1, <1>2, <1>4, <2>1 DEF ApiTypeOK, Places
    <2>3. Arrived'
      BY <1>1, <1>2, <2>1 DEF Arrived, ApiTypeOK
    <2>4. Queued'
      BY <1>2, <2>1, SlotKeepsQueues
    <2>5. /\ LetThrough(i)' = LetThrough(i) \union {c}
          /\ \A j \in Clients : j # i => LetThrough(j)' = LetThrough(j)
      BY <1>1, <1>2, <1>3, <2>1 DEF LetThrough, ApiTypeOK
    <2>6. Remembered'
      <3>1. \A j \in Clients : j # i => timestamps'[j] = timestamps[j]
        BY <1>1, <2>1 DEF ApiTypeOK
      <3>2. timestamps'[i] = recent \union {c}
        BY <1>1, <1>3, <2>1 DEF ApiTypeOK
      <3>3. Cardinality(recent \union {c}) <= max_rpm
        <4>1. Cardinality(recent \union {c}) = Cardinality(recent) + 1
          BY <1>5, <1>6, FS_AddElement
        <4>2. QED
          BY <1>5, <1>8, <4>1
      <3>4. QED
        BY <1>1, <1>2, <1>4, <2>5, <3>1, <3>2, <3>3 DEF Remembered
    <2>7. RefusedRightly'
      <3> SUFFICES ASSUME NEW d \in Calls, status'[d] = 429
                   PROVE  where'[d] = "answered" /\ Cardinality(Near(d)') >= max_rpm
        BY DEF RefusedRightly
      <3>1. d # c /\ status[d] = 429 /\ where'[d] = where[d]
        BY <1>1, <1>6, <2>1 DEF ApiTypeOK
      <3>2. where[d] = "answered" /\ Cardinality(Near(d)) >= max_rpm
        BY <1>1, <3>1 DEF RefusedRightly
      <3>3. calls[d].client \in Clients
        BY <1>1, <3>2 DEF Arrived, Clients
      <3>4. Near(d) \subseteq Near(d)' /\ Near(d)' \subseteq Calls
        BY <1>2, <2>5, <3>3 DEF Near, LetThrough
      <3>5. /\ Cardinality(Near(d)) <= Cardinality(Near(d)')
            /\ Cardinality(Near(d)) \in Nat /\ Cardinality(Near(d)') \in Nat
        BY <3>4, CallsAreFinite
      <3>6. QED
        BY <1>5, <3>1, <3>2, <3>5
    <2>8. QED
      BY <2>2, <2>3, <2>4, <2>6, <2>7 DEF ApiInv
  <1>9. QED
    BY <1>7, <1>8

LEMMA ApiStays ==
  ASSUME ApiInv, [Next]_serviceVars
  PROVE  ApiInv'
  <1>1. ApiNext \/ UNCHANGED apiVars
    BY DEF Next, Choose, InBench, InMcp, InApi, InLearned, InCrate, serviceVars
  <1>2. CASE ApiNext
    BY <1>2, ArriveKeeps, TakeSlotKeeps, ReadClockKeeps, CheckKeeps, HandlerKeeps, TimePassesKeeps
       DEF ApiNext, Serve
  <1>3. QED
    BY <1>1, <1>2, TimePassesKeeps

-----------------------------------------------------------------------------
\* The calls of the window of the MCP server are counted, those of the window
\* before are at most the limit, and those let through since the window opened are
\* all of this one.  When the window is over a tick has begun without a call.
McpInv ==
  /\ {clock, window, count} \subseteq Nat
  /\ admitted \in [1 .. Minute + 1 -> Nat]
  /\ \A t \in 1 .. Minute + 1 :
       /\ admitted[t] <= 2 * MCP_MAX_CALLS_PER_MINUTE
       /\ admitted[t] <= MCP_MAX_CALLS_PER_MINUTE + count
       /\ t <= clock - window + 1 => admitted[t] <= count /\ admitted[t] <= MCP_MAX_CALLS_PER_MINUTE
  /\ clock - window >= Minute => admitted[1] = 0

LEMMA McpStarts == Init => McpInv
  BY McpAssumption DEF Init, McpInit, McpInv

LEMMA CallToolKeeps ==
  ASSUME McpInv, CallTool
  PROVE  McpInv'
  <1> DEFINE max == MCP_MAX_CALLS_PER_MINUTE
  <1>1. /\ max \in Nat /\ max >= 1 /\ Minute \in Nat /\ clock \in Nat /\ window \in Nat /\ count \in Nat
        /\ admitted \in [1 .. Minute + 1 -> Nat]
    BY McpAssumption DEF McpInv
  <1>2. CASE clock - window >= Minute
    <2>1. /\ clock' = clock /\ window' = clock /\ count' = Counted(1)
          /\ admitted' = [t \in 1 .. Minute + 1 |-> admitted[t] + 1]
      BY <1>2 DEF CallTool, McpCheck
    <2>2. count' = 1
      BY <1>1, <2>1 DEF Counted
    <2>3. \A t \in 1 .. Minute + 1 : admitted[t] \in Nat /\ admitted[t] <= max
      BY <1>1, <1>2 DEF McpInv
    <2>4. \A t \in 1 .. Minute + 1 :
            /\ admitted'[t] <= 2 * max /\ admitted'[t] <= max + count'
            /\ t <= clock' - window' + 1 => t = 1
      BY <1>1, <2>1, <2>2, <2>3
    <2>5. admitted'[1] = 1 /\ ~(clock' - window' >= Minute)
      <3>1. Minute >= 1 /\ 1 \in 1 .. Minute + 1
        BY <1>1, McpAssumption
      <3>2. admitted[1] = 0
        BY <1>2 DEF McpInv
      <3>3. QED
        BY <1>1, <2>1, <3>1, <3>2
    <2>6. QED
      BY <1>1, <2>1, <2>2, <2>4, <2>5 DEF McpInv
  <1>3. CASE ~(clock - window >= Minute) /\ count + 1 <= max
    <2>1. /\ clock' = clock /\ window' = window /\ count' = Counted(count + 1)
          /\ admitted' = [t \in 1 .. Minute + 1 |-> admitted[t] + 1]
      BY <1>3 DEF CallTool, McpCheck
    <2>2. count' = count + 1
      BY <1>1, <1>3, <2>1 DEF Counted
    <2>3. ASSUME NEW t \in 1 .. Minute + 1
          PROVE  /\ admitted'[t] <= 2 * max /\ admitted'[t] <= max + count'
                 /\ t <= clock' - window' + 1 => admitted'[t] <= count' /\ admitted'[t] <= max
      <3>1. /\ admitted[t] \in Nat /\ admitted'[t] = admitted[t] + 1
            /\ admitted[t] <= max + count /\ (t <= clock - window + 1 => admitted[t] <= count)
        BY <1>1, <2>1 DEF McpInv
      <3>2. QED
        BY <1>1, <1>3, <2>1, <2>2, <3>1
    <2>4. ~(clock' - window' >= Minute) /\ admitted' \in [1 .. Minute + 1 -> Nat]
      BY <1>1, <1>3, <2>1
    <2>5. /\ clock' \in Nat /\ window' \in Nat /\ count' \in Nat
      BY <1>1, <2>1, <2>2
    <2>6. QED
      BY <2>3, <2>4, <2>5 DEF McpInv
  <1>4. CASE ~(clock - window >= Minute) /\ ~(count + 1 <= max)
    <2>1. /\ clock' = clock /\ window' = window /\ count' = Counted(count + 1)
          /\ admitted' = admitted
      BY <1>4 DEF CallTool, McpCheck
    <2>2. count' = max + 1
      BY <1>1, <1>4, <2>1 DEF Counted
    <2>3. ASSUME NEW t \in 1 .. Minute + 1
          PROVE  /\ admitted[t] <= 2 * max /\ admitted[t] <= max + count'
                 /\ t <= clock - window + 1 => admitted[t] <= count' /\ admitted[t] <= max
      BY <1>1, <2>2 DEF McpInv
    <2>4. QED
      BY <1>1, <2>1, <2>2, <2>3 DEF McpInv
  <1>5. QED
    BY <1>2, <1>3, <1>4

LEMMA TickKeeps ==
  ASSUME McpInv, Tick
  PROVE  McpInv'
  <1>1. /\ MCP_MAX_CALLS_PER_MINUTE \in Nat /\ Minute \in Nat /\ MaxClock \in Nat
        /\ clock \in Nat /\ window \in Nat /\ count \in Nat /\ admitted \in [1 .. Minute + 1 -> Nat]
    BY McpAssumption DEF McpInv
  <1>2. window' = window /\ count' = count
    BY DEF Tick
  <1>3. CASE clock < MaxClock
    <2>1. /\ clock' = clock + 1
          /\ admitted' = [t \in 1 .. Minute + 1 |-> IF t = 1 THEN 0 ELSE admitted[t - 1]]
      BY <1>3 DEF Tick
    <2>2. ASSUME NEW t \in 1 .. Minute + 1
          PROVE  /\ admitted'[t] \in Nat
                 /\ admitted'[t] <= 2 * MCP_MAX_CALLS_PER_MINUTE
                 /\ admitted'[t] <= MCP_MAX_CALLS_PER_MINUTE + count
                 /\ t <= clock' - window =>
                      admitted'[t] <= count /\ admitted'[t] <= MCP_MAX_CALLS_PER_MINUTE
      <3>1. CASE t = 1
        BY <1>1, <2>1, <3>1
      <3>2. CASE t # 1
        <4>1. t - 1 \in 1 .. Minute + 1 /\ admitted'[t] = admitted[t - 1]
              /\ (t <= clock' - window => t - 1 <= clock - window)
          BY <1>1, <2>1, <3>2
        <4>2. QED
          BY <1>1, <4>1 DEF McpInv
      <3>3. QED
        BY <3>1, <3>2
    <2>3. admitted' \in [1 .. Minute + 1 -> Nat]
      BY <2>1, <2>2
    <2>4. admitted'[1] = 0
      BY <1>1, <2>1
    <2>5. QED
      BY <1>1, <1>2, <2>1, <2>2, <2>3, <2>4 DEF McpInv
  <1>4. CASE ~(clock < MaxClock)
    BY <1>1, <1>2, <1>4 DEF Tick, McpInv
  <1>5. QED
    BY <1>3, <1>4

LEMMA SetBackKeeps ==
  ASSUME McpInv, SetBack
  PROVE  McpInv'
  <1>1. /\ MCP_MAX_CALLS_PER_MINUTE \in Nat /\ Minute \in Nat /\ clock \in Nat /\ window \in Nat
    BY McpAssumption DEF McpInv
  <1>2. UNCHANGED <<window, count, admitted>> /\ clock' \in Nat /\ clock' <= clock
    BY <1>1 DEF SetBack
  <1>3. \A t \in 1 .. Minute + 1 : t <= clock' - window + 1 => t <= clock - window + 1
    <2>1. \A a, b, w, t \in Nat : a <= b => (t <= a - w + 1 => t <= b - w + 1)
      OBVIOUS
    <2>2. \A t \in 1 .. Minute + 1 : t \in Nat
      OBVIOUS
    <2>3. QED
      BY <1>1, <1>2, <2>1, <2>2, Zenon
  <1>4. clock' - window' >= Minute => clock - window >= Minute
    <2>1. window' = window
      BY <1>2
    <2>2. \A a, b, w, m \in Nat : a <= b => (a - w >= m => b - w >= m)
      OBVIOUS
    <2>3. clock' - window >= Minute => clock - window >= Minute
      BY <1>1, <1>2, <2>2, Zenon
    <2>4. QED
      BY <2>1, <2>3
  <1>5. clock' - window' >= Minute => admitted'[1] = 0
    <2>1. clock - window >= Minute => admitted[1] = 0
      BY DEF McpInv
    <2>2. admitted' = admitted
      BY <1>2
    <2>3. QED
      BY <1>4, <2>1, <2>2
  <1>6. /\ {clock', window', count'} \subseteq Nat
        /\ admitted' \in [1 .. Minute + 1 -> Nat]
    BY <1>2 DEF McpInv
  <1>7. \A t \in 1 .. Minute + 1 :
          /\ admitted'[t] <= 2 * MCP_MAX_CALLS_PER_MINUTE
          /\ admitted'[t] <= MCP_MAX_CALLS_PER_MINUTE + count'
          /\ t <= clock' - window' + 1 =>
               admitted'[t] <= count' /\ admitted'[t] <= MCP_MAX_CALLS_PER_MINUTE
    BY <1>2, <1>3 DEF McpInv
  <1>8. QED
    BY <1>5, <1>6, <1>7 DEF McpInv

LEMMA McpStays ==
  ASSUME McpInv, [Next]_serviceVars
  PROVE  McpInv'
  <1>1. McpNext \/ UNCHANGED mcpVars
    BY DEF Next, Choose, InBench, InMcp, InApi, InLearned, InCrate, serviceVars
  <1>2. \/ CallTool \/ Tick \/ SetBack
        \/ UNCHANGED <<clock, window, count, admitted>>
    BY <1>1 DEF McpNext, McpServes, ReadLine, EndOfInput, Dispatch, ToolEnds, AskModel, McpTimeout,
                WriteReply, ModelEnds, mcpVars
  <1>3. CASE UNCHANGED <<clock, window, count, admitted>>
    BY <1>3 DEF McpInv
  <1>4. QED
    BY <1>2, <1>3, CallToolKeeps, TickKeeps, SetBackKeeps

\* The window of the API holds for every limit, window and number of requests, in
\* whatever order requests read the clock and get the lock of the limiter.  The MCP
\* server, whose windows are fixed, lets no more than twice its limit through in any
\* minute, however often the system clock is set back.
THEOREM LimitsOfServers == Spec => []AdmissionsLimited
  <1>1. ApiInv /\ McpInv => AdmissionsLimited
    <2> SUFFICES ASSUME ApiInv, McpInv PROVE AdmissionsLimited
      OBVIOUS
    <2>1. ASSUME NEW i \in Clients
          PROVE  Cardinality({c \in LetThrough(i) : now - stamp[c] < Window}) <= max_rpm
      <3> DEFINE near == {c \in LetThrough(i) : now - stamp[c] < Window}
      <3>1. /\ now \in Nat /\ Window \in Nat /\ max_rpm \in Nat /\ timestamps[i] \in SUBSET Calls
            /\ \A c \in LetThrough(i) : stamp[c] \in Nat
        BY ApiAssumption DEF ApiInv, ApiTypeOK, LetThrough
      <3>2. near \subseteq timestamps[i]
        BY <3>1 DEF ApiInv, Remembered
      <3>3. Cardinality(timestamps[i]) <= max_rpm
        BY DEF ApiInv, Remembered
      <3>4. /\ Cardinality(near) <= Cardinality(timestamps[i])
            /\ Cardinality(near) \in Nat /\ Cardinality(timestamps[i]) \in Nat
        BY <3>1, <3>2, CallsAreFinite
      <3> HIDE DEF near
      <3>5. Cardinality(near) <= max_rpm
        BY <3>1, <3>3, <3>4
      <3>6. QED
        BY <3>5 DEF near
    <2>2. \A c \in Calls : status[c] = 429 => Cardinality(Near(c)) >= max_rpm
      BY DEF ApiInv, RefusedRightly
    <2>3. admitted[Minute + 1] <= 2 * MCP_MAX_CALLS_PER_MINUTE
      BY McpAssumption DEF McpInv
    <2>4. QED
      BY <2>1, <2>2, <2>3 DEF AdmissionsLimited, Near
  <1>2. QED
    BY <1>1, ApiStarts, ApiStays, McpStarts, McpStays, PTL DEF Spec

-----------------------------------------------------------------------------
(***************************************************************************)
(* The translation memory.                                                 *)
(***************************************************************************)
\* Sorting is a permutation: every index has a rank of its own.
LEMMA RankOfEarlier ==
  ASSUME NEW n \in Nat, NEW value \in [1 .. n -> Nat], NEW i \in 1 .. n, NEW j \in 1 .. n,
         i \in Ahead(value, j)
  PROVE  Rank(value, i) < Rank(value, j)
  <1>1. IsFiniteSet(1 .. n)
    BY FS_Interval
  <1>2. Ahead(value, i) \subseteq 1 .. n /\ Ahead(value, j) \subseteq 1 .. n
    BY DEF Ahead
  <1>3. /\ IsFiniteSet(Ahead(value, i)) /\ Cardinality(Ahead(value, i)) \in Nat
        /\ IsFiniteSet(Ahead(value, j)) /\ Cardinality(Ahead(value, j)) \in Nat
    BY <1>1, <1>2, FS_Subset, FS_CardinalityType
  <1>4. i \notin Ahead(value, i)
    BY DEF Ahead
  <1>5. Ahead(value, i) \union {i} \subseteq Ahead(value, j)
    BY DEF Ahead
  <1>6. Cardinality(Ahead(value, i) \union {i}) = Cardinality(Ahead(value, i)) + 1
    BY <1>3, <1>4, FS_AddElement
  <1>7. Cardinality(Ahead(value, i) \union {i}) <= Cardinality(Ahead(value, j))
    BY <1>3, <1>5, FS_Subset
  <1>8. QED
    BY <1>3, <1>6, <1>7 DEF Rank

LEMMA RankIsBijection ==
  ASSUME NEW n \in Nat, NEW value \in [1 .. n -> Nat]
  PROVE  /\ \A i \in 1 .. n : Rank(value, i) \in 0 .. n - 1
         /\ \A i, j \in 1 .. n : Rank(value, i) = Rank(value, j) => i = j
         /\ \A k \in 1 .. n : \E i \in 1 .. n : Rank(value, i) = k - 1
  <1>1. IsFiniteSet(1 .. n) /\ Cardinality(1 .. n) = n
    BY FS_Interval
  <1>2. ASSUME NEW i \in 1 .. n PROVE Rank(value, i) \in 0 .. n - 1
    <2>1. Ahead(value, i) \subseteq (1 .. n) \ {i}
      BY DEF Ahead
    <2>2. IsFiniteSet((1 .. n) \ {i}) /\ Cardinality((1 .. n) \ {i}) = n - 1
      BY <1>1, FS_RemoveElement
    <2>3. IsFiniteSet(Ahead(value, i)) /\ Cardinality(Ahead(value, i)) <= n - 1
      BY <2>1, <2>2, FS_Subset
    <2>4. Cardinality(Ahead(value, i)) \in Nat
      BY <2>3, FS_CardinalityType
    <2>5. QED
      BY <2>3, <2>4 DEF Rank
  <1>3. ASSUME NEW i \in 1 .. n, NEW j \in 1 .. n, Rank(value, i) = Rank(value, j), i # j
        PROVE  FALSE
    <2>1. i \in Ahead(value, j) \/ j \in Ahead(value, i)
      BY <1>3 DEF Ahead
    <2>2. Rank(value, i) < Rank(value, j) \/ Rank(value, j) < Rank(value, i)
      BY <2>1, RankOfEarlier
    <2>3. Rank(value, i) \in Nat /\ Rank(value, j) \in Nat
      BY <1>2
    <2>4. QED
      BY <1>3, <2>2, <2>3
  <1> DEFINE R == [i \in 1 .. n |-> Rank(value, i)]
  <1>4. R \in [1 .. n -> 0 .. n - 1] /\ \A i \in 1 .. n : R[i] = Rank(value, i)
    BY <1>2
  <1> HIDE DEF R
  <1>5. R \in Injection(1 .. n, 0 .. n - 1)
    BY <1>3, <1>4 DEF Injection, IsInjective
  <1>6. IsFiniteSet(0 .. n - 1) /\ Cardinality(0 .. n - 1) = n
    <2>1. 0 \in Int /\ n - 1 \in Int
      OBVIOUS
    <2>2. /\ IsFiniteSet(0 .. n - 1)
          /\ Cardinality(0 .. n - 1) = IF 0 > n - 1 THEN 0 ELSE (n - 1) - 0 + 1
      BY <2>1, FS_Interval
    <2>3. (IF 0 > n - 1 THEN 0 ELSE (n - 1) - 0 + 1) = n
      OBVIOUS
    <2>4. QED
      BY <2>2, <2>3
  <1>7. R \in Surjection(1 .. n, 0 .. n - 1)
    BY <1>1, <1>5, <1>6, FS_Injection
  <1>8. \A k \in 0 .. n - 1 : \E i \in 1 .. n : R[i] = k
    BY <1>7 DEF Surjection
  <1>9. \A k \in 1 .. n : k - 1 \in 0 .. n - 1
    OBVIOUS
  <1>10. QED
    BY <1>2, <1>3, <1>4, <1>8, <1>9

LEMMA SortedIsPermutation ==
  ASSUME NEW n \in Nat, NEW value \in [1 .. n -> Nat]
  PROVE  /\ \A k \in 1 .. n : Sorted(value, k) \in 1 .. n /\ Rank(value, Sorted(value, k)) = k - 1
         /\ \A k, l \in 1 .. n : Sorted(value, k) = Sorted(value, l) => k = l
         /\ \A i \in 1 .. n : \E k \in 1 .. n : Sorted(value, k) = i
         /\ \A k, l \in 1 .. n : k < l => value[Sorted(value, k)] >= value[Sorted(value, l)]
  <1>1. \A k \in 1 .. n : Sorted(value, k) \in 1 .. n /\ Rank(value, Sorted(value, k)) = k - 1
    <2> SUFFICES ASSUME NEW k \in 1 .. n
                 PROVE  Sorted(value, k) \in 1 .. n /\ Rank(value, Sorted(value, k)) = k - 1
      OBVIOUS
    <2>1. DOMAIN value = 1 .. n
      OBVIOUS
    <2>2. \E i \in DOMAIN value : Rank(value, i) = k - 1
      BY <2>1, RankIsBijection
    <2>3. QED
      BY <2>1, <2>2 DEF Sorted
  <1>2. \A k, l \in 1 .. n : Sorted(value, k) = Sorted(value, l) => k = l
    <2> SUFFICES ASSUME NEW k \in 1 .. n, NEW l \in 1 .. n, Sorted(value, k) = Sorted(value, l)
                 PROVE  k = l
      OBVIOUS
    <2>1. k - 1 = l - 1
      BY <1>1
    <2>2. QED
      BY <2>1
  <1>3. \A i \in 1 .. n : \E k \in 1 .. n : Sorted(value, k) = i
    <2> SUFFICES ASSUME NEW i \in 1 .. n PROVE \E k \in 1 .. n : Sorted(value, k) = i
      OBVIOUS
    <2>1. Rank(value, i) \in 0 .. n - 1
      BY RankIsBijection
    <2>2. PICK k \in 1 .. n : Rank(value, i) = k - 1
      <3>1. Rank(value, i) + 1 \in 1 .. n /\ Rank(value, i) = (Rank(value, i) + 1) - 1
        BY <2>1
      <3>2. QED
        BY ONLY <3>1
    <2>3. Rank(value, Sorted(value, k)) = Rank(value, i) /\ Sorted(value, k) \in 1 .. n
      BY <1>1, <2>2
    <2>4. Sorted(value, k) = i
      BY <2>3, RankIsBijection
    <2>5. QED
      BY <2>4
  <1>4. \A k, l \in 1 .. n : k < l => value[Sorted(value, k)] >= value[Sorted(value, l)]
    <2> SUFFICES ASSUME NEW k \in 1 .. n, NEW l \in 1 .. n, k < l,
                        ~(value[Sorted(value, k)] >= value[Sorted(value, l)])
                 PROVE  FALSE
      OBVIOUS
    <2> DEFINE i == Sorted(value, k)
               j == Sorted(value, l)
    <2>1. i \in 1 .. n /\ j \in 1 .. n /\ Rank(value, i) = k - 1 /\ Rank(value, j) = l - 1
      BY <1>1
    <2>2. j \in Ahead(value, i)
      BY <2>1 DEF Ahead
    <2> HIDE DEF i, j
    <2>3. l - 1 < k - 1
      BY <2>1, <2>2, RankOfEarlier
    <2>4. QED
      BY <2>3
  <1>5. QED
    BY <1>1, <1>2, <1>3, <1>4

Entries == [sig : Signatures, score : Scores]

\* A memory, and the best that was added to it of each signature: what it has of a
\* signature is the best, and what it has not is no better than all it has.
Best(list, best, h) ==
  \/ \E k \in DOMAIN list : list[k].sig.hash = h
  \/ Len(list) = MAX_ENTRIES /\ \A k \in DOMAIN list : list[k].score >= best[h]

MemoryOK(list, best) ==
  /\ list \in Seq(Entries) /\ Len(list) <= MAX_ENTRIES
  /\ \A j, k \in DOMAIN list : list[j].sig.hash = list[k].sig.hash => j = k
  /\ \A k \in DOMAIN list : list[k].sig.hash \in DOMAIN best
                            /\ list[k].score = best[list[k].sig.hash]
  /\ \A h \in DOMAIN best : best[h] \in Nat /\ Best(list, best, h)

\* What AddEntry makes of taught.
Taught(best, hash, points) ==
  [h \in DOMAIN best \union {hash} |->
     IF h \notin DOMAIN best THEN points
     ELSE IF h = hash /\ points > best[h] THEN points ELSE best[h]]

LEMMA TaughtIsBest ==
  ASSUME NEW best, NEW hash, NEW points \in Nat, \A h \in DOMAIN best : best[h] \in Nat
  PROVE  /\ DOMAIN Taught(best, hash, points) = DOMAIN best \union {hash}
         /\ \A h \in DOMAIN best : h # hash => Taught(best, hash, points)[h] = best[h]
         /\ hash \notin DOMAIN best => Taught(best, hash, points)[hash] = points
         /\ hash \in DOMAIN best =>
              Taught(best, hash, points)[hash] = IF points > best[hash] THEN points ELSE best[hash]
         /\ \A h \in DOMAIN Taught(best, hash, points) : Taught(best, hash, points)[h] \in Nat
  BY DEF Taught

LEMMA MemoryTypes ==
  ASSUME NEW list, NEW best, MemoryOK(list, best)
  PROVE  /\ list \in Seq(Entries) /\ Len(list) \in Nat /\ Len(list) <= MAX_ENTRIES
         /\ DOMAIN list = 1 .. Len(list) /\ MAX_ENTRIES \in Nat \ {0}
         /\ \A k \in DOMAIN list : list[k] \in Entries /\ list[k].score \in Nat
         /\ \A h \in DOMAIN best : best[h] \in Nat
  <1>1. list \in Seq(Entries) /\ Len(list) <= MAX_ENTRIES /\ \A h \in DOMAIN best : best[h] \in Nat
    BY DEF MemoryOK
  <1>2. Len(list) \in Nat /\ DOMAIN list = 1 .. Len(list)
        /\ \A k \in DOMAIN list : list[k] \in Entries
    BY <1>1
  <1>3. \A entry \in Entries : entry.score \in Nat
    BY LearnedAssumption DEF Entries
  <1>4. MAX_ENTRIES \in Nat \ {0}
    BY LearnedAssumption
  <1>5. QED
    BY <1>1, <1>2, <1>3, <1>4

LEMMA EntryScore ==
  ASSUME NEW e \in Entries
  PROVE  e.score \in Nat
  BY LearnedAssumption DEF Entries

LEMMA TaughtEntry ==
  ASSUME NEW list, NEW best, MemoryOK(list, best), NEW e \in Entries
  PROVE  /\ DOMAIN Taught(best, e.sig.hash, e.score) = DOMAIN best \union {e.sig.hash}
         /\ \A h \in DOMAIN best : h # e.sig.hash => Taught(best, e.sig.hash, e.score)[h] = best[h]
         /\ e.sig.hash \notin DOMAIN best => Taught(best, e.sig.hash, e.score)[e.sig.hash] = e.score
         /\ e.sig.hash \in DOMAIN best =>
              Taught(best, e.sig.hash, e.score)[e.sig.hash]
                = IF e.score > best[e.sig.hash] THEN e.score ELSE best[e.sig.hash]
         /\ \A h \in DOMAIN Taught(best, e.sig.hash, e.score) :
              Taught(best, e.sig.hash, e.score)[h] \in Nat
  <1>1. e.score \in Nat /\ \A h \in DOMAIN best : best[h] \in Nat
    BY MemoryTypes, EntryScore
  <1> DEFINE hash == e.sig.hash
             points == e.score
  <1>2. points \in Nat
    BY <1>1
  <1> HIDE DEF hash, points
  <1>3. /\ DOMAIN Taught(best, hash, points) = DOMAIN best \union {hash}
        /\ \A h \in DOMAIN best : h # hash => Taught(best, hash, points)[h] = best[h]
        /\ hash \notin DOMAIN best => Taught(best, hash, points)[hash] = points
        /\ hash \in DOMAIN best =>
             Taught(best, hash, points)[hash] = IF points > best[hash] THEN points ELSE best[hash]
        /\ \A h \in DOMAIN Taught(best, hash, points) : Taught(best, hash, points)[h] \in Nat
    BY ONLY <1>1, <1>2, TaughtIsBest
  <1>4. QED
    BY <1>3 DEF hash, points

\* The signature is there: the better translation stays.
LEMMA ReplacedEntryOK ==
  ASSUME NEW list, NEW best, MemoryOK(list, best), NEW e \in Entries,
         \E k \in DOMAIN list : list[k].sig.hash = e.sig.hash
  PROVE  MemoryOK(add_entry(list, e), Taught(best, e.sig.hash, e.score))
  <1> DEFINE new == [k \in DOMAIN list |->
                       IF list[k].sig.hash = e.sig.hash /\ e.score > list[k].score
                       THEN e ELSE list[k]]
             taughtNow == Taught(best, e.sig.hash, e.score)
  <1>1. add_entry(list, e) = new
    BY DEF add_entry
  <1>2. /\ list \in Seq(Entries) /\ Len(list) \in Nat /\ Len(list) <= MAX_ENTRIES
        /\ DOMAIN list = 1 .. Len(list) /\ e.score \in Nat
        /\ \A k \in DOMAIN list : list[k] \in Entries /\ list[k].score \in Nat
        /\ \A h \in DOMAIN best : best[h] \in Nat
    BY MemoryTypes, EntryScore
  <1>3. new \in Seq(Entries) /\ Len(new) = Len(list) /\ DOMAIN new = DOMAIN list
    BY <1>2
  <1>4. \A k \in DOMAIN list : new[k].sig.hash = list[k].sig.hash
    OBVIOUS
  <1>5. /\ DOMAIN taughtNow = DOMAIN best
        /\ \A h \in DOMAIN best : h # e.sig.hash => taughtNow[h] = best[h]
        /\ taughtNow[e.sig.hash] = IF e.score > best[e.sig.hash] THEN e.score ELSE best[e.sig.hash]
        /\ \A h \in DOMAIN best : taughtNow[h] \in Nat
    <2>1. e.sig.hash \in DOMAIN best
      BY DEF MemoryOK
    <2>2. DOMAIN best \union {e.sig.hash} = DOMAIN best
      BY <2>1
    <2>3. QED
      BY <2>1, <2>2, TaughtEntry
  <1>6. \A k \in DOMAIN list : new[k].score = taughtNow[list[k].sig.hash]
    <2> SUFFICES ASSUME NEW k \in DOMAIN list
                 PROVE  new[k].score = taughtNow[list[k].sig.hash]
      OBVIOUS
    <2>1. list[k].sig.hash \in DOMAIN best /\ list[k].score = best[list[k].sig.hash]
      BY DEF MemoryOK
    <2> HIDE DEF taughtNow
    <2>2. CASE list[k].sig.hash = e.sig.hash
      BY <1>5, <2>1, <2>2
    <2>3. CASE list[k].sig.hash # e.sig.hash
      BY <1>5, <2>1, <2>3
    <2>4. QED
      BY <2>2, <2>3
  <1>7. \A k \in DOMAIN list : new[k].score >= list[k].score
    BY <1>2
  <1> HIDE DEF new, taughtNow
  <1>8. ASSUME NEW h \in DOMAIN best PROVE Best(new, taughtNow, h)
    <2>1. CASE \E k \in DOMAIN list : list[k].sig.hash = h
      BY <1>3, <1>4, <2>1 DEF Best
    <2>2. CASE ~ \E k \in DOMAIN list : list[k].sig.hash = h
      <3>1. Len(list) = MAX_ENTRIES /\ \A k \in DOMAIN list : list[k].score >= best[h]
        BY <2>2 DEF MemoryOK, Best
      <3>2. h # e.sig.hash /\ taughtNow[h] = best[h] /\ best[h] \in Nat
        BY <1>5, <2>2 DEF MemoryOK
      <3>3. \A k \in DOMAIN list : new[k].score \in Nat
        BY <1>5, <1>6 DEF MemoryOK
      <3>4. \A k \in DOMAIN list : new[k].score >= best[h]
        BY <1>2, <1>7, <3>1, <3>2, <3>3
      <3>5. QED
        BY <1>3, <3>1, <3>2, <3>4 DEF Best
    <2>3. QED
      BY <2>1, <2>2
  <1>9. MemoryOK(new, taughtNow)
    BY <1>2, <1>3, <1>4, <1>5, <1>6, <1>8 DEF MemoryOK
  <1>10. QED
    BY <1>1, <1>9 DEF taughtNow

\* There is room.
LEMMA AppendedEntryOK ==
  ASSUME NEW list, NEW best, MemoryOK(list, best), NEW e \in Entries,
         ~ \E k \in DOMAIN list : list[k].sig.hash = e.sig.hash,
         Len(list) < MAX_ENTRIES
  PROVE  MemoryOK(add_entry(list, e), Taught(best, e.sig.hash, e.score))
  <1> DEFINE new == Append(list, e)
             taughtNow == Taught(best, e.sig.hash, e.score)
  <1>1. /\ list \in Seq(Entries) /\ Len(list) \in Nat /\ e.score \in Nat /\ MAX_ENTRIES \in Nat
        /\ DOMAIN list = 1 .. Len(list) /\ \A h \in DOMAIN best : best[h] \in Nat
    BY MemoryTypes, EntryScore
  <1>2. /\ new \in Seq(Entries) /\ Len(new) = Len(list) + 1 /\ DOMAIN new = DOMAIN list \union {Len(list) + 1}
        /\ \A k \in DOMAIN list : new[k] = list[k]
        /\ new[Len(list) + 1] = e /\ Len(list) + 1 \notin DOMAIN list
    BY <1>1
  <1>3. Len(new) <= MAX_ENTRIES
    BY <1>1, <1>2
  <1>4. add_entry(list, e) = new
    BY <1>1, <1>2, <1>3 DEF add_entry
  <1>5. \A h \in DOMAIN best : \E k \in DOMAIN list : list[k].sig.hash = h
    BY <1>1 DEF MemoryOK, Best
  <1>6. e.sig.hash \notin DOMAIN best
    BY <1>5
  <1>7. /\ DOMAIN taughtNow = DOMAIN best \union {e.sig.hash}
        /\ \A h \in DOMAIN best : taughtNow[h] = best[h]
        /\ taughtNow[e.sig.hash] = e.score
        /\ \A h \in DOMAIN taughtNow : taughtNow[h] \in Nat
    <2>1. \A h \in DOMAIN best : h # e.sig.hash
      BY <1>6
    <2>2. /\ DOMAIN taughtNow = DOMAIN best \union {e.sig.hash}
          /\ \A h \in DOMAIN best : h # e.sig.hash => taughtNow[h] = best[h]
          /\ e.sig.hash \notin DOMAIN best => taughtNow[e.sig.hash] = e.score
          /\ e.sig.hash \in DOMAIN best =>
               taughtNow[e.sig.hash] = IF e.score > best[e.sig.hash] THEN e.score ELSE best[e.sig.hash]
          /\ \A h \in DOMAIN taughtNow : taughtNow[h] \in Nat
      BY TaughtEntry
    <2> HIDE DEF taughtNow
    <2>3. QED
      BY <1>6, <2>1, <2>2
  <1> HIDE DEF new, taughtNow
  <1>8. \A j, k \in DOMAIN new : new[j].sig.hash = new[k].sig.hash => j = k
    BY <1>2 DEF MemoryOK
  <1>9. \A k \in DOMAIN new : new[k].sig.hash \in DOMAIN taughtNow
                              /\ new[k].score = taughtNow[new[k].sig.hash]
    BY <1>2, <1>7 DEF MemoryOK
  <1>10. \A h \in DOMAIN taughtNow : Best(new, taughtNow, h)
    BY <1>2, <1>5, <1>7 DEF Best
  <1>11. MemoryOK(new, taughtNow)
    BY <1>2, <1>3, <1>7, <1>8, <1>9, <1>10 DEF MemoryOK
  <1>12. QED
    BY <1>4, <1>11 DEF taughtNow


\* There is no room: what comes last of the sorted list goes.
LEMMA EvictedEntryOK ==
  ASSUME NEW list, NEW best, MemoryOK(list, best), NEW e \in Entries,
         ~ \E k \in DOMAIN list : list[k].sig.hash = e.sig.hash,
         Len(list) = MAX_ENTRIES
  PROVE  MemoryOK(add_entry(list, e), Taught(best, e.sig.hash, e.score))
  <1> DEFINE m == MAX_ENTRIES
             n == m + 1
             all == Append(list, e)
             value == [k \in DOMAIN all |-> all[k].score]
             new == SubSeq(Ranked(all, value), 1, m)
             at(k) == Sorted(value, k)
             d == Sorted(value, n)
             hash == e.sig.hash
             taughtNow == Taught(best, hash, e.score)
  <1>1. /\ m \in Nat \ {0} /\ n \in Nat /\ m \in 1 .. n /\ n \in 1 .. n /\ 1 .. m \subseteq 1 .. n
        /\ list \in Seq(Entries) /\ Len(list) = m /\ DOMAIN list = 1 .. m
        /\ \A k \in 1 .. m : list[k] \in Entries /\ list[k].score \in Nat
        /\ e.score \in Nat /\ \A h \in DOMAIN best : best[h] \in Nat
    BY MemoryTypes, EntryScore
  <1>2. /\ all \in Seq(Entries) /\ Len(all) = n /\ DOMAIN all = 1 .. n
        /\ \A k \in 1 .. m : all[k] = list[k]
        /\ all[n] = e
        /\ \A k \in 1 .. n : k \in 1 .. m \/ k = n
        /\ n \notin 1 .. m
    BY <1>1
  <1>3. add_entry(list, e) = new
    <2>1. Len(all) > MAX_ENTRIES
      BY <1>1, <1>2
    <2>2. QED
      BY <2>1 DEF add_entry
  <1>4. value \in [1 .. n -> Nat] /\ \A k \in 1 .. n : value[k] = all[k].score
    BY <1>1, <1>2
  <1> HIDE DEF all, value, m, n
  <1>5. /\ \A k \in 1 .. n : at(k) \in 1 .. n
        /\ \A k, l \in 1 .. n : at(k) = at(l) => k = l
        /\ \A i \in 1 .. n : \E k \in 1 .. n : at(k) = i
        /\ \A k, l \in 1 .. n : k < l => value[at(k)] >= value[at(l)]
    BY <1>1, <1>4, SortedIsPermutation
  <1>6. /\ new \in Seq(Entries) /\ Len(new) = m /\ DOMAIN new = 1 .. m
        /\ \A k \in 1 .. m : new[k] = all[at(k)]
    <2> DEFINE ranked == Ranked(all, value)
    <2>1. /\ DOMAIN ranked = 1 .. n /\ \A k \in 1 .. n : ranked[k] = all[at(k)]
      BY <1>2 DEF Ranked
    <2>2. \A k \in 1 .. n : ranked[k] \in Entries
      BY <1>2, <1>5, <2>1
    <2> HIDE DEF ranked
    <2>3. \A k \in 1 .. m : ranked[k] \in Entries
      BY <1>1, <2>2
    <2>4. /\ SubSeq(ranked, 1, m) \in Seq(Entries)
          /\ Len(SubSeq(ranked, 1, m)) = IF 1 <= m THEN m - 1 + 1 ELSE 0
          /\ \A i \in 1 .. m - 1 + 1 : SubSeq(ranked, 1, m)[i] = ranked[1 + i - 1]
      BY <1>1, <2>3, SubSeqProperties
    <2>5. new = SubSeq(ranked, 1, m)
      BY DEF ranked
    <2> HIDE DEF new
    <2>6. /\ new \in Seq(Entries) /\ Len(new) = m
          /\ \A i \in 1 .. m : new[i] = ranked[i]
      BY <1>1, <2>4, <2>5
    <2>7. QED
      BY <1>1, <2>1, <2>6
  <1> HIDE DEF new, at, d
  <1>7. /\ d \in 1 .. n /\ d = at(n)
        /\ \A k \in 1 .. m : at(k) \in 1 .. n /\ at(k) # d /\ value[at(k)] >= value[d]
        /\ \A i \in 1 .. n : i # d => \E k \in 1 .. m : at(k) = i
    <2>1. d = at(n)
      BY DEF d, at
    <2>2. d \in 1 .. n
      BY <1>1, <1>5, <2>1
    <2>3. ASSUME NEW k \in 1 .. m
          PROVE  at(k) \in 1 .. n /\ at(k) # d /\ value[at(k)] >= value[d]
      <3>1. k \in 1 .. n /\ k < n
        BY <1>1 DEF n
      <3>2. at(k) \in 1 .. n /\ value[at(k)] >= value[at(n)]
        BY <1>1, <1>5, <3>1
      <3>3. at(k) # at(n)
        <4>1. k # n
          BY <1>2
        <4>2. QED
          BY <1>1, <1>5, <3>1, <4>1
      <3>4. QED
        BY <2>1, <3>2, <3>3
    <2>4. ASSUME NEW i \in 1 .. n, i # d
          PROVE  \E k \in 1 .. m : at(k) = i
      <3>1. PICK k \in 1 .. n : at(k) = i
        BY <1>5
      <3>2. k # n
        BY <2>1, <2>4, <3>1
      <3>3. k \in 1 .. m
        BY <1>2, <3>2
      <3>4. QED
        BY <3>1, <3>3
    <2>5. QED
      BY <2>1, <2>2, <2>3, <2>4
  <1>8. /\ DOMAIN taughtNow = DOMAIN best \union {hash}
        /\ \A h \in DOMAIN best : h # hash => taughtNow[h] = best[h]
        /\ hash \notin DOMAIN best => taughtNow[hash] = e.score
        /\ hash \in DOMAIN best =>
             taughtNow[hash] = IF e.score > best[hash] THEN e.score ELSE best[hash]
        /\ \A h \in DOMAIN taughtNow : taughtNow[h] \in Nat
    BY TaughtEntry
  <1>9. /\ \A k \in 1 .. m : list[k].sig.hash # hash
        /\ \A k \in 1 .. m : list[k].sig.hash \in DOMAIN best
                             /\ list[k].score = best[list[k].sig.hash]
        /\ \A j, k \in 1 .. m : list[j].sig.hash = list[k].sig.hash => j = k
        /\ \A h \in DOMAIN best :
             \/ \E k \in 1 .. m : list[k].sig.hash = h
             \/ \A k \in 1 .. m : list[k].score >= best[h]
    BY <1>1 DEF MemoryOK, Best
  <1> HIDE DEF taughtNow, hash
  <1>10. hash = e.sig.hash
    BY DEF hash
  <1>11. \A i, j \in 1 .. n : all[i].sig.hash = all[j].sig.hash => i = j
    BY <1>2, <1>9, <1>10
  <1>12. hash \in DOMAIN best => \A k \in 1 .. m : list[k].score >= best[hash]
    BY <1>9
  <1>13. ASSUME NEW i \in 1 .. n, i # d
         PROVE  all[i].sig.hash \in DOMAIN taughtNow /\ all[i].score = taughtNow[all[i].sig.hash]
    <2>1. CASE i \in 1 .. m
      BY <1>2, <1>8, <1>9, <2>1
    <2>2. CASE i = n
      <3>1. CASE hash \notin DOMAIN best
        BY <1>2, <1>8, <1>10, <2>2, <3>1
      <3>2. CASE hash \in DOMAIN best
        <4>1. PICK k \in 1 .. m : at(k) = n
          BY <1>1, <1>7, <1>13, <2>2
        <4>2. value[n] >= value[d]
          BY <1>7, <4>1
        <4>3. d \in 1 .. m /\ value[d] = list[d].score /\ value[n] = e.score
          BY <1>1, <1>2, <1>4, <1>7, <1>13, <2>2
        <4>4. list[d].score >= best[hash]
          BY <1>12, <3>2, <4>3
        <4>5. best[hash] \in Nat /\ list[d].score \in Nat /\ e.score \in Nat
          BY <1>1, <3>2, <4>3
        <4>6. e.score >= best[hash]
          BY <4>2, <4>3, <4>4, <4>5
        <4>7. taughtNow[hash] = e.score
          BY <1>8, <3>2, <4>5, <4>6
        <4>8. QED
          BY <1>2, <1>8, <1>10, <2>2, <4>7
      <3>3. QED
        BY <3>1, <3>2
    <2>3. QED
      BY <1>2, <2>1, <2>2
  <1>14. \A k \in 1 .. m : /\ new[k].sig.hash \in DOMAIN taughtNow
                           /\ new[k].score = taughtNow[new[k].sig.hash]
    BY <1>6, <1>7, <1>13
  <1>15. \A j, k \in 1 .. m : new[j].sig.hash = new[k].sig.hash => j = k
    <2> SUFFICES ASSUME NEW j \in 1 .. m, NEW k \in 1 .. m, new[j].sig.hash = new[k].sig.hash
                 PROVE  j = k
      OBVIOUS
    <2>1. at(j) = at(k)
      BY <1>6, <1>7, <1>11
    <2>2. j \in 1 .. n /\ k \in 1 .. n
      BY <1>1
    <2>3. QED
      BY <1>5, <2>1, <2>2
  <1>16. \A k \in 1 .. m : /\ new[k].score = value[at(k)] /\ new[k].score >= value[d]
                           /\ new[k].score \in Nat /\ value[d] \in Nat
    BY <1>4, <1>6, <1>7
  <1>17. ASSUME NEW h \in DOMAIN taughtNow PROVE Best(new, taughtNow, h)
    <2>1. ASSUME NEW i \in 1 .. n, i # d, all[i].sig.hash = h PROVE Best(new, taughtNow, h)
      <3>1. PICK k \in 1 .. m : at(k) = i
        BY <1>7, <2>1
      <3>2. k \in DOMAIN new /\ new[k].sig.hash = h
        BY <1>6, <2>1, <3>1
      <3>3. QED
        BY <3>2 DEF Best
    <2>2. ASSUME \A k \in 1 .. m : new[k].score >= taughtNow[h] PROVE Best(new, taughtNow, h)
      BY <1>6, <2>2 DEF Best, m
    <2>3. ASSUME all[d].sig.hash = h, d \in 1 .. m PROVE Best(new, taughtNow, h)
      <3>1. value[d] = taughtNow[h]
        <4>1. all[d] = list[d] /\ value[d] = all[d].score
          BY <1>2, <1>4, <1>7, <2>3
        <4>2. list[d].sig.hash = h /\ h # hash /\ h \in DOMAIN best /\ list[d].score = best[h]
          BY <1>9, <2>3, <4>1
        <4>3. QED
          BY <1>8, <4>1, <4>2
      <3>2. QED
        BY <1>16, <2>2, <3>1
    <2>4. ASSUME all[d].sig.hash = h, d = n PROVE Best(new, taughtNow, h)
      <3>1. h = hash /\ value[d] = e.score
        BY <1>1, <1>2, <1>4, <1>10, <2>4
      <3>2. CASE taughtNow[hash] = e.score
        BY <1>16, <2>2, <3>1, <3>2
      <3>3. CASE taughtNow[hash] # e.score
        <4>1. hash \in DOMAIN best /\ taughtNow[hash] = best[hash]
          BY <1>8, <3>3
        <4>2. \A k \in 1 .. m : at(k) \in 1 .. m
          BY <1>2, <1>7, <2>4
        <4>3. \A k \in 1 .. m : new[k] = list[at(k)]
          BY <1>2, <1>6, <4>2
        <4>4. \A k \in 1 .. m : new[k].score >= taughtNow[h]
          BY <1>12, <3>1, <4>1, <4>2, <4>3
        <4>5. QED
          BY <2>2, <4>4
      <3>4. QED
        BY <3>2, <3>3
    <2>5. ASSUME \A i \in 1 .. n : all[i].sig.hash # h PROVE Best(new, taughtNow, h)
      <3>1. h # hash
        BY <1>1, <1>2, <1>10, <2>5
      <3>2. h \in DOMAIN best /\ taughtNow[h] = best[h] /\ best[h] \in Nat
        BY <1>1, <1>8, <3>1
      <3>3. \A k \in 1 .. m : list[k].score >= best[h]
        BY <1>1, <1>2, <1>9, <2>5, <3>2
      <3>4. ASSUME NEW k \in 1 .. m PROVE new[k].score >= best[h]
        <4>1. CASE at(k) \in 1 .. m
          BY <1>2, <1>6, <3>3, <4>1
        <4>2. CASE at(k) = n
          <5>1. d \in 1 .. m
            BY <1>2, <1>7, <4>2
          <5>2. value[d] = list[d].score /\ list[d].score >= best[h]
            BY <1>1, <1>2, <1>4, <3>3, <5>1
          <5>3. QED
            BY <1>16, <3>2, <5>2
        <4>3. QED
          BY <1>2, <1>7, <4>1, <4>2
      <3>5. QED
        BY <2>2, <3>2, <3>4
    <2>6. QED
      BY <1>2, <1>7, <2>1, <2>3, <2>4, <2>5
  <1>18. MemoryOK(new, taughtNow)
    <2>1. Len(new) <= MAX_ENTRIES
      BY <1>1, <1>6 DEF m
    <2>2. QED
      BY <1>6, <1>8, <1>14, <1>15, <1>17, <2>1 DEF MemoryOK
  <1>19. QED
    BY <1>3, <1>18 DEF taughtNow, hash, new

LEMMA AddedEntryOK ==
  ASSUME NEW list, NEW best, MemoryOK(list, best), NEW e \in Entries
  PROVE  MemoryOK(add_entry(list, e), Taught(best, e.sig.hash, e.score))
  <1>1. Len(list) < MAX_ENTRIES \/ Len(list) = MAX_ENTRIES
    BY MemoryTypes
  <1>2. QED
    BY <1>1, ReplacedEntryOK, AppendedEntryOK, EvictedEntryOK

-----------------------------------------------------------------------------
\* The memory in the process, and the one in the file.
MemoryInv ==
  /\ MemoryOK(entries, taught)
  /\ MemoryOK(files.entries.list, IF files.entries.torn THEN <<>> ELSE kept.taught)
  /\ files = [patterns |-> files.patterns, entries |-> files.entries]
  /\ kept = [tally |-> kept.tally, taught |-> kept.taught]

LEMMA NothingRemembered ==
  MemoryOK(<<>>, <<>>)
  <1>1. DOMAIN <<>> = {} /\ Len(<<>>) = 0 /\ <<>> \in Seq(Entries) /\ 0 <= MAX_ENTRIES
    BY LearnedAssumption
  <1>2. QED
    BY <1>1 DEF MemoryOK

LEMMA MemoryInitOK ==
  ASSUME Init PROVE MemoryInv
  BY NothingRemembered DEF Init, LearnedInit, MemoryInv, Intact

LEMMA MemoryStepOK ==
  ASSUME MemoryInv, MemoryNext PROVE MemoryInv'
  <1>1. CASE AddEntry
    <2>1. PICK sig \in Signatures, points \in Scores :
            /\ entries' = add_entry(entries, [sig |-> sig, score |-> points])
            /\ taught' = Taught(taught, sig.hash, points)
      BY <1>1 DEF AddEntry, Taught
    <2>2. [sig |-> sig, score |-> points] \in Entries
      BY DEF Entries
    <2>3. MemoryOK(entries', taught')
      BY <2>1, <2>2, AddedEntryOK DEF MemoryInv
    <2>4. files' = files /\ kept' = kept
      BY <1>1 DEF AddEntry
    <2>5. QED
      BY <2>3, <2>4 DEF MemoryInv
  <1>2. CASE ShowSimilar
    BY <1>2 DEF ShowSimilar, MemoryInv
  <1>3. CASE SaveMemory
    BY <1>3 DEF SaveMemory, MemoryInv, memoryVars, Intact
  <1>4. CASE LoadMemory
    BY <1>4 DEF LoadMemory, MemoryInv
  <1>5. CASE TearMemory
    BY <1>5, NothingRemembered DEF TearMemory, MemoryInv, Torn
  <1>6. QED
    BY <1>1, <1>2, <1>3, <1>4, <1>5 DEF MemoryNext

LEMMA PatternStepOK ==
  ASSUME MemoryInv, PatternNext PROVE MemoryInv'
  <1>1. entries' = entries /\ taught' = taught
    BY DEF PatternNext, Learn, Offer, Record, SavePatterns, LoadPatterns, TearPatterns, memoryVars
  <1>2. /\ files' = [patterns |-> files'.patterns, entries |-> files.entries]
        /\ kept' = [tally |-> kept'.tally, taught |-> kept.taught]
    <2>1. CASE Learn \/ Offer \/ Record(TRUE) \/ Record(FALSE) \/ LoadPatterns
      BY <2>1 DEF Learn, Offer, Record, LoadPatterns, MemoryInv
    <2>2. CASE SavePatterns
      BY <2>2 DEF SavePatterns, MemoryInv
    <2>3. CASE TearPatterns
      BY <2>3 DEF TearPatterns, MemoryInv
    <2>4. QED
      BY <2>1, <2>2, <2>3 DEF PatternNext
  <1>3. QED
    BY <1>1, <1>2 DEF MemoryInv

\* Of every signature ever added the memory has the best translation, or it is full
\* of translations that are no worse, through every replacement, eviction, save, load
\* and torn file (TranslationMemory::add_entry).
THEOREM MemoryBest == Spec => []MemoryKeepsTheBest
  <1>1. Init => MemoryInv
    BY MemoryInitOK
  <1>2. MemoryInv /\ [Next]_serviceVars => MemoryInv'
    <2> SUFFICES ASSUME MemoryInv, [Next]_serviceVars PROVE MemoryInv'
      OBVIOUS
    <2>1. CASE MemoryNext
      BY <2>1, MemoryStepOK
    <2>2. CASE PatternNext
      BY <2>2, PatternStepOK
    <2>3. CASE UNCHANGED learnedVars
      BY <2>3 DEF learnedVars, memoryVars, MemoryInv
    <2>4. QED
      BY <2>1, <2>2, <2>3
         DEF Next, Choose, InBench, InMcp, InApi, InLearned, InCrate, serviceVars
  <1>3. MemoryInv => MemoryKeepsTheBest
    <2> SUFFICES ASSUME MemoryOK(entries, taught) PROVE MemoryKeepsTheBest
      BY DEF MemoryInv
    <2>1. ASSUME NEW h \in DOMAIN taught
          PROVE  \/ \E k \in DOMAIN entries : entries[k].sig.hash = h /\ entries[k].score = taught[h]
                 \/ /\ Len(entries) = MAX_ENTRIES
                    /\ \A k \in DOMAIN entries : entries[k].score >= taught[h]
      <3>1. Best(entries, taught, h)
        BY <2>1 DEF MemoryOK
      <3>2. \A k \in DOMAIN entries : entries[k].score = taught[entries[k].sig.hash]
        BY DEF MemoryOK
      <3>3. QED
        BY <3>1, <3>2 DEF Best
    <2>2. QED
      BY <2>1 DEF MemoryOK, MemoryKeepsTheBest
  <1>4. QED
    BY <1>1, <1>2, <1>3, PTL DEF Spec

-----------------------------------------------------------------------------
(***************************************************************************)
(* Repair patterns.                                                        *)
(***************************************************************************)
Less == {p \in Nat \X Nat : p[1] < p[2]}

LEMMA LessIsWellFounded == IsWellFoundedOn(Less, Nat)
  BY NatLessThanWellFounded DEF OpToRel, Less

LEMMA SetInduction ==
  ASSUME NEW S, 0 \in S, \A n \in Nat : n \in S => n + 1 \in S
  PROVE  Nat \subseteq S
  <1> SUFFICES ASSUME Nat \ S # {} PROVE FALSE
    OBVIOUS
  <1>1. PICK n \in Nat \ S : \A k \in Nat \ S : ~(<<k, n>> \in Less)
    BY LessIsWellFounded, WFMin
  <1>2. n # 0 /\ n - 1 \in Nat /\ (n - 1) + 1 = n
    BY <1>1
  <1>3. <<n - 1, n>> \in Less
    BY <1>2 DEF Less
  <1>4. QED
    BY <1>1, <1>2, <1>3

SeedKeys == {Seeds[k].key : k \in DOMAIN Seeds}
Keys     == {Key(e) : e \in Errors} \union SeedKeys
Patterns == [key : Keys, won : Nat, lost : Nat]
Counts   == [won : Nat, lost : Nat]

CountsOf(p) == [won |-> p.won, lost |-> p.lost]

\* A store holds each pattern once, with the counts that are known of it.
StoreOK(list, learned) ==
  /\ list \in Seq(Patterns)
  /\ \A j, k \in DOMAIN list : list[j].key = list[k].key => j = k
  /\ DOMAIN learned = {list[k].key : k \in DOMAIN list}
  /\ \A k \in DOMAIN list : learned[list[k].key] = CountsOf(list[k])
  /\ learned = [key \in DOMAIN learned |-> learned[key]]

\* What is known of a key after one more pattern.
Plus(learned, p) ==
  [key \in DOMAIN learned \union {p.key} |->
     IF key # p.key THEN learned[key]
     ELSE [won |-> CountOf(learned, key).won + p.won, lost |-> CountOf(learned, key).lost + p.lost]]

LEMMA NothingStored == StoreOK(<<>>, NoTally)
  <1>1. <<>> \in Seq(Patterns) /\ DOMAIN <<>> = {} /\ DOMAIN NoTally = {}
    BY DEF NoTally
  <1>2. QED
    BY <1>1 DEF StoreOK, NoTally

LEMMA StoredElements ==
  ASSUME NEW S, NEW s \in Seq(S), NEW e \in S
  PROVE  /\ Append(s, e) \in Seq(S)
         /\ DOMAIN Append(s, e) = DOMAIN s \union {Len(s) + 1}
         /\ Append(s, e)[Len(s) + 1] = e
         /\ \A k \in DOMAIN s : k # Len(s) + 1 /\ Append(s, e)[k] = s[k]
  OBVIOUS

\* A pattern that is appended is stored with its own counts.
LEMMA AppendedPatternOK ==
  ASSUME NEW list, NEW learned, StoreOK(list, learned), NEW p \in Patterns,
         \A k \in DOMAIN list : list[k].key # p.key
  PROVE  StoreOK(Append(list, p), Plus(learned, p))
  <1> DEFINE all == Append(list, p)
             counts == Plus(learned, p)
  <1>1. /\ all \in Seq(Patterns)
        /\ DOMAIN all = DOMAIN list \union {Len(list) + 1}
        /\ all[Len(list) + 1] = p
        /\ \A k \in DOMAIN list : k # Len(list) + 1 /\ all[k] = list[k]
    BY StoredElements DEF StoreOK
  <1> HIDE DEF all
  <1>2. p.key \notin DOMAIN learned
    BY DEF StoreOK
  <1>3. p.won \in Nat /\ p.lost \in Nat
    BY DEF Patterns
  <1>4. CountOf(learned, p.key) = [won |-> 0, lost |-> 0]
    BY <1>2 DEF CountOf
  <1>5. DOMAIN counts = DOMAIN learned \union {p.key} /\ counts = [key \in DOMAIN counts |-> counts[key]]
    BY DEF Plus
  <1>6. counts[p.key] = CountsOf(p)
    BY <1>3, <1>4 DEF Plus, CountsOf
  <1>7. \A key \in DOMAIN learned : counts[key] = learned[key]
    BY <1>2 DEF Plus
  <1> HIDE DEF counts
  <1>8. \A j, k \in DOMAIN all : all[j].key = all[k].key => j = k
    BY <1>1 DEF StoreOK
  <1>9. DOMAIN counts = {all[k].key : k \in DOMAIN all}
    <2>1. DOMAIN learned = {list[k].key : k \in DOMAIN list}
      BY DEF StoreOK
    <2>2. {all[k].key : k \in DOMAIN all} = {list[k].key : k \in DOMAIN list} \union {p.key}
      BY <1>1
    <2>3. QED
      BY <1>5, <2>1, <2>2
  <1>10. ASSUME NEW k \in DOMAIN all PROVE counts[all[k].key] = CountsOf(all[k])
    <2>1. CASE k = Len(list) + 1
      BY <1>1, <1>6, <2>1
    <2>2. CASE k \in DOMAIN list
      <3>1. list[k].key \in DOMAIN learned /\ learned[list[k].key] = CountsOf(list[k])
        BY <2>2 DEF StoreOK
      <3>2. QED
        BY <1>1, <1>7, <2>2, <3>1
    <2>3. QED
      BY <1>1, <2>1, <2>2
  <1>11. QED
    BY <1>1, <1>5, <1>8, <1>9, <1>10 DEF StoreOK, all, counts

\* A pattern whose key is there adds its counts to the one that has it.
LEMMA MergedPatternOK ==
  ASSUME NEW list, NEW learned, StoreOK(list, learned), NEW p \in Patterns,
         \E k \in DOMAIN list : list[k].key = p.key
  PROVE  StoreOK(Merge(list, p), Plus(learned, p))
  <1> DEFINE all == Merge(list, p)
             counts == Plus(learned, p)
             sum(q) == [won |-> q.won + p.won, lost |-> q.lost + p.lost]
  <1>1. all = [k \in DOMAIN list |->
                 IF list[k].key = p.key
                 THEN [key |-> p.key, won |-> list[k].won + p.won, lost |-> list[k].lost + p.lost]
                 ELSE list[k]]
    BY DEF Merge
  <1> HIDE DEF all
  <1>2. list \in Seq(Patterns) /\ \A k \in DOMAIN list : list[k] \in Patterns
    BY DEF StoreOK
  <1>3. p.key \in DOMAIN learned
    BY DEF StoreOK
  <1>4. DOMAIN counts = DOMAIN learned /\ counts = [key \in DOMAIN counts |-> counts[key]]
    BY <1>3 DEF Plus
  <1>5. \A key \in DOMAIN learned : key # p.key => counts[key] = learned[key]
    BY DEF Plus
  <1>6. counts[p.key] = sum(learned[p.key])
    BY <1>3 DEF Plus, CountOf
  <1> HIDE DEF counts
  <1>7. ASSUME NEW k \in DOMAIN list
        PROVE  /\ all[k] \in Patterns /\ all[k].key = list[k].key
               /\ list[k].key = p.key => CountsOf(all[k]) = sum(list[k])
               /\ list[k].key # p.key => all[k] = list[k]
    <2>1. list[k] \in Patterns
      BY <1>2, <1>7
    <2>2. CASE list[k].key = p.key
      <3>1. all[k] = [key |-> p.key, won |-> list[k].won + p.won, lost |-> list[k].lost + p.lost]
        BY <1>1, <1>7, <2>2
      <3>2. QED
        BY <2>1, <2>2, <3>1 DEF Patterns, CountsOf
    <2>3. CASE list[k].key # p.key
      BY <1>1, <1>7, <2>1, <2>3
    <2>4. QED
      BY <2>2, <2>3
  <1>8. all \in Seq(Patterns) /\ DOMAIN all = DOMAIN list
    <2>1. DOMAIN list = 1 .. Len(list) /\ Len(list) \in Nat
      BY <1>2
    <2>2. all \in [1 .. Len(list) -> Patterns]
      BY <1>1, <1>7, <2>1
    <2>3. QED
      BY <2>1, <2>2
  <1>9. \A j, k \in DOMAIN all : all[j].key = all[k].key => j = k
    BY <1>7, <1>8 DEF StoreOK
  <1>10. DOMAIN counts = {all[k].key : k \in DOMAIN all}
    BY <1>4, <1>7, <1>8 DEF StoreOK
  <1>11. ASSUME NEW k \in DOMAIN all PROVE counts[all[k].key] = CountsOf(all[k])
    <2>1. k \in DOMAIN list /\ all[k].key = list[k].key /\ list[k] \in Patterns
      BY <1>2, <1>7, <1>8
    <2>2. list[k].key \in DOMAIN learned /\ learned[list[k].key] = CountsOf(list[k])
      BY <2>1 DEF StoreOK
    <2>3. CASE list[k].key = p.key
      <3>1. counts[p.key] = sum(CountsOf(list[k]))
        BY <1>6, <2>2, <2>3
      <3>2. sum(CountsOf(list[k])) = sum(list[k])
        BY DEF CountsOf
      <3>3. QED
        BY <1>7, <2>1, <2>3, <3>1, <3>2
    <2>4. CASE list[k].key # p.key
      BY <1>5, <1>7, <2>1, <2>2, <2>4
    <2>5. QED
      BY <2>3, <2>4
  <1>12. QED
    BY <1>4, <1>8, <1>9, <1>10, <1>11 DEF StoreOK, all, counts

LEMMA PatternAddedOK ==
  ASSUME NEW list, NEW learned, StoreOK(list, learned), NEW p \in Patterns
  PROVE  StoreOK(Merge(list, p), Plus(learned, p))
  <1>1. CASE \E k \in DOMAIN list : list[k].key = p.key
    BY <1>1, MergedPatternOK
  <1>2. CASE ~\E k \in DOMAIN list : list[k].key = p.key
    <2>1. Merge(list, p) = Append(list, p)
      BY <1>2 DEF Merge
    <2>2. QED
      BY <1>2, <2>1, AppendedPatternOK
  <1>3. QED
    BY <1>1, <1>2

\* One step of the two loops over a list of patterns: of a diff, or the seeds.
AddOne(seeding, store, p) == IF seeding THEN AddSeed(store, p) ELSE Merge(store, p)

Chain(seeding, store, list, m, f) ==
  f = [n \in 0 .. m |-> IF n = 0 THEN store ELSE AddOne(seeding, f[n - 1], list[n])]

LEMMA ChainExists ==
  ASSUME NEW seeding, NEW store, NEW list, NEW m \in Nat
  PROVE  \E f : Chain(seeding, store, list, m, f)
  <1> DEFINE T == {l \in Nat : \E f : Chain(seeding, store, list, l, f)}
  <1>1. 0 \in T
    <2> DEFINE f == [n \in 0 .. 0 |-> store]
    <2>1. f = [n \in 0 .. 0 |-> IF n = 0 THEN store ELSE AddOne(seeding, f[n - 1], list[n])]
      OBVIOUS
    <2>2. QED
      BY <2>1 DEF Chain
  <1>2. ASSUME NEW l \in Nat, l \in T PROVE l + 1 \in T
    <2>1. PICK f : Chain(seeding, store, list, l, f)
      BY <1>2
    <2> DEFINE g == [n \in 0 .. l + 1 |->
                       IF n = 0 THEN store ELSE AddOne(seeding, f[n - 1], list[n])]
    <2>2. ASSUME NEW n \in 0 .. l PROVE g[n] = f[n]
      BY <2>1 DEF Chain
    <2> HIDE DEF g
    <2>3. ASSUME NEW n \in 0 .. l + 1
          PROVE  (IF n = 0 THEN store ELSE AddOne(seeding, f[n - 1], list[n]))
                   = (IF n = 0 THEN store ELSE AddOne(seeding, g[n - 1], list[n]))
      <3>1. CASE n = 0
        BY <3>1
      <3>2. CASE n # 0
        <4>1. n - 1 \in 0 .. l
          BY <3>2
        <4>2. g[n - 1] = f[n - 1]
          BY <2>2, <4>1
        <4>3. QED
          BY <4>2
      <3>3. QED
        BY <3>1, <3>2
    <2>4. g = [n \in 0 .. l + 1 |-> IF n = 0 THEN store ELSE AddOne(seeding, g[n - 1], list[n])]
      BY <2>3 DEF g
    <2>5. QED
      BY <2>4 DEF Chain
  <1> HIDE DEF T
  <1>3. m \in T
    BY <1>1, <1>2, SetInduction
  <1>4. QED
    BY <1>3 DEF T

\* What the loop of MergeAll has after each of its rounds.
LEMMA MergesAreAChain ==
  ASSUME NEW store, NEW found, Len(found) \in Nat
  PROVE  \E f : Chain(FALSE, store, found, Len(found), f) /\ MergeAll(store, found) = f[Len(found)]
  <1> DEFINE after == CHOOSE f : f = [n \in 0 .. Len(found) |->
                                        IF n = 0 THEN store ELSE Merge(f[n - 1], found[n])]
  <1>1. \E f : f = [n \in 0 .. Len(found) |-> IF n = 0 THEN store ELSE Merge(f[n - 1], found[n])]
    <2>1. PICK f : Chain(FALSE, store, found, Len(found), f)
      BY ChainExists
    <2>2. QED
      BY <2>1 DEF Chain, AddOne
  <1>2. after = [n \in 0 .. Len(found) |-> IF n = 0 THEN store ELSE Merge(after[n - 1], found[n])]
    BY <1>1, Zenon
  <1>3. MergeAll(store, found) = after[Len(found)]
    BY DEF MergeAll
  <1> HIDE DEF after
  <1>4. Chain(FALSE, store, found, Len(found), after)
    BY <1>2 DEF Chain, AddOne
  <1>5. QED
    BY <1>3, <1>4

LEMMA SeedsAreAChain ==
  ASSUME NEW store, Len(Seeds) \in Nat
  PROVE  \E f : Chain(TRUE, store, Seeds, Len(Seeds), f) /\ WithSeeds(store) = f[Len(Seeds)]
  <1> DEFINE after == CHOOSE f : f = [n \in 0 .. Len(Seeds) |->
                                        IF n = 0 THEN store ELSE AddSeed(f[n - 1], Seeds[n])]
  <1>1. \E f : f = [n \in 0 .. Len(Seeds) |-> IF n = 0 THEN store ELSE AddSeed(f[n - 1], Seeds[n])]
    <2>1. PICK f : Chain(TRUE, store, Seeds, Len(Seeds), f)
      BY ChainExists
    <2>2. QED
      BY <2>1 DEF Chain, AddOne
  <1>2. after = [n \in 0 .. Len(Seeds) |-> IF n = 0 THEN store ELSE AddSeed(after[n - 1], Seeds[n])]
    BY <1>1, Zenon
  <1>3. WithSeeds(store) = after[Len(Seeds)]
    BY DEF WithSeeds
  <1> HIDE DEF after
  <1>4. Chain(TRUE, store, Seeds, Len(Seeds), after)
    BY <1>2 DEF Chain, AddOne
  <1>5. QED
    BY <1>3, <1>4

\* What a store and what is known of it have in common, key by key.
LEMMA KnownCounts ==
  ASSUME NEW list, NEW learned, StoreOK(list, learned)
  PROVE  /\ \A key \in DOMAIN learned : learned[key] \in Counts
         /\ learned = [key \in DOMAIN learned |-> learned[key]]
  <1>1. ASSUME NEW key \in DOMAIN learned PROVE learned[key] \in Counts
    <2>1. PICK k \in DOMAIN list : list[k].key = key
      BY DEF StoreOK
    <2>2. list[k] \in Patterns
      BY DEF StoreOK
    <2>3. learned[key] = CountsOf(list[k])
      BY <2>1 DEF StoreOK
    <2>4. QED
      BY <2>2, <2>3 DEF Patterns, Counts, CountsOf
  <1>2. QED
    BY <1>1 DEF StoreOK

\* WithFound of the first patterns of a diff.
Times(found, key, n) == Cardinality({k \in 1 .. n : found[k].key = key})

FoundUpTo(learned, found, n) ==
  [key \in DOMAIN learned \union {found[k].key : k \in 1 .. n} |->
     [won |-> CountOf(learned, key).won + Times(found, key, n), lost |-> CountOf(learned, key).lost]]

LEMMA TimesCounted ==
  ASSUME NEW found, NEW key, NEW n \in Nat
  PROVE  /\ Times(found, key, 0) = 0
         /\ Times(found, key, n) \in Nat
         /\ Times(found, key, n + 1) = Times(found, key, n) + (IF found[n + 1].key = key THEN 1 ELSE 0)
  <1> DEFINE those(m) == {k \in 1 .. m : found[k].key = key}
  <1>1. those(0) = {}
    OBVIOUS
  <1>2. IsFiniteSet(1 .. n)
    BY FS_Interval
  <1>3. those(n) \in SUBSET (1 .. n)
    OBVIOUS
  <1>4. those(n + 1) = IF found[n + 1].key = key THEN those(n) \union {n + 1} ELSE those(n)
    OBVIOUS
  <1>5. n + 1 \notin those(n)
    OBVIOUS
  <1>6. Times(found, key, n) = Cardinality(those(n)) /\ Times(found, key, n + 1) = Cardinality(those(n + 1))
        /\ Times(found, key, 0) = Cardinality(those(0))
    BY DEF Times
  <1> HIDE DEF those
  <1>7. IsFiniteSet(those(n))
    BY <1>2, <1>3, FS_Subset
  <1>8. Cardinality(those(n)) \in Nat
    BY <1>7, FS_CardinalityType
  <1>9. Cardinality({}) = 0
    BY FS_EmptySet
  <1>10. Cardinality(those(n) \union {n + 1}) = Cardinality(those(n)) + 1
    BY <1>5, <1>7, FS_AddElement
  <1>11. QED
    BY <1>1, <1>4, <1>6, <1>8, <1>9, <1>10

LEMMA NothingFound ==
  ASSUME NEW learned, NEW found,
         learned = [key \in DOMAIN learned |-> learned[key]],
         \A key \in DOMAIN learned : learned[key] \in Counts
  PROVE  FoundUpTo(learned, found, 0) = learned
  <1>1. DOMAIN learned \union {found[k].key : k \in 1 .. 0} = DOMAIN learned
    <2>1. {found[k].key : k \in 1 .. 0} = {}
      OBVIOUS
    <2>2. QED
      BY <2>1
  <1>2. ASSUME NEW key \in DOMAIN learned
        PROVE  [won |-> CountOf(learned, key).won + Times(found, key, 0), lost |-> CountOf(learned, key).lost]
                 = learned[key]
    <2>1. CountOf(learned, key) = learned[key] /\ learned[key] \in Counts
      BY DEF CountOf
    <2>2. Times(found, key, 0) = 0
      BY TimesCounted, 0 \in Nat
    <2>3. QED
      BY <2>1, <2>2 DEF Counts
  <1>3. QED
    BY <1>1, <1>2 DEF FoundUpTo

LEMMA OneMoreFound ==
  ASSUME NEW learned, NEW found, NEW n \in Nat,
         \A key \in DOMAIN learned : learned[key] \in Counts,
         found[n + 1].won = 1, found[n + 1].lost = 0
  PROVE  FoundUpTo(learned, found, n + 1) = Plus(FoundUpTo(learned, found, n), found[n + 1])
  <1> DEFINE before == FoundUpTo(learned, found, n)
             p == found[n + 1]
             D == DOMAIN learned \union {found[k].key : k \in 1 .. n}
             sum(key, m) == [won |-> CountOf(learned, key).won + Times(found, key, m),
                               lost |-> CountOf(learned, key).lost]
  <1>1. before = [key \in D |-> sum(key, n)]
    BY DEF FoundUpTo
  <1>2. DOMAIN learned \union {found[k].key : k \in 1 .. n + 1} = D \union {p.key}
    OBVIOUS
  <1>3. FoundUpTo(learned, found, n + 1) = [key \in D \union {p.key} |-> sum(key, n + 1)]
    BY <1>2 DEF FoundUpTo
  <1>4. ASSUME NEW key \in D \union {p.key}
        PROVE  sum(key, n + 1) =
                 IF key # p.key THEN before[key]
                 ELSE [won |-> CountOf(before, key).won + p.won, lost |-> CountOf(before, key).lost + p.lost]
    <2>1. CountOf(learned, key) \in Counts
      BY DEF CountOf, Counts
    <2>2. Times(found, key, n) \in Nat
          /\ Times(found, key, n + 1) = Times(found, key, n) + (IF p.key = key THEN 1 ELSE 0)
      BY TimesCounted
    <2>3. CASE key # p.key
      <3>1. sum(key, n + 1) = sum(key, n)
        BY <2>1, <2>2, <2>3 DEF Counts
      <3>2. before[key] = sum(key, n)
        BY <1>1, <2>3
      <3>3. QED
        BY <2>3, <3>1, <3>2
    <2>4. CASE key = p.key
      <3>1. CountOf(before, key) = sum(key, n)
        <4>1. CASE key \in D
          BY <1>1, <4>1 DEF CountOf
        <4>2. CASE key \notin D
          <5>1. CountOf(before, key) = [won |-> 0, lost |-> 0] /\ CountOf(learned, key) = [won |-> 0, lost |-> 0]
            BY <1>1, <4>2 DEF CountOf
          <5>2. {k \in 1 .. n : found[k].key = key} = {}
            BY <4>2
          <5>3. Times(found, key, n) = 0
            BY <5>2, FS_EmptySet DEF Times
          <5>4. QED
            BY <5>1, <5>3
        <4>3. QED
          BY <4>1, <4>2
      <3>2. QED
        BY <2>1, <2>2, <2>4, <3>1 DEF Counts
    <2>5. QED
      BY <2>3, <2>4
  <1>5. DOMAIN before = D
    BY <1>1
  <1> HIDE DEF before, p, D, sum
  <1>6. Plus(before, p) =
          [key \in D \union {p.key} |->
             IF key # p.key THEN before[key]
             ELSE [won |-> CountOf(before, key).won + p.won, lost |-> CountOf(before, key).lost + p.lost]]
    BY <1>5 DEF Plus
  <1>7. FoundUpTo(learned, found, n + 1) = Plus(before, p)
    BY <1>3, <1>4, <1>6
  <1>8. QED
    BY <1>7 DEF before, p

\* However many patterns a diff gives, the store has what was known and each of them.
LEMMA AllMergedOK ==
  ASSUME NEW list, NEW learned, StoreOK(list, learned),
         NEW found, Len(found) \in Nat, DOMAIN found = 1 .. Len(found),
         \A k \in 1 .. Len(found) : found[k] \in Patterns /\ found[k].won = 1 /\ found[k].lost = 0
  PROVE  StoreOK(MergeAll(list, found), WithFound(learned, found))
  <1>1. PICK f : Chain(FALSE, list, found, Len(found), f) /\ MergeAll(list, found) = f[Len(found)]
    BY MergesAreAChain
  <1> DEFINE T == {m \in Nat : m <= Len(found) => StoreOK(f[m], FoundUpTo(learned, found, m))}
  <1>2. 0 \in T
    <2>1. f[0] = list
      BY <1>1 DEF Chain
    <2>2. FoundUpTo(learned, found, 0) = learned
      BY KnownCounts, NothingFound
    <2>3. QED
      BY <2>1, <2>2
  <1>3. ASSUME NEW m \in Nat, m \in T PROVE m + 1 \in T
    <2> SUFFICES ASSUME m + 1 <= Len(found) PROVE StoreOK(f[m + 1], FoundUpTo(learned, found, m + 1))
      OBVIOUS
    <2>1. StoreOK(f[m], FoundUpTo(learned, found, m))
      BY <1>3
    <2>2. f[m + 1] = Merge(f[m], found[m + 1])
      BY <1>1 DEF Chain, AddOne
    <2>3. found[m + 1] \in Patterns /\ found[m + 1].won = 1 /\ found[m + 1].lost = 0
      OBVIOUS
    <2>4. FoundUpTo(learned, found, m + 1) = Plus(FoundUpTo(learned, found, m), found[m + 1])
      BY <2>3, KnownCounts, OneMoreFound
    <2>5. StoreOK(Merge(f[m], found[m + 1]), Plus(FoundUpTo(learned, found, m), found[m + 1]))
      BY <2>1, <2>3, PatternAddedOK
    <2>6. QED
      BY <2>2, <2>4, <2>5
  <1> HIDE DEF T
  <1>4. Len(found) \in T
    BY <1>2, <1>3, SetInduction
  <1>5. WithFound(learned, found) = FoundUpTo(learned, found, Len(found))
    BY DEF WithFound, FoundUpTo, Times
  <1>6. QED
    BY <1>1, <1>4, <1>5 DEF T

\* Known of the first seeds.
KnownUpTo(learned, n) ==
  [key \in DOMAIN learned \union {Seeds[k].key : k \in 1 .. n} |->
     IF key \in DOMAIN learned THEN learned[key]
     ELSE LET s == Seeds[CHOOSE k \in DOMAIN Seeds : Seeds[k].key = key]
          IN [won |-> s.won, lost |-> s.lost]]

LEMMA ElementsTyped ==
  ASSUME NEW S, NEW s \in Seq(S)
  PROVE  Len(s) \in Nat /\ DOMAIN s = 1 .. Len(s) /\ \A k \in DOMAIN s : s[k] \in S
  OBVIOUS

LEMMA SeedsTyped ==
  /\ Len(Seeds) \in Nat /\ DOMAIN Seeds = 1 .. Len(Seeds)
  /\ \A k \in DOMAIN Seeds : Seeds[k] \in Patterns
  <1>1. Seeds \in Seq([key : SeedKeys, won : Nat, lost : Nat])
    BY LearnedAssumption DEF SeedKeys
  <1>2. Len(Seeds) \in Nat /\ DOMAIN Seeds = 1 .. Len(Seeds)
        /\ \A k \in DOMAIN Seeds : Seeds[k] \in [key : SeedKeys, won : Nat, lost : Nat]
    BY <1>1, ElementsTyped
  <1>3. QED
    BY <1>2 DEF Patterns, Keys

LEMMA SeedOfKey ==
  ASSUME NEW k \in DOMAIN Seeds
  PROVE  (CHOOSE i \in DOMAIN Seeds : Seeds[i].key = Seeds[k].key) = k
  <1>1. \A j, i \in DOMAIN Seeds : Seeds[j].key = Seeds[i].key => j = i
    BY LearnedAssumption
  <1>2. QED
    BY <1>1, Zenon

\* A seed changes a store only if its key is new.
LEMMA SeedAddedOK ==
  ASSUME NEW list, NEW learned, NEW n \in Nat, n + 1 \in DOMAIN Seeds,
         StoreOK(list, KnownUpTo(learned, n))
  PROVE  StoreOK(AddSeed(list, Seeds[n + 1]), KnownUpTo(learned, n + 1))
  <1> DEFINE s == Seeds[n + 1]
             before == KnownUpTo(learned, n)
             D == DOMAIN learned \union {Seeds[k].key : k \in 1 .. n}
             value(key) == IF key \in DOMAIN learned THEN learned[key]
                           ELSE LET q == Seeds[CHOOSE k \in DOMAIN Seeds : Seeds[k].key = key]
                                IN [won |-> q.won, lost |-> q.lost]
  <1>1. before = [key \in D |-> value(key)]
    BY DEF KnownUpTo
  <1>2. DOMAIN learned \union {Seeds[k].key : k \in 1 .. n + 1} = D \union {s.key}
    OBVIOUS
  <1>3. KnownUpTo(learned, n + 1) = [key \in D \union {s.key} |-> value(key)]
    BY <1>2 DEF KnownUpTo
  <1>4. s \in Patterns
    BY SeedsTyped
  <1>5. D = {list[k].key : k \in DOMAIN list}
    BY <1>1 DEF StoreOK
  <1>6. CASE s.key \in D
    <2>1. D \union {s.key} = D
      BY <1>6
    <2>2. KnownUpTo(learned, n + 1) = before
      BY <1>1, <1>3, <2>1
    <2>3. AddSeed(list, s) = list
      BY <1>5, <1>6 DEF AddSeed
    <2>4. QED
      BY <2>2, <2>3
  <1>7. CASE s.key \notin D
    <2>1. \A k \in DOMAIN list : list[k].key # s.key
      BY <1>5, <1>7
    <2>2. AddSeed(list, s) = Append(list, s)
      BY <2>1 DEF AddSeed
    <2>3. value(s.key) = [won |-> s.won, lost |-> s.lost]
      BY <1>7, SeedOfKey
    <2>4. DOMAIN before = D
      BY <1>1
    <2>5. CountOf(before, s.key) = [won |-> 0, lost |-> 0]
      BY <1>7, <2>4 DEF CountOf
    <2>6. s.won \in Nat /\ s.lost \in Nat
      BY <1>4 DEF Patterns
    <2>7. \A key \in D : before[key] = value(key)
      BY <1>1
    <2> HIDE DEF before, s, D, value
    <2>8. Plus(before, s) =
            [key \in D \union {s.key} |->
               IF key # s.key THEN before[key]
               ELSE [won |-> CountOf(before, key).won + s.won, lost |-> CountOf(before, key).lost + s.lost]]
      BY <2>4 DEF Plus
    <2>9. ASSUME NEW key \in D \union {s.key}
          PROVE  value(key) =
                   IF key # s.key THEN before[key]
                   ELSE [won |-> CountOf(before, key).won + s.won, lost |-> CountOf(before, key).lost + s.lost]
      <3>1. CASE key # s.key
        BY <2>7, <3>1
      <3>2. CASE key = s.key
        <4>1. [won |-> CountOf(before, key).won + s.won, lost |-> CountOf(before, key).lost + s.lost]
                = [won |-> s.won, lost |-> s.lost]
          BY <2>5, <2>6, <3>2
        <4>2. QED
          BY <2>3, <3>2, <4>1
      <3>3. QED
        BY <3>1, <3>2
    <2>10. KnownUpTo(learned, n + 1) = Plus(before, s)
      BY <1>3, <2>8, <2>9
    <2>11. StoreOK(Append(list, s), Plus(before, s))
      BY <1>4, <2>1, AppendedPatternOK DEF before
    <2>12. QED
      BY <2>2, <2>10, <2>11 DEF s
  <1>8. QED
    BY <1>6, <1>7

\* A process starts with what its file has, and the seeds on top of it.
LEMMA SeededOK ==
  ASSUME NEW list, NEW learned, StoreOK(list, learned)
  PROVE  StoreOK(WithSeeds(list), Known(learned))
  <1>1. PICK f : Chain(TRUE, list, Seeds, Len(Seeds), f) /\ WithSeeds(list) = f[Len(Seeds)]
    BY SeedsAreAChain, SeedsTyped
  <1> DEFINE T == {m \in Nat : m <= Len(Seeds) => StoreOK(f[m], KnownUpTo(learned, m))}
  <1>2. 0 \in T
    <2>1. f[0] = list
      BY <1>1, SeedsTyped DEF Chain
    <2>2. {Seeds[k].key : k \in 1 .. 0} = {}
      OBVIOUS
    <2>3. KnownUpTo(learned, 0) = [key \in DOMAIN learned |-> learned[key]]
      BY <2>2 DEF KnownUpTo
    <2>4. KnownUpTo(learned, 0) = learned
      BY <2>3 DEF StoreOK
    <2>5. StoreOK(f[0], KnownUpTo(learned, 0))
      BY <2>1, <2>4
    <2>6. QED
      BY <2>5
  <1>3. ASSUME NEW m \in Nat, m \in T PROVE m + 1 \in T
    <2> SUFFICES ASSUME m + 1 <= Len(Seeds) PROVE StoreOK(f[m + 1], KnownUpTo(learned, m + 1))
      OBVIOUS
    <2>1. StoreOK(f[m], KnownUpTo(learned, m))
      BY <1>3, SeedsTyped
    <2>2. f[m + 1] = AddSeed(f[m], Seeds[m + 1])
      BY <1>1, SeedsTyped DEF Chain, AddOne
    <2>3. m + 1 \in DOMAIN Seeds
      BY SeedsTyped
    <2>4. QED
      BY <2>1, <2>2, <2>3, SeedAddedOK
  <1> HIDE DEF T
  <1>4. Len(Seeds) \in T
    BY <1>2, <1>3, SetInduction, SeedsTyped
  <1>5. Known(learned) = KnownUpTo(learned, Len(Seeds))
    BY SeedsTyped DEF Known, KnownUpTo
  <1>6. QED
    BY <1>1, <1>4, <1>5, SeedsTyped DEF T

PatternInv ==
  /\ StoreOK(patterns, tally)
  /\ offered = <<>> \/ \E key \in DOMAIN tally : offered = <<key>>
  /\ StoreOK(files.patterns.list, IF files.patterns.torn THEN NoTally ELSE kept.tally)
  /\ files = [patterns |-> files.patterns, entries |-> files.entries]
  /\ kept = [tally |-> kept.tally, taught |-> kept.taught]

LEMMA PatternInitOK ==
  ASSUME Init PROVE PatternInv
  <1>1. LearnedInit
    BY DEF Init
  <1>2. StoreOK(patterns, tally)
    BY <1>1, NothingStored, SeededOK DEF LearnedInit
  <1>3. StoreOK(files.patterns.list, IF files.patterns.torn THEN NoTally ELSE kept.tally)
    BY <1>1, NothingStored DEF LearnedInit, Intact
  <1>4. QED
    BY <1>1, <1>2, <1>3 DEF LearnedInit, PatternInv

\* The numbers of a finite set have places, from the first to the last.
LEMMA PlacesAreBijective ==
  ASSUME NEW S \in SUBSET Nat, IsFiniteSet(S)
  PROVE  LET rank == [n \in S |-> Cardinality({m \in S : m < n}) + 1] IN
           /\ rank \in Injection(S, 1 .. Cardinality(S))
           /\ rank \in Surjection(S, 1 .. Cardinality(S))
  <1> DEFINE below(n) == {m \in S : m < n}
             rank == [n \in S |-> Cardinality(below(n)) + 1]
  <1>1. IsFiniteSet(S) /\ Cardinality(S) \in Nat /\ S \subseteq Nat
    BY FS_CardinalityType
  <1>2. ASSUME NEW n \in S PROVE Cardinality(below(n)) \in 0 .. Cardinality(S) - 1
    <2>1. below(n) \in SUBSET (S \ {n})
      BY <1>1
    <2>2. IsFiniteSet(S \ {n}) /\ Cardinality(S \ {n}) = Cardinality(S) - 1
      BY <1>1, FS_RemoveElement
    <2> HIDE DEF below
    <2>3. IsFiniteSet(below(n)) /\ Cardinality(below(n)) <= Cardinality(S) - 1
      BY <2>1, <2>2, FS_Subset
    <2>4. Cardinality(below(n)) \in Nat
      BY <2>3, FS_CardinalityType
    <2>5. QED
      BY <1>1, <2>3, <2>4
  <1>3. ASSUME NEW m \in S, NEW n \in S, m < n
        PROVE  Cardinality(below(m)) < Cardinality(below(n))
    <2>1. below(m) \union {m} \in SUBSET below(n) /\ m \notin below(m)
      <3>1. m \in Nat /\ n \in Nat /\ ~(m < m)
        BY <1>1
      <3>2. \A k \in S : k < m => k < n
        BY <1>1, <1>3, <3>1
      <3>3. QED
        BY <1>3, <3>1, <3>2
    <2>2. below(m) \in SUBSET S /\ below(n) \in SUBSET S
      OBVIOUS
    <2> HIDE DEF below
    <2>3. IsFiniteSet(below(m)) /\ IsFiniteSet(below(n))
      BY <1>1, <2>2, FS_Subset
    <2>4. Cardinality(below(m)) \in Nat /\ Cardinality(below(n)) \in Nat
      BY <2>3, FS_CardinalityType
    <2>5. Cardinality(below(m) \union {m}) = Cardinality(below(m)) + 1
      BY <2>1, <2>3, FS_AddElement
    <2>6. Cardinality(below(m) \union {m}) <= Cardinality(below(n))
      BY <2>1, <2>3, FS_Subset
    <2>7. QED
      BY <2>4, <2>5, <2>6
  <1> HIDE DEF below
  <1>4. \A n \in S : Cardinality(below(n)) \in Nat /\ rank[n] = Cardinality(below(n)) + 1
    BY <1>1, <1>2
  <1>5. rank \in [S -> 1 .. Cardinality(S)]
    BY <1>1, <1>2
  <1> HIDE DEF rank
  <1>6. ASSUME NEW m \in S, NEW n \in S, rank[m] = rank[n] PROVE m = n
    <2>1. ~(m < n) /\ ~(n < m)
      BY <1>3, <1>4, <1>6
    <2>2. QED
      BY <1>1, <2>1
  <1>7. rank \in Injection(S, 1 .. Cardinality(S))
    BY <1>5, <1>6 DEF Injection, IsInjective
  <1>8. IsFiniteSet(1 .. Cardinality(S)) /\ Cardinality(1 .. Cardinality(S)) = Cardinality(S)
    <2>1. /\ IsFiniteSet(1 .. Cardinality(S))
          /\ Cardinality(1 .. Cardinality(S)) =
               IF 1 > Cardinality(S) THEN 0 ELSE Cardinality(S) - 1 + 1
      BY <1>1, FS_Interval
    <2>2. QED
      BY <1>1, <2>1
  <1>9. rank \in Surjection(S, 1 .. Cardinality(S))
    BY <1>7, <1>8, FS_Injection
  <1>10. QED
    BY <1>7, <1>9 DEF rank, below

LEMMA NthExists ==
  ASSUME NEW S \in SUBSET Nat, IsFiniteSet(S), NEW k \in 1 .. Cardinality(S)
  PROVE  \E i \in S : Cardinality({j \in S : j < i}) = k - 1
  <1> DEFINE rank == [i \in S |-> Cardinality({j \in S : j < i}) + 1]
  <1>1. rank \in Surjection(S, 1 .. Cardinality(S))
    BY PlacesAreBijective
  <1>2. PICK i \in S : rank[i] = k
    BY <1>1 DEF Surjection
  <1>3. Cardinality({j \in S : j < i}) \in Nat
    <2>1. {j \in S : j < i} \in SUBSET S
      OBVIOUS
    <2>2. QED
      BY <2>1, FS_Subset, FS_CardinalityType
  <1>4. Cardinality({j \in S : j < i}) + 1 = k
    BY <1>2
  <1>5. \A c \in Nat : c + 1 = k => c = k - 1
    OBVIOUS
  <1>6. Cardinality({j \in S : j < i}) = k - 1
    BY ONLY <1>3, <1>4, <1>5, Zenon
  <1>7. QED
    BY <1>6

\* What a diff teaches: patterns with one success.
LEMMA FoundTyped ==
  ASSUME NEW pair \in ErrorLists, NEW lines
  PROVE  LET found == extract_patterns_from_diff(pair.before, pair.after, lines)
         IN /\ Len(found) \in Nat /\ DOMAIN found = 1 .. Len(found)
            /\ \A k \in 1 .. Len(found) : found[k] \in Patterns /\ found[k].won = 1 /\ found[k].lost = 0
  <1> DEFINE before == pair.before
             near == {i \in Fixed(before, pair.after) : before[i].line \in lines}
             found == extract_patterns_from_diff(before, pair.after, lines)
  <1>1. before \in Seq(Errors)
    BY LearnedAssumption
  <1>2. Len(before) \in Nat /\ DOMAIN before = 1 .. Len(before) /\ \A i \in DOMAIN before : before[i] \in Errors
    BY <1>1, ElementsTyped
  <1>3. near \in SUBSET DOMAIN before
    BY DEF Fixed
  <1>4. found = [n \in 1 .. Cardinality(near) |-> [key |-> Key(before[Nth(near, n)]), won |-> 1, lost |-> 0]]
    BY DEF extract_patterns_from_diff
  <1> HIDE DEF near, found
  <1>5. IsFiniteSet(near)
    <2>1. IsFiniteSet(1 .. Len(before))
      BY <1>2, FS_Interval
    <2>2. QED
      BY <1>2, <1>3, <2>1, FS_Subset
  <1>6. Cardinality(near) \in Nat
    BY <1>5, FS_CardinalityType
  <1>7. DOMAIN found = 1 .. Cardinality(near)
    BY <1>4
  <1>8. Len(found) = Cardinality(near)
    BY <1>6, <1>7
  <1>9. ASSUME NEW k \in 1 .. Cardinality(near) PROVE Nth(near, k) \in DOMAIN before
    <2>1. \E i \in near : Cardinality({j \in near : j < i}) = k - 1
      <3>1. near \in SUBSET Nat
        BY <1>2, <1>3
      <3>2. QED
        BY <1>5, <3>1, NthExists
    <2>2. Nth(near, k) \in near
      BY <2>1 DEF Nth
    <2>3. QED
      BY <1>3, <2>2
  <1>10. ASSUME NEW k \in 1 .. Len(found)
         PROVE  found[k] \in Patterns /\ found[k].won = 1 /\ found[k].lost = 0
    <2>1. found[k] = [key |-> Key(before[Nth(near, k)]), won |-> 1, lost |-> 0]
      BY <1>4, <1>8
    <2>2. before[Nth(near, k)] \in Errors
      BY <1>2, <1>8, <1>9
    <2>3. Key(before[Nth(near, k)]) \in Keys
      BY <2>2 DEF Keys
    <2>4. QED
      BY <2>1, <2>3 DEF Patterns
  <1>11. QED
    BY <1>6, <1>7, <1>8, <1>10 DEF found

\* Of some places in a list of numbers, one has the greatest, and one comes first.
LEMMA GreatestExists ==
  ASSUME NEW n \in Nat, NEW value, \A k \in 1 .. n : value[k] \in Nat,
         NEW B \in SUBSET (1 .. n), B # {}
  PROVE  \E k \in B : \A j \in B : value[k] >= value[j]
  <1> DEFINE Greatest(C) == \E k \in C : \A j \in C : value[k] >= value[j]
             T == {m \in Nat : m <= n => \A C \in SUBSET (1 .. m) : C # {} => Greatest(C)}
  <1>1. 0 \in T
    <2>1. \A C \in SUBSET (1 .. 0) : C = {}
      OBVIOUS
    <2>2. QED
      BY <2>1
  <1>2. ASSUME NEW m \in Nat, m \in T PROVE m + 1 \in T
    <2>1. SUFFICES ASSUME m + 1 <= n, NEW C \in SUBSET (1 .. m + 1), C # {} PROVE Greatest(C)
      OBVIOUS
    <2>2. \A D \in SUBSET (1 .. m) : D # {} => Greatest(D)
      BY <1>2, <2>1
    <2>3. \A k \in C : value[k] \in Nat
      BY <2>1
    <2> DEFINE D == C \ {m + 1}
    <2>4. D \subseteq 1 .. m
      OBVIOUS
    <2>5. CASE m + 1 \notin C
      <3>1. D = C
        BY <2>5
      <3>2. QED
        BY <2>1, <2>2, <2>4, <3>1
    <2>6. CASE D = {}
      <3>1. C = {m + 1}
        BY <2>1, <2>6
      <3>2. QED
        BY <2>3, <3>1
    <2>7. CASE m + 1 \in C /\ D # {}
      <3>1. PICK k \in D : \A j \in D : value[k] >= value[j]
        BY <2>2, <2>4, <2>7
      <3>2. CASE value[k] >= value[m + 1]
        BY <3>1, <3>2
      <3>3. CASE ~(value[k] >= value[m + 1])
        <4>1. \A j \in C : value[m + 1] >= value[j]
          BY <2>3, <2>7, <3>1, <3>3
        <4>2. QED
          BY <2>7, <4>1
      <3>4. QED
        BY <3>2, <3>3
    <2>8. QED
      BY <2>5, <2>6, <2>7
  <1>3. n \in T
    <2> HIDE DEF T
    <2>1. QED
      BY <1>1, <1>2, SetInduction
  <1>4. QED
    BY <1>3

LEMMA FirstExists ==
  ASSUME NEW S \in SUBSET Nat, S # {}
  PROVE  Min(S) \in S
  <1>1. PICK n \in S : \A k \in S : ~(<<k, n>> \in Less)
    BY LessIsWellFounded, WFMin
  <1>2. ASSUME NEW k \in S PROVE n <= k
    <2>1. k \in Nat /\ n \in Nat /\ ~(<<k, n>> \in Less)
      BY <1>1
    <2>2. <<k, n>> \in Less <=> k < n
      BY <2>1 DEF Less
    <2>3. QED
      BY <2>1, <2>2
  <1>3. QED
    BY <1>2 DEF Min

\* A pattern that is offered is one of the store's, whatever else matches the error.
LEMMA OfferedIsKnown ==
  ASSUME StoreOK(patterns, tally), NEW e
  PROVE  find_matching(e) = <<>> \/ \E key \in DOMAIN tally : find_matching(e) = <<key>>
  <1> DEFINE found == {k \in DOMAIN patterns : is_reliable(patterns[k]) /\ matches(patterns[k], e)}
             best == {k \in found : \A j \in found : patterns[k].won >= patterns[j].won}
             won == [k \in DOMAIN patterns |-> patterns[k].won]
  <1>1. CASE found = {}
    BY <1>1 DEF find_matching
  <1>2. CASE found # {}
    <2>1. patterns \in Seq(Patterns)
      BY DEF StoreOK
    <2>2. DOMAIN patterns = 1 .. Len(patterns) /\ Len(patterns) \in Nat
      BY <2>1
    <2>3. \A k \in 1 .. Len(patterns) : patterns[k] \in Patterns
      BY <2>1
    <2>4. \A k \in 1 .. Len(patterns) : won[k] \in Nat
      BY <2>2, <2>3 DEF Patterns
    <2>5. found \in SUBSET (1 .. Len(patterns))
      BY <2>2
    <2>6. \E k \in found : \A j \in found : won[k] >= won[j]
      <3> HIDE DEF found, won
      <3>1. QED
        BY <1>2, <2>2, <2>4, <2>5, GreatestExists
    <2>7. best # {} /\ best \in SUBSET Nat
      <3> HIDE DEF found
      <3>1. \A j \in found : won[j] = patterns[j].won
        BY <2>2, <2>5
      <3> HIDE DEF won
      <3>2. PICK k \in found : \A j \in found : won[k] >= won[j]
        BY <2>6
      <3>3. k \in best
        BY <3>1, <3>2
      <3>4. \A j \in best : j \in Nat
        BY <2>2, <2>5
      <3>5. best \in SUBSET Nat
        BY <3>4
      <3>6. QED
        BY <3>3, <3>5
    <2>8. Min(best) \in best
      <3> HIDE DEF best
      <3>1. QED
        BY <2>7, FirstExists
    <2>9. find_matching(e) = <<patterns[Min(best)].key>>
      BY <1>2 DEF find_matching
    <2>10. patterns[Min(best)].key \in DOMAIN tally
      BY <2>2, <2>5, <2>8 DEF StoreOK
    <2>11. QED
      BY <2>9, <2>10
  <1>3. QED
    BY <1>1, <1>2

\* The outcome of a pattern that was offered is counted for it.
LEMMA RecordOK ==
  ASSUME PatternInv, NEW won \in BOOLEAN, Record(won)
  PROVE  StoreOK(patterns', tally')
  <1>1. PICK key \in DOMAIN tally : offered = <<key>>
    BY DEF PatternInv, Record
  <1>2. offered[1] = key
    BY <1>1
  <1>3. PICK k \in DOMAIN patterns : patterns[k].key = key
    BY DEF PatternInv, StoreOK
  <1>4. Index(key) = {k}
    BY <1>3 DEF Index, PatternInv, StoreOK
  <1>5. k \in Nat
    BY <1>3 DEF PatternInv, StoreOK
  <1>6. Min(Index(offered[1])) = k
    <2>1. Min({k}) = k
      BY <1>5 DEF Min
    <2>2. QED
      BY <1>2, <1>4, <2>1
  <1> DEFINE p == [key |-> key, won |-> IF won THEN 1 ELSE 0, lost |-> IF won THEN 0 ELSE 1]
  <1>7. p \in Patterns
    <2>1. patterns[k] \in Patterns
      BY <1>3 DEF PatternInv, StoreOK
    <2>2. QED
      BY <1>3, <2>1 DEF Patterns
  <1>8. patterns' = Merge(patterns, p)
    <2>1. patterns' = [i \in DOMAIN patterns |->
             IF i # k THEN patterns[i]
             ELSE IF won THEN [patterns[i] EXCEPT !.won = @ + 1]
             ELSE [patterns[i] EXCEPT !.lost = @ + 1]]
      BY <1>6 DEF Record
    <2>2. Merge(patterns, p) = [i \in DOMAIN patterns |->
             IF patterns[i].key = p.key
             THEN [key |-> p.key, won |-> patterns[i].won + p.won, lost |-> patterns[i].lost + p.lost]
             ELSE patterns[i]]
      BY <1>3 DEF Merge
    <2>3. ASSUME NEW i \in DOMAIN patterns
          PROVE  (IF i # k THEN patterns[i]
                  ELSE IF won THEN [patterns[i] EXCEPT !.won = @ + 1]
                  ELSE [patterns[i] EXCEPT !.lost = @ + 1])
                 = (IF patterns[i].key = p.key
                    THEN [key |-> p.key, won |-> patterns[i].won + p.won, lost |-> patterns[i].lost + p.lost]
                    ELSE patterns[i])
      <3>1. patterns[i] \in Patterns
        BY DEF PatternInv, StoreOK
      <3>2. patterns[i].key = p.key <=> i = k
        BY <1>3 DEF PatternInv, StoreOK
      <3>3. CASE i # k
        BY <3>2, <3>3
      <3>4. CASE i = k /\ won
        <4>1. [patterns[i] EXCEPT !.won = @ + 1]
                = [key |-> patterns[i].key, won |-> patterns[i].won + 1, lost |-> patterns[i].lost + 0]
          BY <3>1 DEF Patterns
        <4>2. QED
          BY <3>2, <3>4, <4>1
      <3>5. CASE i = k /\ ~won
        <4>1. [patterns[i] EXCEPT !.lost = @ + 1]
                = [key |-> patterns[i].key, won |-> patterns[i].won + 0, lost |-> patterns[i].lost + 1]
          BY <3>1 DEF Patterns
        <4>2. QED
          BY <3>2, <3>5, <4>1
      <3>6. QED
        BY <3>3, <3>4, <3>5
    <2> HIDE DEF p
    <2>4. [i \in DOMAIN patterns |->
             IF i # k THEN patterns[i]
             ELSE IF won THEN [patterns[i] EXCEPT !.won = @ + 1]
             ELSE [patterns[i] EXCEPT !.lost = @ + 1]]
          = [i \in DOMAIN patterns |->
               IF patterns[i].key = p.key
               THEN [key |-> p.key, won |-> patterns[i].won + p.won, lost |-> patterns[i].lost + p.lost]
               ELSE patterns[i]]
      BY <2>3, Zenon
    <2>5. QED
      BY <2>1, <2>2, <2>4
  <1>9. tally' = Plus(tally, p)
    <2>1. tally' = Tried(tally, key, won)
      BY <1>2 DEF Record
    <2>2. DOMAIN tally \union {key} = DOMAIN tally
      OBVIOUS
    <2>3. Tried(tally, key, won) =
            [i \in DOMAIN tally |->
               IF i # key THEN tally[i]
               ELSE IF won THEN [won |-> tally[i].won + 1, lost |-> tally[i].lost]
               ELSE [won |-> tally[i].won, lost |-> tally[i].lost + 1]]
      BY <2>2 DEF Tried, CountOf
    <2>4. Plus(tally, p) =
            [i \in DOMAIN tally |->
               IF i # key THEN tally[i] ELSE [won |-> tally[i].won + p.won, lost |-> tally[i].lost + p.lost]]
      BY <2>2 DEF Plus, CountOf
    <2>5. tally[key] \in Counts
      BY KnownCounts DEF PatternInv
    <2>6. tally[key].won + 0 = tally[key].won /\ tally[key].lost + 0 = tally[key].lost
      BY <2>5 DEF Counts
    <2>7. QED
      BY <2>1, <2>3, <2>4, <2>6
  <1>10. StoreOK(Merge(patterns, p), Plus(tally, p))
    BY <1>7, PatternAddedOK DEF PatternInv
  <1>11. QED
    BY <1>8, <1>9, <1>10

LEMMA PatternsStay ==
  ASSUME PatternInv, PatternNext PROVE PatternInv'
  <1>1. CASE Learn
    <2>1. PICK pair \in ErrorLists, lines \in SUBSET {e.line : e \in Errors} :
            LET found == extract_patterns_from_diff(pair.before, pair.after, lines)
            IN patterns' = MergeAll(patterns, found) /\ tally' = WithFound(tally, found)
      BY <1>1 DEF Learn
    <2> DEFINE found == extract_patterns_from_diff(pair.before, pair.after, lines)
    <2>2. /\ Len(found) \in Nat /\ DOMAIN found = 1 .. Len(found)
          /\ \A k \in 1 .. Len(found) : found[k] \in Patterns /\ found[k].won = 1 /\ found[k].lost = 0
      BY FoundTyped
    <2>3. patterns' = MergeAll(patterns, found) /\ tally' = WithFound(tally, found)
      BY <2>1
    <2> HIDE DEF found
    <2>4. StoreOK(MergeAll(patterns, found), WithFound(tally, found))
      BY <2>2, AllMergedOK DEF PatternInv
    <2>5. StoreOK(patterns', tally')
      BY <2>3, <2>4
    <2>6. DOMAIN tally \subseteq DOMAIN tally'
      BY <2>3 DEF WithFound
    <2>7. offered' = offered /\ files' = files /\ kept' = kept
      BY <1>1 DEF Learn
    <2>8. QED
      BY <2>5, <2>6, <2>7 DEF PatternInv
  <1>2. CASE Offer
    <2>1. PICK e \in Errors : offered' = find_matching(e)
      BY <1>2 DEF Offer
    <2>2. find_matching(e) = <<>> \/ \E key \in DOMAIN tally : find_matching(e) = <<key>>
      BY OfferedIsKnown DEF PatternInv
    <2>3. patterns' = patterns /\ tally' = tally /\ files' = files /\ kept' = kept
      BY <1>2 DEF Offer
    <2>4. QED
      BY <2>1, <2>2, <2>3 DEF PatternInv
  <1>3. ASSUME NEW won \in BOOLEAN, Record(won) PROVE PatternInv'
    <2>1. StoreOK(patterns', tally')
      BY <1>3, RecordOK
    <2>2. offered' = <<>> /\ files' = files /\ kept' = kept
      BY <1>3 DEF Record
    <2>3. QED
      BY <2>1, <2>2 DEF PatternInv
  <1>4. CASE SavePatterns
    <2>1. patterns' = patterns /\ tally' = tally /\ offered' = offered
      BY <1>4 DEF SavePatterns, patternVars
    <2>2. /\ files' = [patterns |-> Intact(patterns), entries |-> files.entries]
          /\ kept' = [tally |-> tally, taught |-> kept.taught]
      BY <1>4 DEF SavePatterns, PatternInv
    <2>3. QED
      BY <2>1, <2>2 DEF PatternInv, Intact
  <1>5. CASE LoadPatterns
    <2>1. StoreOK(patterns', tally')
      BY <1>5, SeededOK DEF LoadPatterns, PatternInv
    <2>2. offered' = <<>> /\ files' = files /\ kept' = kept
      BY <1>5 DEF LoadPatterns
    <2>3. QED
      BY <2>1, <2>2 DEF PatternInv
  <1>6. CASE TearPatterns
    <2>1. StoreOK(patterns', tally')
      BY <1>6, NothingStored, SeededOK DEF TearPatterns
    <2>2. offered' = <<>> /\ kept' = kept /\ files' = [patterns |-> Torn, entries |-> files.entries]
      BY <1>6 DEF TearPatterns, PatternInv
    <2>3. files'.patterns.torn /\ files'.patterns.list = <<>>
      BY <2>2 DEF Torn
    <2>4. StoreOK(files'.patterns.list, IF files'.patterns.torn THEN NoTally ELSE kept'.tally)
      BY <2>3, NothingStored
    <2>5. /\ files' = [patterns |-> files'.patterns, entries |-> files'.entries]
          /\ kept' = [tally |-> kept'.tally, taught |-> kept'.taught]
      BY <2>2 DEF PatternInv
    <2>6. QED
      BY ONLY <2>1, <2>2, <2>4, <2>5 DEF PatternInv
  <1>7. QED
    <2>1. CASE Record(TRUE)
      BY <1>3, <2>1
    <2>2. CASE Record(FALSE)
      BY <1>3, <2>2
    <2>3. QED
      BY <1>1, <1>2, <1>4, <1>5, <1>6, <2>1, <2>2, Zenon DEF PatternNext

LEMMA MemoryLeavesPatterns ==
  ASSUME PatternInv, MemoryNext PROVE PatternInv'
  <1>1. patterns' = patterns /\ tally' = tally /\ offered' = offered
    BY DEF MemoryNext, AddEntry, ShowSimilar, SaveMemory, LoadMemory, TearMemory, patternVars
  <1>2. /\ files' = [patterns |-> files.patterns, entries |-> files'.entries]
        /\ kept' = [tally |-> kept.tally, taught |-> kept'.taught]
    <2>1. CASE AddEntry \/ ShowSimilar \/ LoadMemory
      BY <2>1 DEF AddEntry, ShowSimilar, LoadMemory, PatternInv
    <2>2. CASE SaveMemory
      BY <2>2 DEF SaveMemory, PatternInv
    <2>3. CASE TearMemory
      BY <2>3 DEF TearMemory, PatternInv
    <2>4. QED
      BY <2>1, <2>2, <2>3 DEF MemoryNext
  <1>3. files'.patterns = files.patterns /\ kept'.tally = kept.tally
    BY <1>2
  <1>4. QED
    BY <1>1, <1>2, <1>3 DEF PatternInv

\* A list without a key twice is as long as it has keys.
LEMMA AsManyAsKeys ==
  ASSUME NEW list, NEW learned, StoreOK(list, learned)
  PROVE  Len(list) = Cardinality(DOMAIN learned)
  <1> DEFINE S == DOMAIN learned
             keys == [k \in 1 .. Len(list) |-> list[k].key]
  <1>1. Len(list) \in Nat /\ DOMAIN list = 1 .. Len(list)
    BY DEF StoreOK
  <1>2. S = {list[k].key : k \in DOMAIN list}
    BY DEF StoreOK
  <1>3. \A j, k \in DOMAIN list : list[j].key = list[k].key => j = k
    BY DEF StoreOK
  <1> HIDE DEF S
  <1>4. keys \in Bijection(1 .. Len(list), S)
    BY <1>1, <1>2, <1>3 DEF Bijection, Injection, Surjection, IsInjective
  <1>5. ExistsBijection(1 .. Len(list), S)
    BY <1>4 DEF ExistsBijection
  <1>6. IsFiniteSet(1 .. Len(list)) /\ Cardinality(1 .. Len(list)) = Len(list)
    <2>1. ASSUME NEW n \in Nat PROVE IsFiniteSet(1 .. n) /\ Cardinality(1 .. n) = n
      BY FS_Interval
    <2>2. QED
      BY <1>1, <2>1
  <1>7. Cardinality(S) = Cardinality(1 .. Len(list))
    BY <1>5, <1>6, FS_Bijection
  <1>8. QED
    BY <1>6, <1>7 DEF S

\* The counts of a pattern are those of the seeds and of all that was learned since,
\* in this process and in the ones whose file was written whole, through every diff,
\* outcome, save, load and torn file (RepairPatternStore).
THEOREM NothingLearnedIsLost == Spec => []LearnedSurvives
  <1>1. Init => PatternInv
    BY PatternInitOK
  <1>2. PatternInv /\ [Next]_serviceVars => PatternInv'
    <2> SUFFICES ASSUME PatternInv, [Next]_serviceVars PROVE PatternInv'
      OBVIOUS
    <2>1. CASE PatternNext
      BY <2>1, PatternsStay
    <2>2. CASE MemoryNext
      BY <2>2, MemoryLeavesPatterns
    <2>3. CASE UNCHANGED learnedVars
      BY <2>3 DEF learnedVars, patternVars, PatternInv
    <2>4. QED
      BY <2>1, <2>2, <2>3
         DEF Next, Choose, InBench, InMcp, InApi, InLearned, InCrate, serviceVars
  <1>3. PatternInv => LearnedSurvives
    <2> SUFFICES ASSUME StoreOK(patterns, tally) PROVE LearnedSurvives
      BY DEF PatternInv
    <2>1. Len(patterns) = Cardinality(DOMAIN tally)
      BY AsManyAsKeys
    <2>2. QED
      BY <2>1 DEF StoreOK, CountsOf, LearnedSurvives
  <1>4. QED
    BY <1>1, <1>2, <1>3, PTL DEF Spec

=============================================================================
