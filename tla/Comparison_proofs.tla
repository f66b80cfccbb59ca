-------------------------- MODULE Comparison_proofs --------------------------
(***************************************************************************)
(* The invariant of run_exe, for every size of the pipes, of the input and *)
(* of the outputs, and every set of exit codes; and on top of it that of   *)
(* the comparison tests, for every pair of programs, every list of inputs  *)
(* and every tolerance: each execution is one of run_exe, and what the     *)
(* tests say of two programs is true of what these wrote and how they      *)
(* ended.                                                                  *)
(***************************************************************************)
EXTENDS SpecMining, FiniteSetTheorems, WellFoundedInduction, TLAPS

-----------------------------------------------------------------------------
(***************************************************************************)
(* One execution (ProcessRun).                                             *)
(***************************************************************************)
LEMMA InitInvariant == Init => IInv
  <1>1. Init => TypeOK
    <2>1. ASSUME Init
          PROVE  /\ wrote \in [Streams -> 0 .. MaxOutput]
                 /\ pipe \in [Streams -> 0 .. Capacity]
                 /\ got \in [Streams -> Nat]
                 /\ reader \in [Streams -> {"none", "reading", "done"}]
      BY <2>1, ProcessAssumption DEF Init
    <2>2. ASSUME Init
          PROVE  stdin \in 0 .. Capacity /\ unsent \in 0 .. Input
      BY <2>2, ProcessAssumption DEF Init
    <2>3. QED
      BY <2>1, <2>2 DEF Init, TypeOK
  <1>2. Init => Conserved
    BY DEF Init, Conserved
  <1>3. Init => ReadersInv /\ ParentInv
    BY DEF Init, ReadersInv, ParentInv
  <1>4. QED
    BY <1>1, <1>2, <1>3 DEF IInv

LEMMA ChildStep ==
  ASSUME IInv,
         \/ ChildReads
         \/ \E s \in Streams : ChildWrites(s)
         \/ \E c \in Codes \union {Crashed} : ChildEnds(c)
  PROVE  IInv'
  <1>1. CASE ChildReads
    BY <1>1, ProcessAssumption
    DEF ChildReads, program, IInv, TypeOK, Conserved, ReadersInv, ParentInv, Streams
  <1>2. ASSUME NEW s \in Streams, ChildWrites(s) PROVE IInv'
    <2>1. TypeOK'
      BY <1>2, ProcessAssumption DEF ChildWrites, IInv, TypeOK
    <2>2. Conserved'
      BY <1>2 DEF ChildWrites, IInv, TypeOK, Conserved
    <2>3. ReadersInv' /\ ParentInv'
      BY <1>2 DEF ChildWrites, IInv, TypeOK, ReadersInv, ParentInv
    <2>4. QED
      BY <2>1, <2>2, <2>3 DEF IInv
  <1>3. ASSUME NEW c \in Codes \union {Crashed}, ChildEnds(c) PROVE IInv'
    BY <1>3
    DEF ChildEnds, outputs, IInv, TypeOK, Conserved, ReadersInv, ParentInv
  <1>4. QED
    BY <1>1, <1>2, <1>3

LEMMA ParentStep ==
  ASSUME IInv, Parent \/ TimePasses
  PROVE  IInv'
  <1>1. CASE WriteStdin
    BY <1>1, ProcessAssumption
    DEF WriteStdin, program, IInv, TypeOK, Conserved, ReadersInv, ParentInv
  <1>2. CASE StartReaders
    BY <1>2
    DEF StartReaders, program, IInv, TypeOK, Conserved, ReadersInv, ParentInv
  <1>3. CASE TimePasses
    BY <1>3
    DEF TimePasses, program, IInv, TypeOK, Conserved, ReadersInv, ParentInv
  <1>4. CASE TryWait
    BY <1>4
    DEF TryWait, outputs, IInv, TypeOK, Conserved, ReadersInv, ParentInv
  <1>5. CASE CheckTime
    BY <1>5
    DEF CheckTime, program, IInv, TypeOK, Conserved, ReadersInv, ParentInv
  <1>6. CASE Kill
    BY <1>6
    DEF Kill, outputs, IInv, TypeOK, Conserved, ReadersInv, ParentInv
  <1>7. CASE Wait
    BY <1>7
    DEF Wait, outputs, IInv, TypeOK, Conserved, ReadersInv, ParentInv
  <1>8. CASE Join
    BY <1>8
    DEF Join, program, IInv, TypeOK, Conserved, ReadersInv, ParentInv
  <1>9. QED
    BY <1>1, <1>2, <1>3, <1>4, <1>5, <1>6, <1>7, <1>8 DEF Parent

LEMMA ReaderStep ==
  ASSUME IInv, NEW s \in Streams, Reader(s)
  PROVE  IInv'
  <1>1. CASE Reads(s)
    <2>1. TypeOK'
      BY <1>1, ProcessAssumption DEF Reads, program, IInv, TypeOK
    <2>2. Conserved'
      BY <1>1 DEF Reads, program, IInv, TypeOK, Conserved
    <2>3. ReadersInv' /\ ParentInv'
      BY <1>1 DEF Reads, program, IInv, TypeOK, ReadersInv, ParentInv
    <2>4. QED
      BY <2>1, <2>2, <2>3 DEF IInv
  <1>2. CASE EndOfFile(s)
    BY <1>2
    DEF EndOfFile, program, IInv, TypeOK, Conserved, ReadersInv, ParentInv
  <1>3. QED
    BY <1>1, <1>2 DEF Reader

LEMMA NextInvariant == IInv /\ [Next]_vars => IInv'
  <1>1. ASSUME IInv, UNCHANGED vars PROVE IInv'
    BY <1>1
    DEF vars, IInv, TypeOK, Conserved, ReadersInv, ParentInv
  <1>2. ASSUME IInv, Next PROVE IInv'
    BY <1>2, ChildStep, ParentStep, ReaderStep DEF Next, Parent, Reader
  <1>3. QED
    BY <1>1, <1>2

\* The invariant holds of every execution of every program.
THEOREM ProcessInvariance == Spec => []IInv
  BY InitInvariant, NextInvariant, PTL DEF Spec

\* A result holds everything the program wrote (run_exe joins both readers, and
\* a reader ends only when the program has ended and its pipe is empty).
THEOREM CompleteOutputs == Spec => []OutputsComplete
  <1>1. IInv => OutputsComplete
    <2>1. SUFFICES ASSUME IInv, pc = "ok" PROVE got = wrote
      BY DEF OutputsComplete
    <2>2. \A s \in Streams : got[s] = wrote[s]
      BY <2>1 DEF IInv, TypeOK, Conserved, ReadersInv, ParentInv
    <2>3. QED
      BY <2>1, <2>2 DEF IInv, TypeOK
  <1>2. QED
    BY <1>1, ProcessInvariance, PTL

\* A killed program has no result, and only a late one is killed.
THEOREM OwnResult == Spec => []ResultIsTheProgramsOwn
  <1>1. IInv => ResultIsTheProgramsOwn
    BY DEF IInv, ParentInv, ResultIsTheProgramsOwn
  <1>2. QED
    BY <1>1, ProcessInvariance, PTL

\* run_exe returns only when the program has ended and been waited for.
THEOREM NoChildLeft == Spec => []ChildReaped
  <1>1. IInv => ChildReaped
    BY DEF IInv, ParentInv, ChildReaped, Returned
  <1>2. QED
    BY <1>1, ProcessInvariance, PTL

-----------------------------------------------------------------------------
(***************************************************************************)
(* Executions.                                                             *)
(***************************************************************************)
\* The first of the inputs that are left is an input.
LEMMA FirstAndRest ==
  ASSUME NEW S, NEW q \in Seq(S), q # <<>>
  PROVE  Head(q) \in S /\ Tail(q) \in Seq(S) /\ Len(q) = 1 + Len(Tail(q))
  OBVIOUS

LEMMA SpawnedProcess ==
  ASSUME IInv, DriverTypeOK, Spawn
  PROVE  IInv'
  <1>1. unsent' \in 0 .. Input
    <2>1. inputs \in Seq(0 .. Input) /\ inputs # <<>> /\ unsent' = Head(inputs)
      BY DEF Spawn, DriverTypeOK
    <2>2. QED
      BY <2>1, FirstAndRest
  <1>2. TypeOK'
    <2>1. stdin' \in 0 .. Capacity
      BY ProcessAssumption DEF Spawn
    <2>2. /\ wrote' \in [Streams -> 0 .. MaxOutput]
          /\ pipe' \in [Streams -> 0 .. Capacity]
          /\ got' \in [Streams -> Nat]
      BY ProcessAssumption DEF Spawn
    <2>3. /\ pc' = "stdin" /\ child' = "running" /\ code' = 0
          /\ killed' = FALSE /\ late' = FALSE
          /\ reader' \in [Streams -> {"none", "reading", "done"}]
      BY DEF Spawn
    <2>4. QED
      BY <1>1, <2>1, <2>2, <2>3 DEF TypeOK
  <1>3. Conserved'
    BY DEF Spawn, Conserved
  <1>4. ReadersInv' /\ ParentInv'
    BY DEF Spawn, ReadersInv, ParentInv
  <1>5. QED
    BY <1>2, <1>3, <1>4 DEF IInv

LEMMA SameProcess ==
  ASSUME IInv, UNCHANGED vars
  PROVE  IInv'
  BY NextInvariant

\* A result that is taken is what the program wrote, and its own end.
LEMMA TakenIsActual ==
  ASSUME IInv, pc = "ok"
  PROVE  Taken = Actual /\ Actual \in Results /\ ~killed
  <1>1. got["stdout"] = wrote["stdout"]
    BY DEF IInv, TypeOK, Conserved, ReadersInv, ParentInv, Streams
  <1>2. wrote["stdout"] \in 0 .. MaxOutput /\ code \in Codes \union {0, Crashed}
    BY DEF IInv, TypeOK, Streams
  <1>3. ~killed
    BY DEF IInv, ParentInv
  <1>4. QED
    BY <1>1, <1>2, <1>3 DEF Taken, Actual, Results

-----------------------------------------------------------------------------
(***************************************************************************)
(* Comparing.                                                              *)
(***************************************************************************)
LEMMA DistanceWithin ==
  ASSUME NEW a \in Int, NEW b \in Int
  PROVE  Distance(a, b) <= Epsilon <=> a - b \in -Epsilon .. Epsilon
  BY ComparisonAssumption DEF Distance

LEMMA EqualWithin ==
  ASSUME NEW a \in Int
  PROVE  Distance(a, a) <= Epsilon
  BY ComparisonAssumption DEF Distance

\* Two lines match exactly when they are the same or within the tolerance.
LEMMA MatchingLines ==
  ASSUME NEW a \in Lines, NEW b \in Lines, a.text = b.text => a = b, test.tolerant
  PROVE  LinesMatch(a, b) <=> SameLine(a, b)
  <1>1. a.value \in Int /\ b.value \in Int
    BY DEF Lines
  <1>2. Distance(a.value, b.value) <= Epsilon <=> a.value - b.value \in -Epsilon .. Epsilon
    BY <1>1, DistanceWithin
  <1>3. a.text = b.text => Distance(a.value, b.value) <= Epsilon
    BY <1>1, EqualWithin
  <1>4. a.text = b.text => a.parsed = b.parsed
    OBVIOUS
  <1>5. QED
    BY <1>2, <1>3, <1>4 DEF LinesMatch, SameLine

\* The outputs match exactly when they are as long and match line by line.
LEMMA MatchingOutputs ==
  ASSUME NEW n \in 0 .. MaxOutput, NEW k \in 0 .. MaxOutput,
         test.texts \in Texts, test.tolerant \in BOOLEAN
  PROVE  StdoutMatches(Printed("c", n), Printed("rust", k)) <=>
           n = k /\ \A i \in 1 .. k : SameLine(test.texts.c[i], test.texts.rust[i])
  <1> DEFINE c == test.texts.c
             r == test.texts.rust
             pr == Printed("c", n)
             qr == Printed("rust", k)
  <1>1. c \in Seq(Lines) /\ r \in Seq(Lines) /\ Len(c) >= MaxOutput /\ Len(r) >= MaxOutput
    BY TextsAssumption
  <1>2. \A i \in DOMAIN c, j \in DOMAIN r : c[i].text = r[j].text => c[i] = r[j]
    BY TextsAssumption
  <1>3. /\ pr \in Seq(Lines) /\ Len(pr) = n /\ \A i \in 1 .. n : pr[i] = c[i]
        /\ qr \in Seq(Lines) /\ Len(qr) = k /\ \A i \in 1 .. k : qr[i] = r[i]
    BY <1>1, ProcessAssumption DEF Printed
  <1>4. \A i \in 1 .. MaxOutput :
          /\ i \in DOMAIN c /\ i \in DOMAIN r /\ c[i] \in Lines /\ r[i] \in Lines
          /\ c[i].text = r[i].text => c[i] = r[i]
    BY <1>1, <1>2, ProcessAssumption
  <1>5. CASE test.tolerant
    <2>1. \A i \in 1 .. MaxOutput : LinesMatch(c[i], r[i]) <=> SameLine(c[i], r[i])
      BY <1>4, <1>5, MatchingLines
    <2>2. ApproximateMatch(pr, qr) <=> n = k /\ \A i \in 1 .. k : LinesMatch(c[i], r[i])
      BY <1>3 DEF ApproximateMatch
    <2>3. \A i \in 1 .. k : i \in 1 .. MaxOutput
      BY ProcessAssumption
    <2>4. QED
      BY <1>5, <2>1, <2>2, <2>3 DEF StdoutMatches
  <1>6. CASE ~test.tolerant
    <2>1. \A i \in 1 .. k : SameLine(c[i], r[i]) <=> c[i] = r[i]
      BY <1>4, <1>6, ProcessAssumption DEF SameLine
    <2>2. pr = qr <=> n = k /\ \A i \in 1 .. k : c[i] = r[i]
      BY <1>3
    <2>3. QED
      BY <1>6, <2>1, <2>2 DEF StdoutMatches
  <1>7. QED
    BY <1>5, <1>6

\* What the test finds is what the two programs did.
LEMMA AgreementIsTrue ==
  ASSUME IInv, DriverTypeOK, PairInv, phase = "running", pc = "ok", side = "rust"
  PROVE  Agree(cResult, Taken) <=> SameBehaviour
  <1>1. Taken = Actual /\ Actual \in Results /\ ~killed
    BY TakenIsActual
  <1>2. cResult = truth.c /\ ~truth.cKilled /\ truth.c \in Results
    BY DEF PairInv, DriverTypeOK
  <1>3. truth.c.out \in 0 .. MaxOutput /\ wrote["stdout"] \in 0 .. MaxOutput
    BY <1>1, <1>2 DEF Results, Actual
  <1>4. test.texts \in Texts /\ test.tolerant \in BOOLEAN
    BY DEF DriverTypeOK
  <1>5. StdoutMatches(Printed("c", truth.c.out), Printed("rust", wrote["stdout"])) <=>
          /\ truth.c.out = wrote["stdout"]
          /\ \A i \in 1 .. wrote["stdout"] : SameLine(test.texts.c[i], test.texts.rust[i])
    BY <1>3, <1>4, MatchingOutputs
  <1>6. QED
    BY <1>1, <1>2, <1>5 DEF Agree, SameBehaviour, Actual

-----------------------------------------------------------------------------
(***************************************************************************)
(* The inputs of the tests.                                                *)
(***************************************************************************)
LEMMA FuzzInputsAreInputs ==
  ASSUME NEW u
  PROVE  FuzzInputs(u) \in Seq(0 .. Input)
  <1> DEFINE m == InputMode(u)
             edges == EdgeCases[m.mode]
             rest == IF m.mode = "none" \/ Iterations < Len(edges) THEN 0
                     ELSE Iterations - Len(edges)
             random == [i \in 1 .. rest |-> IF m.mode = "stdin" THEN GeneratedStdin(m.n) ELSE 0]
  <1>1. \A n : GeneratedStdin(n) \in 0 .. Input
    BY ProcessAssumption DEF GeneratedStdin
  <1>2. m.mode \in {"args", "stdin", "none"}
    BY DEF InputMode
  <1>3. edges \in Seq(0 .. Input)
    <2>1. 0 \in 0 .. Input
      BY ProcessAssumption
    <2>2. CASE m.mode = "args"
      BY <2>1, <2>2 DEF EdgeCases
    <2>3. CASE m.mode = "stdin"
      BY <1>1, <2>1, <2>3 DEF EdgeCases
    <2>4. CASE m.mode = "none"
      BY <2>1, <2>4 DEF EdgeCases
    <2>5. QED
      BY <1>2, <2>2, <2>3, <2>4
  <1>4. rest \in Nat
    BY <1>3, ComparisonAssumption
  <1>5. random \in Seq(0 .. Input)
    <2>1. \A i \in 1 .. rest : random[i] \in 0 .. Input
      BY <1>1, ProcessAssumption
    <2> HIDE DEF rest
    <2>2. random \in [1 .. rest -> 0 .. Input]
      BY <2>1
    <2>3. QED
      BY <1>4, <2>2
  <1>6. edges \o random \in Seq(0 .. Input)
    <2> HIDE DEF edges, random
    <2>1. QED
      BY <1>3, <1>5
  <1>7. QED
    BY <1>6 DEF FuzzInputs

\* What a test is begun with.
TestGiven ==
  /\ test' \in [kind : Kinds, tolerant : BOOLEAN, texts : Texts \union {<<>>},
               unit : Units \union {<<>>}, planned : Nat]
  /\ test'.texts \in Texts
  /\ test'.kind = "diff" => test'.unit \in Units
  /\ inputs' \in Seq(0 .. Input)
  /\ test'.planned = Len(inputs')

LEMMA GivenFacts ==
  ASSUME NEW kind \in Kinds, NEW tolerant \in BOOLEAN, NEW t \in Texts,
         NEW u \in Units \union {<<>>}, kind = "diff" => u \in Units,
         NEW list \in Seq(0 .. Input), Given(kind, tolerant, t, u, list)
  PROVE  TestGiven
  <1>1. Len(list) \in Nat
    OBVIOUS
  <1>2. t \in Texts \union {<<>>}
    OBVIOUS
  <1>3. test' \in [kind : Kinds, tolerant : BOOLEAN, texts : Texts \union {<<>>},
                  unit : Units \union {<<>>}, planned : Nat]
    BY <1>1, <1>2 DEF Given
  <1>4. inputs' = list /\ test'.planned = Len(list)
    BY DEF Given
  <1>5. test'.texts \in Texts /\ (test'.kind = "diff" => test'.unit \in Units)
    BY DEF Given
  <1>6. QED
    BY <1>3, <1>4, <1>5 DEF TestGiven

LEMMA GivenKeepsInv ==
  ASSUME ComparisonInv, phase = "choose",
         TestGiven, (phase' = "compile" /\ report' = report) \/ Finish("none"),
         UNCHANGED <<vars, side, cResult, truth>>
  PROVE  ComparisonInv'
  <1>1. IInv'
    BY SameProcess DEF ComparisonInv
  <1>2. report.run = 0 /\ report.divergent = 0 /\ report.verdict = "none" /\ truth.skipped = 0
    BY DEF ComparisonInv, AccountInv, NoReport, NoTruth
  <1>3. /\ report'.run = 0 /\ report'.divergent = report.divergent
        /\ report'.verdict = "none" /\ report' \in [verdict : Verdicts, run : Nat, divergent : Nat]
        /\ phase' \in {"compile", "done"}
    BY <1>2 DEF Finish, ComparisonInv, DriverTypeOK, Verdicts
  <1>4. DriverTypeOK'
    BY <1>3 DEF ComparisonInv, DriverTypeOK, TestGiven
  <1>5. PairInv'
    BY <1>3 DEF ComparisonInv, PairInv
  <1>6. AccountInv'
    BY <1>2, <1>3 DEF ComparisonInv, AccountInv, TestGiven
  <1>7. PassedMeansAgreed' /\ EveryInputAccounted'
    BY <1>3 DEF PassedMeansAgreed, EveryInputAccounted
  <1>8. QED
    BY <1>1, <1>4, <1>5, <1>6, <1>7 DEF ComparisonInv

\* A test of one run has one input, none.
LEMMA OneRun == <<0>> \in Seq(0 .. Input)
  BY ProcessAssumption

LEMMA BeginKeepsInv ==
  ASSUME ComparisonInv, BeginDiff \/ BeginCrate \/ BeginMulti \/ BeginFuzz
  PROVE  ComparisonInv'
  <1>1. CASE BeginDiff
    <2>1. PICK u \in Units, t \in Texts, tolerant \in BOOLEAN :
            /\ Given("diff", tolerant, t, u, <<0>>)
            /\ (phase' = "compile" /\ report' = report) \/ Finish("none")
      BY <1>1 DEF BeginDiff
    <2>2. phase = "choose" /\ UNCHANGED <<vars, side, cResult, truth>>
      BY <1>1 DEF BeginDiff
    <2>3. TestGiven
      BY <2>1, OneRun, GivenFacts DEF Kinds
    <2>4. QED
      BY <2>1, <2>2, <2>3, GivenKeepsInv
  <1>2. CASE BeginCrate
    <2>1. PICK t \in Texts : Given("crate", FALSE, t, <<>>, <<0>>)
      BY <1>2, TextsAssumption DEF BeginCrate
    <2>2. /\ phase = "choose" /\ phase' = "compile" /\ report' = report
          /\ UNCHANGED <<vars, side, cResult, truth>>
      BY <1>2 DEF BeginCrate
    <2>3. TestGiven
      BY <2>1, OneRun, GivenFacts DEF Kinds
    <2>4. QED
      BY <2>2, <2>3, GivenKeepsInv
  <1>3. CASE BeginMulti
    <2>1. PICK t \in Texts, list \in InputLists :
            Given("multi", FALSE, t, <<>>, IF list = <<>> THEN <<0>> ELSE list)
      BY <1>3, TextsAssumption DEF BeginMulti
    <2>2. (IF list = <<>> THEN <<0>> ELSE list) \in Seq(0 .. Input)
      BY OneRun, ComparisonAssumption
    <2>3. /\ phase = "choose" /\ phase' = "compile" /\ report' = report
          /\ UNCHANGED <<vars, side, cResult, truth>>
      BY <1>3 DEF BeginMulti
    <2>4. TestGiven
      BY <2>1, <2>2, GivenFacts DEF Kinds
    <2>5. QED
      BY <2>3, <2>4, GivenKeepsInv
  <1>4. CASE BeginFuzz
    <2>1. PICK t \in Texts, u \in Units : Given("fuzz", FALSE, t, <<>>, FuzzInputs(u))
      BY <1>4, TextsAssumption DEF BeginFuzz
    <2>2. FuzzInputs(u) \in Seq(0 .. Input)
      BY FuzzInputsAreInputs
    <2>3. /\ phase = "choose" /\ phase' = "compile" /\ report' = report
          /\ UNCHANGED <<vars, side, cResult, truth>>
      BY <1>4 DEF BeginFuzz
    <2>4. TestGiven
      BY <2>1, <2>2, GivenFacts DEF Kinds
    <2>5. QED
      BY <2>3, <2>4, GivenKeepsInv
  <1>5. QED
    BY <1>1, <1>2, <1>3, <1>4

-----------------------------------------------------------------------------
(***************************************************************************)
(* The steps of a test.                                                    *)
(***************************************************************************)
LEMMA CompileKeepsInv ==
  ASSUME ComparisonInv, Compile
  PROVE  ComparisonInv'
  <1>1. IInv'
    BY SameProcess DEF ComparisonInv, Compile
  <1>2. /\ phase = "compile" /\ phase' \in {"next", "done"}
        /\ UNCHANGED <<test, inputs, side, cResult, truth>>
        /\ report' \in [verdict : Verdicts, run : Nat, divergent : Nat]
        /\ report'.run = report.run /\ report'.divergent = report.divergent
        /\ report'.verdict \notin {"passed", "failed"}
        /\ phase' = "next" => report'.verdict = "none"
    BY DEF Compile, Finish, ComparisonInv, DriverTypeOK, AccountInv, Verdicts
  <1>3. DriverTypeOK' /\ PairInv'
    BY <1>2 DEF ComparisonInv, DriverTypeOK, PairInv
  <1>4. AccountInv'
    BY <1>2 DEF ComparisonInv, AccountInv
  <1>5. PassedMeansAgreed' /\ EveryInputAccounted'
    BY <1>2 DEF PassedMeansAgreed, EveryInputAccounted
  <1>6. QED
    BY <1>1, <1>3, <1>4, <1>5 DEF ComparisonInv

LEMMA SpawnKeepsInv ==
  ASSUME ComparisonInv, Spawn
  PROVE  ComparisonInv'
  <1>1. IInv'
    BY SpawnedProcess DEF ComparisonInv
  <1>2. /\ phase = "next" /\ phase' = "running" /\ inputs # <<>>
        /\ UNCHANGED <<test, inputs, side, cResult, report, truth>>
    BY DEF Spawn
  <1>3. DriverTypeOK' /\ PairInv' /\ AccountInv'
    BY <1>2 DEF ComparisonInv, DriverTypeOK, PairInv, AccountInv
  <1>4. PassedMeansAgreed' /\ EveryInputAccounted'
    BY <1>2 DEF ComparisonInv, PassedMeansAgreed, EveryInputAccounted
  <1>5. QED
    BY <1>1, <1>3, <1>4 DEF ComparisonInv

\* While a program runs the test waits.
LEMMA ExecuteKeepsInv ==
  ASSUME ComparisonInv, Execute
  PROVE  ComparisonInv'
  <1>1. IInv'
    BY NextInvariant DEF ComparisonInv, Execute
  <1>2. UNCHANGED <<phase, test, inputs, side, cResult, report, truth>>
    BY DEF Execute, driver
  <1>3. DriverTypeOK' /\ PairInv' /\ AccountInv'
    BY <1>2 DEF ComparisonInv, DriverTypeOK, PairInv, AccountInv
  <1>4. PassedMeansAgreed' /\ EveryInputAccounted'
    BY <1>2 DEF ComparisonInv, PassedMeansAgreed, EveryInputAccounted
  <1>5. QED
    BY <1>1, <1>3, <1>4 DEF ComparisonInv

LEMMA FailsKeepsInv ==
  ASSUME ComparisonInv, phase \in {"next", "running"}, inputs # <<>>, Fails
  PROVE  ComparisonInv'
  <1>1. IInv'
    BY SameProcess DEF ComparisonInv, Fails
  <1>2. /\ Tail(inputs) \in Seq(0 .. Input) /\ Len(inputs) = 1 + Len(Tail(inputs))
    BY FirstAndRest DEF ComparisonInv, DriverTypeOK
  <1>3. /\ truth' \in [c : Results, cKilled : BOOLEAN, differ : Nat, skipped : Nat]
        /\ truth'.differ = truth.differ
        /\ side' = "c" /\ cResult' = NoResult /\ test' = test
    BY DEF Fails, ComparisonInv, DriverTypeOK
  <1>4. NoResult \in Results
    BY ProcessAssumption DEF NoResult, Results
  <1>5. report.verdict = "none" /\ report.run \in Nat /\ report.divergent = truth.differ
    BY DEF ComparisonInv, AccountInv, DriverTypeOK
  <1>6. CASE test.kind = "fuzz"
    <2>1. /\ inputs' = Tail(inputs) /\ phase' = "next"
          /\ report' = [report EXCEPT !.run = @ + 1]
      BY <1>6 DEF Fails
    <2>2. /\ report' \in [verdict : Verdicts, run : Nat, divergent : Nat]
          /\ report'.run = report.run + 1 /\ report'.verdict = "none"
          /\ report'.divergent = truth.differ
      BY <2>1, <1>5 DEF ComparisonInv, DriverTypeOK
    <2>3. DriverTypeOK'
      BY <1>2, <1>3, <1>4, <2>1, <2>2 DEF ComparisonInv, DriverTypeOK
    <2>4. PairInv'
      BY <1>3, <2>1 DEF PairInv
    <2>5. AccountInv'
      BY <1>2, <1>3, <1>5, <1>6, <2>1, <2>2 DEF ComparisonInv, AccountInv, DriverTypeOK
    <2>6. PassedMeansAgreed' /\ EveryInputAccounted'
      BY <2>2 DEF PassedMeansAgreed, EveryInputAccounted
    <2>7. QED
      BY <1>1, <2>3, <2>4, <2>5, <2>6 DEF ComparisonInv
  <1>7. CASE test.kind # "fuzz"
    <2>1. inputs' = inputs /\ phase' = "done" /\ report' = [report EXCEPT !.verdict = "error"]
      BY <1>7 DEF Fails, Finish
    <2>2. /\ report' \in [verdict : Verdicts, run : Nat, divergent : Nat]
          /\ report'.verdict = "error" /\ report'.divergent = truth.differ
      BY <2>1, <1>5 DEF ComparisonInv, DriverTypeOK, Verdicts
    <2>3. DriverTypeOK'
      BY <1>3, <1>4, <2>1, <2>2 DEF ComparisonInv, DriverTypeOK
    <2>4. PairInv' /\ AccountInv'
      BY <1>3, <2>1, <2>2 DEF PairInv, AccountInv
    <2>5. PassedMeansAgreed' /\ EveryInputAccounted'
      BY <2>2 DEF PassedMeansAgreed, EveryInputAccounted
    <2>6. QED
      BY <1>1, <2>3, <2>4, <2>5 DEF ComparisonInv
  <1>8. QED
    BY <1>6, <1>7

LEMMA TakeCKeepsInv ==
  ASSUME ComparisonInv, TakeC
  PROVE  ComparisonInv'
  <1>1. IInv'
    BY SameProcess DEF ComparisonInv, TakeC
  <1>2. Taken = Actual /\ Actual \in Results /\ ~killed
    BY TakenIsActual DEF ComparisonInv, TakeC
  <1>3. /\ phase = "running" /\ phase' = "next" /\ side' = "rust"
        /\ cResult' = Taken /\ UNCHANGED <<test, inputs, report>>
        /\ truth' = [truth EXCEPT !.c = Actual, !.cKilled = killed]
    BY DEF TakeC
  <1>4. killed \in BOOLEAN
    BY DEF ComparisonInv, IInv, TypeOK
  <1>5. /\ truth' \in [c : Results, cKilled : BOOLEAN, differ : Nat, skipped : Nat]
        /\ truth'.c = Actual /\ truth'.cKilled = killed
        /\ truth'.differ = truth.differ /\ truth'.skipped = truth.skipped
    BY <1>2, <1>3, <1>4 DEF ComparisonInv, DriverTypeOK
  <1>6. DriverTypeOK'
    BY <1>2, <1>3, <1>5 DEF ComparisonInv, DriverTypeOK
  <1>7. PairInv'
    BY <1>2, <1>3, <1>5 DEF PairInv
  <1>8. AccountInv'
    BY <1>3, <1>5 DEF ComparisonInv, AccountInv
  <1>9. PassedMeansAgreed' /\ EveryInputAccounted'
    BY <1>3, <1>5 DEF ComparisonInv, AccountInv, PassedMeansAgreed, EveryInputAccounted
  <1>10. QED
    BY <1>1, <1>6, <1>7, <1>8, <1>9 DEF ComparisonInv

LEMMA CompareKeepsInv ==
  ASSUME ComparisonInv, Compare
  PROVE  ComparisonInv'
  <1>1. IInv'
    BY SameProcess DEF ComparisonInv, Compare, Compared
  <1>2. /\ phase = "running" /\ pc = "ok" /\ side = "rust"
        /\ phase' = "next" /\ inputs' = Tail(inputs) /\ side' = "c"
        /\ cResult' = NoResult /\ test' = test
    BY DEF Compare, Compared
  <1>3. /\ inputs # <<>> /\ Tail(inputs) \in Seq(0 .. Input)
        /\ Len(inputs) = 1 + Len(Tail(inputs))
    BY <1>2, FirstAndRest DEF ComparisonInv, DriverTypeOK, PairInv
  <1>4. Agree(cResult, Taken) <=> SameBehaviour
    BY <1>2, AgreementIsTrue DEF ComparisonInv
  <1>5. /\ report.verdict = "none" /\ report.run \in Nat
        /\ report.divergent = truth.differ /\ truth.differ \in Nat
    BY <1>2 DEF ComparisonInv, AccountInv, DriverTypeOK
  <1>6. PICK d \in {0, 1} :
          /\ report' = [report EXCEPT !.run = @ + 1, !.divergent = @ + d]
          /\ truth' = [truth EXCEPT !.differ = @ + d]
    <2>1. /\ report' = [report EXCEPT !.run = @ + 1,
                        !.divergent = IF Agree(cResult, Taken) THEN @ ELSE @ + 1]
          /\ truth' = [truth EXCEPT !.differ = IF SameBehaviour THEN @ ELSE @ + 1]
      BY DEF Compare, Compared
    <2>2. report.divergent + 0 = report.divergent /\ truth.differ + 0 = truth.differ
      BY <1>5
    <2>3. CASE SameBehaviour
      <3>1. /\ report' = [report EXCEPT !.run = @ + 1, !.divergent = @ + 0]
            /\ truth' = [truth EXCEPT !.differ = @ + 0]
        BY <1>4, <2>1, <2>2, <2>3
      <3>2. QED
        BY <3>1
    <2>4. CASE ~SameBehaviour
      <3>1. /\ report' = [report EXCEPT !.run = @ + 1, !.divergent = @ + 1]
            /\ truth' = [truth EXCEPT !.differ = @ + 1]
        BY <1>4, <2>1, <2>4
      <3>2. QED
        BY <3>1
    <2>5. QED
      BY <2>3, <2>4
  <1>7. /\ report' \in [verdict : Verdicts, run : Nat, divergent : Nat]
        /\ report'.run = report.run + 1 /\ report'.verdict = "none"
        /\ report'.divergent = truth'.differ
        /\ truth' \in [c : Results, cKilled : BOOLEAN, differ : Nat, skipped : Nat]
        /\ truth'.skipped = truth.skipped
    <2>1. /\ report \in [verdict : Verdicts, run : Nat, divergent : Nat]
          /\ truth \in [c : Results, cKilled : BOOLEAN, differ : Nat, skipped : Nat]
      BY DEF ComparisonInv, DriverTypeOK
    <2>2. /\ report.run + 1 \in Nat /\ report.divergent + d \in Nat
          /\ report.divergent + d = truth.differ + d
      BY <1>5
    <2>3. /\ report' \in [verdict : Verdicts, run : Nat, divergent : Nat]
          /\ report'.run = report.run + 1 /\ report'.verdict = "none"
          /\ report'.divergent = report.divergent + d
      BY <1>5, <1>6, <2>1, <2>2
    <2>4. /\ truth' \in [c : Results, cKilled : BOOLEAN, differ : Nat, skipped : Nat]
          /\ truth'.differ = truth.differ + d /\ truth'.skipped = truth.skipped
      BY <1>5, <1>6, <2>1, <2>2
    <2>5. QED
      BY <2>2, <2>3, <2>4
  <1>8. NoResult \in Results
    BY ProcessAssumption DEF NoResult, Results
  <1>9. DriverTypeOK'
    BY <1>2, <1>3, <1>7, <1>8 DEF ComparisonInv, DriverTypeOK
  <1>10. PairInv'
    BY <1>2 DEF PairInv
  <1>11. AccountInv'
    BY <1>2, <1>3, <1>5, <1>7 DEF ComparisonInv, AccountInv, DriverTypeOK
  <1>12. PassedMeansAgreed' /\ EveryInputAccounted'
    BY <1>7 DEF PassedMeansAgreed, EveryInputAccounted
  <1>13. QED
    BY <1>1, <1>9, <1>10, <1>11, <1>12 DEF ComparisonInv

LEMMA ConcludeKeepsInv ==
  ASSUME ComparisonInv, Conclude
  PROVE  ComparisonInv'
  <1>1. IInv'
    BY SameProcess DEF ComparisonInv, Conclude
  <1>2. /\ phase = "next" /\ inputs = <<>> /\ phase' = "done"
        /\ UNCHANGED <<test, inputs, side, cResult, truth>>
        /\ report' = [report EXCEPT !.verdict =
                        IF report.divergent = 0 THEN "passed" ELSE "failed"]
    BY DEF Conclude, Finish
  <1>3. /\ report' \in [verdict : Verdicts, run : Nat, divergent : Nat]
        /\ report'.verdict = "passed" => report.divergent = 0
        /\ report'.run = report.run /\ report'.divergent = report.divergent
    BY <1>2 DEF ComparisonInv, DriverTypeOK, Verdicts
  <1>4. /\ test.planned = report.run /\ report.divergent = truth.differ
        /\ test.kind # "fuzz" => truth.skipped = 0
    <2>1. Len(inputs) = 0
      BY <1>2
    <2>2. QED
      BY <1>2, <2>1 DEF ComparisonInv, AccountInv, DriverTypeOK
  <1>5. DriverTypeOK' /\ PairInv'
    BY <1>2, <1>3 DEF ComparisonInv, DriverTypeOK, PairInv
  <1>6. AccountInv'
    BY <1>2, <1>3, <1>4 DEF AccountInv
  <1>7. PassedMeansAgreed' /\ EveryInputAccounted'
    BY <1>2, <1>3, <1>4 DEF PassedMeansAgreed, EveryInputAccounted
  <1>8. QED
    BY <1>1, <1>5, <1>6, <1>7 DEF ComparisonInv

-----------------------------------------------------------------------------
(***************************************************************************)
(* The test as a whole.                                                    *)
(***************************************************************************)
LEMMA SetupInv == Setup => ComparisonInv
  <1> SUFFICES ASSUME Setup PROVE ComparisonInv
    OBVIOUS
  <1>1. IInv
    BY InitInvariant DEF Setup
  <1>2. NoResult \in Results /\ <<>> \in Seq(0 .. Input)
    BY ProcessAssumption DEF NoResult, Results
  <1>3. test \in [kind : Kinds, tolerant : BOOLEAN, texts : Texts \union {<<>>},
                 unit : Units \union {<<>>}, planned : Nat]
    BY DEF Setup, NoTest, Kinds
  <1>4. report \in [verdict : Verdicts, run : Nat, divergent : Nat]
    BY DEF Setup, NoReport, Verdicts
  <1>5. truth \in [c : Results, cKilled : BOOLEAN, differ : Nat, skipped : Nat]
    BY <1>2 DEF Setup, NoTruth
  <1>6. DriverTypeOK
    BY <1>2, <1>3, <1>4, <1>5 DEF DriverTypeOK, Setup, NoTest
  <1>7. PairInv /\ AccountInv
    BY DEF Setup, PairInv, AccountInv, NoReport, NoTruth
  <1>8. PassedMeansAgreed /\ EveryInputAccounted
    BY DEF Setup, NoReport, PassedMeansAgreed, EveryInputAccounted
  <1>9. QED
    BY <1>1, <1>6, <1>7, <1>8 DEF ComparisonInv

LEMMA ComparisonStep == ComparisonInv /\ [ComparisonNext]_allVars => ComparisonInv'
  <1>1. ASSUME ComparisonInv, UNCHANGED allVars PROVE ComparisonInv'
    <2>1. IInv'
      BY <1>1, SameProcess DEF ComparisonInv, allVars
    <2>2. UNCHANGED <<phase, test, inputs, side, cResult, report, truth>>
      BY <1>1 DEF allVars, driver
    <2>3. DriverTypeOK' /\ PairInv' /\ AccountInv'
      BY <1>1, <2>2 DEF ComparisonInv, DriverTypeOK, PairInv, AccountInv
    <2>4. PassedMeansAgreed' /\ EveryInputAccounted'
      BY <1>1, <2>2 DEF ComparisonInv, PassedMeansAgreed, EveryInputAccounted
    <2>5. QED
      BY <2>1, <2>3, <2>4 DEF ComparisonInv
  <1>2. ASSUME ComparisonInv, SpawnFails PROVE ComparisonInv'
    BY <1>2, FailsKeepsInv DEF SpawnFails
  <1>3. ASSUME ComparisonInv, TimedOut PROVE ComparisonInv'
    BY <1>3, FailsKeepsInv DEF TimedOut, ComparisonInv, PairInv
  <1>4. ASSUME ComparisonInv, ComparisonNext PROVE ComparisonInv'
    BY <1>2, <1>3, <1>4, BeginKeepsInv, CompileKeepsInv, SpawnKeepsInv, ExecuteKeepsInv,
       TakeCKeepsInv, CompareKeepsInv, ConcludeKeepsInv
    DEF ComparisonNext
  <1>5. QED
    BY <1>1, <1>4

-----------------------------------------------------------------------------
(***************************************************************************)
(* The generated main() of a library function.                             *)
(***************************************************************************)
LEMMA LeastIsMin ==
  ASSUME NEW S \in SUBSET Nat, NEW i \in S, \A j \in S : i <= j
  PROVE  Min(S) = i
  <1>1. \E x \in S : \A y \in S : x =< y
    OBVIOUS
  <1>2. Min(S) \in S /\ \A y \in S : Min(S) =< y
    BY <1>1 DEF Min
  <1>3. Min(S) <= i /\ i <= Min(S) /\ Min(S) \in Nat
    BY <1>2
  <1>4. QED
    BY <1>3

Less == {p \in Nat \X Nat : p[1] < p[2]}

LEMMA LeastExists ==
  ASSUME NEW S \in SUBSET Nat, S # {}
  PROVE  Min(S) \in S
  <1>1. IsWellFoundedOn(Less, Nat)
    BY NatLessThanWellFounded DEF OpToRel, Less
  <1>2. PICK n \in S : \A k \in S : ~(<<k, n>> \in Less)
    BY <1>1, WFMin
  <1>3. ASSUME NEW k \in S PROVE n <= k
    <2>1. k \in Nat /\ n \in Nat /\ ~(<<k, n>> \in Less)
      BY <1>2
    <2>2. <<k, n>> \in Less <=> k < n
      BY <2>1 DEF Less
    <2>3. QED
      BY <2>1, <2>2
  <1>4. QED
    BY <1>3, LeastIsMin

\* Where no pointer to a function and no array passes for an integer, the parameters
\* are read as they are declared.
LEMMA ParsedWhole ==
  ASSUME NEW params \in Seq(STRING), ReadWhole(params),
         \A p \in DOMAIN ParsedParams(params) : ParsedParams(params)[p] \notin Unsupported
  PROVE  ParsedParams(params) = params
  <1> DEFINE ends == {p \in DOMAIN params : params[p] \in Callbacks}
  <1>1. DOMAIN params = 1 .. Len(params) /\ Len(params) \in Nat
    OBVIOUS
  <1>2. \A p \in ends : params[p] = "callback2"
    BY DEF ReadWhole, Callbacks
  <1>3. ASSUME ends # {} PROVE FALSE
    <2> DEFINE n == Min(ends)
    <2>1. n \in ends
      <3>1. ends \in SUBSET Nat
        BY <1>1
      <3> HIDE DEF ends
      <3>2. QED
        BY <1>3, <3>1, LeastExists
    <2>2. ParsedParams(params) = [p \in 1 .. n |-> ReadType(params[p])]
      BY <1>3 DEF ParsedParams
    <2>3. n \in 1 .. n /\ params[n] = "callback2"
      BY <1>1, <1>2, <2>1
    <2>4. ParsedParams(params)[n] = "callback2" /\ n \in DOMAIN ParsedParams(params)
      <3> HIDE DEF n
      <3>1. QED
        BY <2>2, <2>3 DEF ReadType
    <2>5. QED
      BY <2>4 DEF Unsupported
  <1>4. ParsedParams(params) = [p \in 1 .. Len(params) |-> ReadType(params[p])]
    BY <1>3 DEF ParsedParams
  <1>5. \A p \in DOMAIN params : ReadType(params[p]) = params[p]
    BY <1>1, <1>3 DEF ReadType, ReadWhole
  <1>6. QED
    BY <1>1, <1>4, <1>5

\* The declaration is found where it is the first line to name the function.
LEMMA DeclarationFound ==
  ASSUME NEW u, u.lines \in Seq(FileLines), Declared(u)
  PROVE  Signature(u.lines) = [found |-> TRUE, params |-> ParsedParams(u.params)]
  <1> DEFINE at == {i \in DOMAIN u.lines : Names(u.lines[i])}
  <1>1. PICK i \in DOMAIN u.lines :
          /\ Names(u.lines[i]) /\ u.lines[i].closed /\ u.lines[i].params = u.params
          /\ \A j \in 1 .. i - 1 : ~Names(u.lines[j])
    BY DEF Declared
  <1>2. DOMAIN u.lines = 1 .. Len(u.lines) /\ Len(u.lines) \in Nat
    OBVIOUS
  <1>3. at \in SUBSET Nat /\ i \in at /\ \A j \in at : i <= j
    BY <1>1, <1>2
  <1>4. Min(at) = i
    BY <1>3, LeastIsMin
  <1>5. QED
    BY <1>1, <1>3, <1>4 DEF Signature

\* A parameter has one, two or four values.
LEMMA ValuesOfType ==
  ASSUME NEW type
  PROVE  /\ Len(TestValues(type)) \in {1, 2, 4}
         /\ DOMAIN TestValues(type) = 1 .. Len(TestValues(type))
  <1>1. CASE type = "string"
    BY <1>1 DEF TestValues
  <1>2. CASE type = "double"
    BY <1>2 DEF TestValues
  <1>3. CASE type = "ints"
    BY <1>3 DEF TestValues
  <1>4. CASE type # "string" /\ type # "double" /\ type # "ints"
    BY <1>4 DEF TestValues
  <1>5. QED
    BY <1>1, <1>2, <1>3, <1>4

LEMMA LongestIsMax ==
  ASSUME NEW S \in SUBSET {1, 2, 4}, NEW k \in S
  PROVE  Max(S) \in S /\ \A j \in S : j <= Max(S)
  <1>1. \E m \in S : \A j \in S : m >= j
    <2>1. CASE 4 \in S
      BY <2>1
    <2>2. CASE 4 \notin S /\ 2 \in S
      BY <2>2
    <2>3. CASE 4 \notin S /\ 2 \notin S
      BY <2>3
    <2>4. QED
      BY <2>1, <2>2, <2>3
  <1>2. QED
    BY <1>1 DEF Max

\* Calls that start a list of values again whenever it ends reach all of it, if
\* there are at least as many calls as values.
LEMMA AllValuesReached ==
  ASSUME NEW len \in {1, 2, 4}, NEW n \in Nat, len <= n
  PROVE  /\ \A i \in 1 .. n : ((i - 1) % len) + 1 \in 1 .. len
         /\ \A v \in 1 .. len : v \in 1 .. n /\ ((v - 1) % len) + 1 = v
  <1>1. CASE len = 1
    BY <1>1
  <1>2. CASE len = 2
    BY <1>2
  <1>3. CASE len = 4
    BY <1>3
  <1>4. QED
    BY <1>1, <1>2, <1>3

LEMMA HarnessCalls ==
  ASSUME NEW params \in Seq(STRING), NEW p \in DOMAIN params
  PROVE  LET given == {Calls(params)[i][p] : i \in DOMAIN Calls(params)}
             values == TestValues(params[p])
         IN given = {values[v] : v \in DOMAIN values}
  <1> DEFINE values == TestValues(params[p])
             len == Len(values)
             lens == {Len(TestValues(params[q])) : q \in DOMAIN params}
             n == Max(lens)
             call(i) == [q \in DOMAIN params |->
                          LET vs == TestValues(params[q])
                          IN vs[((i - 1) % Len(vs)) + 1]]
             calls == [i \in 1 .. n |-> call(i)]
  <1>1. len \in {1, 2, 4} /\ DOMAIN values = 1 .. len
    BY ValuesOfType
  <1>2. lens \in SUBSET {1, 2, 4} /\ len \in lens
    BY ValuesOfType
  <1>3. n \in {1, 2, 4} /\ len <= n
    <2> HIDE DEF lens, len
    <2>1. n \in lens /\ \A j \in lens : j <= n
      BY <1>2, LongestIsMax
    <2>2. QED
      BY <1>2, <2>1
  <1>4. Calls(params) = calls
    <2>1. params # <<>>
      OBVIOUS
    <2>2. QED
      BY <2>1 DEF Calls
  <1>5. \A i \in 1 .. n : calls[i][p] = values[((i - 1) % len) + 1]
    OBVIOUS
  <1>6. DOMAIN calls = 1 .. n
    OBVIOUS
  <1> HIDE DEF calls, values, n, len
  <1>7. /\ \A i \in 1 .. n : ((i - 1) % len) + 1 \in 1 .. len
        /\ \A v \in 1 .. len : v \in 1 .. n /\ ((v - 1) % len) + 1 = v
    BY <1>1, <1>3, AllValuesReached
  <1>8. {calls[i][p] : i \in DOMAIN calls} \subseteq {values[v] : v \in DOMAIN values}
    BY <1>1, <1>5, <1>6, <1>7
  <1>9. \A v \in 1 .. len : calls[v][p] = values[v] /\ v \in DOMAIN calls
    BY <1>5, <1>6, <1>7
  <1>10. {values[v] : v \in DOMAIN values} \subseteq {calls[i][p] : i \in DOMAIN calls}
    BY <1>1, <1>9
  <1>11. {calls[i][p] : i \in DOMAIN calls} = {values[v] : v \in DOMAIN values}
    BY <1>8, <1>10
  <1>12. QED
    BY <1>4, <1>11 DEF values

\* A call has as many arguments as the function has parameters.
LEMMA CallsAreWhole ==
  ASSUME NEW params \in Seq(STRING), NEW i \in DOMAIN Calls(params)
  PROVE  Len(Calls(params)[i]) = Len(params)
  <1>1. CASE params = <<>>
    BY <1>1 DEF Calls
  <1>2. CASE params # <<>>
    <2> DEFINE n == Max({Len(TestValues(params[q])) : q \in DOMAIN params})
               value(k, q) == TestValues(params[q])[((k - 1) % Len(TestValues(params[q]))) + 1]
    <2>1. Calls(params) = [k \in 1 .. n |-> [q \in DOMAIN params |-> value(k, q)]]
      BY <1>2 DEF Calls
    <2>2. DOMAIN params = 1 .. Len(params) /\ Len(params) \in Nat
      OBVIOUS
    <2> HIDE DEF n, value
    <2>3. Calls(params)[i] = [q \in 1 .. Len(params) |-> value(i, q)]
      BY <2>1, <2>2
    <2>4. QED
      BY <2>2, <2>3
  <1>3. QED
    BY <1>1, <1>2

-----------------------------------------------------------------------------
(***************************************************************************)
(* Specification mining.                                                   *)
(***************************************************************************)
\* A sequence that grows by one.
LEMMA Grown ==
  ASSUME NEW S, NEW s \in Seq(S), NEW e \in S
  PROVE  /\ Append(s, e) \in Seq(S)
         /\ DOMAIN Append(s, e) = DOMAIN s \union {Len(s) + 1}
         /\ \A k \in DOMAIN s : Append(s, e)[k] = s[k]
         /\ Append(s, e)[Len(s) + 1] = e
  OBVIOUS

LEMMA Shrunk ==
  ASSUME NEW S, NEW s \in Seq(S), s # <<>>
  PROVE  s[Len(s)] \in S /\ SubSeq(s, 1, Len(s) - 1) \in Seq(S)
  OBVIOUS

LEMMA TestingSetup == MiningSetup => TestingInv
  <1> SUFFICES ASSUME MiningSetup PROVE TestingInv
    OBVIOUS
  <1>1. ComparisonInv
    BY SetupInv DEF MiningSetup
  <1>2. DOMAIN <<>> = {}
    OBVIOUS
  <1>3. MiningTypeOK
    <2>1. \A S : <<>> \in Seq(S) /\ <<>> \in [{} -> S]
      BY <1>2
    <2>2. QED
      BY <1>2, <2>1 DEF MiningSetup, MiningTypeOK
  <1>4. LinesInv
    BY <1>2 DEF MiningSetup, LinesInv
  <1>5. SpecsInv
    BY DEF MiningSetup, SpecsInv
  <1>6. QED
    BY <1>1, <1>3, <1>4, <1>5 DEF TestingInv

\* Mining leaves the comparison alone.
LEMMA ComparisonUntouched ==
  ASSUME ComparisonInv, phase \notin {"compile", "next", "running", "done"},
         UNCHANGED <<vars, test, inputs, side, cResult, report, truth>>,
         phase' \in {"mining", "traced", "done"}
  PROVE  ComparisonInv'
  <1>1. IInv'
    BY SameProcess DEF ComparisonInv
  <1>2. UNCHANGED <<test, inputs, side, cResult, report, truth>>
    OBVIOUS
  <1>3. DriverTypeOK' /\ PairInv' /\ AccountInv'
    BY <1>2 DEF ComparisonInv, DriverTypeOK, PairInv, AccountInv
  <1>4. PassedMeansAgreed' /\ EveryInputAccounted'
    BY <1>2 DEF ComparisonInv, PassedMeansAgreed, EveryInputAccounted
  <1>5. QED
    BY <1>1, <1>3, <1>4 DEF ComparisonInv

\* A comparison leaves what was mined alone, because nothing was.
LEMMA MiningUntouched ==
  ASSUME TestingInv, UNCHANGED mining, phase' = "choose" => phase = "choose",
         phase = "done" => phase' = "done"
  PROVE  MiningTypeOK' /\ LinesInv' /\ SpecsInv'
  <1>1. UNCHANGED <<file, stack, counts, stderr, unterminated, made, translation, specs>>
    BY DEF mining
  <1>2. MiningTypeOK'
    BY <1>1 DEF TestingInv, MiningTypeOK
  <1>3. UNCHANGED <<Wrapped(file), Traces, Traced>> /\ \A i : TracesOf(i)' = TracesOf(i)
    BY <1>1 DEF Wrapped, Traces, Traced, TracesOf, Instrumentable
  <1>4. LinesInv'
    BY <1>1, <1>3 DEF TestingInv, LinesInv, LineOfCall
  <1>5. /\ NothingCompiles' = NothingCompiles
        /\ \A i : Assertions(i)' = Assertions(i)
        /\ \A outcome : Tallied(outcome)' = Tallied(outcome)
    BY <1>1, <1>3 DEF NothingCompiles, Assertions, Returns, Tallied
  <1>6. \A i : LiteralsFit(translation, i)' = LiteralsFit(translation, i)
    BY <1>1, <1>5 DEF LiteralsFit
  <1>7. \A i, a : Ends(translation, i, a)' = Ends(translation, i, a)
    BY <1>1 DEF Ends, Value
  <1>8. \A i : TestResults(translation, i)' = TestResults(translation, i)
    BY <1>5, <1>7 DEF TestResults
  <1>9. Outcomes(translation)' = Outcomes(translation)
    BY <1>3, <1>8 DEF Outcomes
  <1>10. SpecsInv'
    BY <1>1, <1>3, <1>5, <1>6, <1>9 DEF TestingInv, SpecsInv
  <1>11. QED
    BY <1>2, <1>4, <1>10

LEMMA ComparisonLeavesChoose ==
  ASSUME ComparisonNext
  PROVE  phase # "done" /\ phase' # "choose"
  BY DEF ComparisonNext, BeginDiff, BeginCrate, BeginMulti, BeginFuzz, Compile, Spawn, SpawnFails,
         Fails, Execute, TimedOut, TakeC, Compare, Compared, Conclude, Finish, driver

LEMMA BeginMiningOK ==
  ASSUME TestingInv, BeginMining
  PROVE  TestingInv'
  <1>1. PICK functions \in CFiles :
          /\ file' = functions
          /\ counts' = [i \in DOMAIN functions |-> 0]
          /\ phase' \in {"mining", "done"}
    BY DEF BeginMining
  <1>2. /\ phase = "choose"
        /\ UNCHANGED <<vars, test, inputs, side, cResult, report, truth>>
        /\ UNCHANGED <<stack, stderr, unterminated, made, translation, specs>>
    BY DEF BeginMining
  <1>3. ComparisonInv'
    BY <1>1, <1>2, ComparisonUntouched DEF TestingInv
  <1>4. stack = <<>> /\ stderr = <<>> /\ made = <<>> /\ specs = NoSpecs
    BY <1>2 DEF TestingInv, LinesInv, SpecsInv
  <1>5. \A S : <<>> \in Seq(S)
    OBVIOUS
  <1>6. unterminated \in BOOLEAN
    BY DEF TestingInv, MiningTypeOK
  <1>7. MiningTypeOK'
    BY <1>1, <1>2, <1>4, <1>5, <1>6 DEF MiningTypeOK
  <1>8. LinesInv' /\ SpecsInv'
    BY <1>1, <1>2, <1>4 DEF LinesInv, SpecsInv
  <1>9. QED
    BY <1>3, <1>7, <1>8 DEF TestingInv

LEMMA CallOK ==
  ASSUME TestingInv, NEW i \in DOMAIN file, NEW argument \in Values, Call(i, argument)
  PROVE  TestingInv'
  <1> DEFINE call == [fn |-> i, argument |-> argument]
             Stacked == [fn : DOMAIN file, argument : Values]
  <1>1. /\ stack' = Append(stack, call)
        /\ UNCHANGED allVars
        /\ UNCHANGED <<file, counts, stderr, unterminated, made, translation, specs>>
        /\ phase = "mining" /\ phase' = "mining"
    BY DEF Call, allVars, driver
  <1>2. ComparisonInv'
    BY <1>1, ComparisonUntouched DEF TestingInv, allVars, driver
  <1>3. stack \in Seq(Stacked) /\ call \in Stacked
    BY DEF TestingInv, MiningTypeOK
  <1> HIDE DEF call, Stacked
  <1>4. stack' \in Seq(Stacked)
    BY <1>1, <1>3, Grown
  <1>5. MiningTypeOK'
    BY <1>1, <1>4 DEF TestingInv, MiningTypeOK, Stacked
  <1>6. Traces' = Traces /\ \A j : TracesOf(j)' = TracesOf(j)
    BY <1>1 DEF Traces, TracesOf
  <1>7. LinesInv'
    BY <1>1, <1>6 DEF TestingInv, LinesInv, LineOfCall
  <1>8. SpecsInv'
    BY <1>1 DEF TestingInv, SpecsInv
  <1>9. QED
    BY <1>2, <1>5, <1>7, <1>8 DEF TestingInv

LEMMA ReturnOK ==
  ASSUME TestingInv, Return
  PROVE  TestingInv'
  <1>0. PICK i \in DOMAIN file : i = Top.fn
    <2> DEFINE S == [fn : DOMAIN file, argument : Values]
    <2>1. stack \in Seq(S) /\ stack # <<>>
      BY DEF Return, TestingInv, MiningTypeOK
    <2>2. Top \in S
      <3> HIDE DEF S
      <3>1. QED
        BY <2>1, Shrunk DEF Top
    <2>3. QED
      BY <2>2
  <1> DEFINE f == file[i]
             line == TraceLine(i, f)
             call == [fn |-> i, argument |-> Top.argument, result |-> ResultOf(f),
                      line |-> ~unterminated]
             Returned_ == [fn : DOMAIN file, argument : Values, result : Nat, line : BOOLEAN]
             Printed_ == [fn : DOMAIN file, argument : Values \union {Other},
                          result : Nat \union {Other}, index : Nat, readable : BOOLEAN]
  <1>1. /\ phase = "mining" /\ stack # <<>>
        /\ made' = Append(made, call)
        /\ stack' = SubSeq(stack, 1, Len(stack) - 1)
        /\ UNCHANGED allVars /\ UNCHANGED <<file, translation, specs>> /\ phase' = "mining"
    BY <1>0 DEF Return, allVars, driver
  <1>2. ComparisonInv'
    BY <1>1, ComparisonUntouched DEF TestingInv, allVars, driver
  <1>3. /\ i \in DOMAIN file /\ Top.argument \in Values
        /\ stack' \in Seq([fn : DOMAIN file, argument : Values])
    <2> DEFINE S == [fn : DOMAIN file, argument : Values]
    <2>1. stack \in Seq(S)
      BY DEF TestingInv, MiningTypeOK
    <2>2. Top \in S /\ stack' \in Seq(S)
      <3> HIDE DEF S
      <3>1. QED
        BY <1>1, <2>1, Shrunk DEF Top
    <2>3. QED
      BY <2>2
  <1>4. made \in Seq(Returned_) /\ stderr \in Seq(Printed_)
    BY DEF TestingInv, MiningTypeOK
  <1>5. Values \subseteq Nat /\ 0 \in Values
    BY DEF Values
  <1>6. ResultOf(f) \in Nat /\ Seen(f) \in Values
    <2>1. Len(made) \in Nat
      BY <1>4
    <2>2. QED
      BY <1>3, <1>5, <2>1 DEF ResultOf, Seen
  <1>7. counts \in [DOMAIN file -> Nat] /\ unterminated \in BOOLEAN
    BY DEF TestingInv, MiningTypeOK
  <1>8. call \in Returned_
    BY <1>3, <1>6, <1>7
  <1>9. /\ line \in Printed_ /\ line.fn = i
        /\ line.argument = ReadAs(f.params[1], Seen(f)) /\ line.result = ReadAs(f.ret, ResultOf(f))
    <2>1. counts[i] \in Nat
      BY <1>3, <1>7
    <2>2. \A type, v : ReadAs(type, v) \in {v, Other}
      BY DEF ReadAs
    <2>3. /\ ReadAs(f.params[1], Seen(f)) \in Values \union {Other}
          /\ ReadAs(f.ret, ResultOf(f)) \in Nat \union {Other}
      BY <1>6, <2>2
    <2>4. QED
      BY <1>3, <2>1, <2>3 DEF TraceLine
  <1>10. ~unterminated /\ Seen(f) # Awkward /\ ResultOf(f) # Awkward => line.readable
    BY DEF TraceLine
  <1> HIDE DEF line, call, Returned_, Printed_, f
  <1>11. /\ made' \in Seq(Returned_)
         /\ DOMAIN made' = DOMAIN made \union {Len(made) + 1}
         /\ \A k \in DOMAIN made : made'[k] = made[k]
         /\ made'[Len(made) + 1] = call
    BY <1>1, <1>4, <1>8, Grown
  <1>12. f.effect = "pure" => Seen(f) = Top.argument /\ ResultOf(f) = Top.argument
    BY DEF Seen, ResultOf
  <1>13. CASE i \in Wrapped(file)
    <2>1. /\ stderr' = Append(stderr, line)
          /\ counts' = [counts EXCEPT ![i] = @ + 1]
          /\ unterminated' = FALSE
      BY <1>0, <1>13 DEF Return, line, f
    <2>2. /\ stderr' \in Seq(Printed_)
          /\ DOMAIN stderr' = DOMAIN stderr \union {Len(stderr) + 1}
          /\ \A k \in DOMAIN stderr : stderr'[k] = stderr[k]
          /\ stderr'[Len(stderr) + 1] = line
      BY <1>4, <1>9, <2>1, Grown
    <2>3. counts' \in [DOMAIN file -> Nat]
      BY <1>3, <1>7, <2>1
    <2>4. MiningTypeOK'
      BY <1>1, <1>3, <1>11, <2>1, <2>2, <2>3 DEF TestingInv, MiningTypeOK, Returned_, Printed_
    <2>5. Traces \subseteq Traces'
      BY <2>2 DEF Traces
    <2>6. ASSUME NEW k \in DOMAIN stderr', file[stderr'[k].fn].effect = "pure"
          PROVE  \E m \in DOMAIN made' : LineOfCall(stderr'[k], made'[m])
      <3>1. CASE k \in DOMAIN stderr
        <4>1. PICK m \in DOMAIN made : LineOfCall(stderr[k], made[m])
          BY <2>2, <2>6, <3>1 DEF TestingInv, LinesInv
        <4>2. m \in DOMAIN made' /\ made'[m] = made[m] /\ stderr'[k] = stderr[k]
          BY <1>11, <2>2, <3>1, <4>1
        <4>3. QED
          BY <4>1, <4>2
      <3>2. CASE k = Len(stderr) + 1
        <4>1. stderr'[k] = line /\ made'[Len(made) + 1] = call /\ Len(made) + 1 \in DOMAIN made'
          BY <1>11, <2>2, <3>2
        <4>2. f.effect = "pure"
          BY <1>9, <2>6, <4>1 DEF f
        <4>3. LineOfCall(line, call)
          BY <1>9, <1>12, <4>2 DEF LineOfCall, call, f
        <4>4. QED
          BY <4>1, <4>3
      <3>3. QED
        BY <2>2, <3>1, <3>2
    <2>7. ASSUME f.effect = "pure", f.params[1] \notin Addresses, call.argument = 1, call.line
          PROVE  \E j \in Traces' : stderr'[j].fn = i /\ stderr'[j].argument = 1 /\ stderr'[j].result # 0
      <3>1. Top.argument = 1 /\ ~unterminated
        BY <2>7 DEF call
      <3>2. Seen(f) = 1 /\ ResultOf(f) = 1
        BY <1>12, <2>7, <3>1
      <3>3. line.argument = 1 /\ line.result # 0
        BY <1>9, <2>7, <3>2 DEF ReadAs, Escaped, Other
      <3>4. line.readable
        BY <1>10, <3>1, <3>2 DEF Awkward
      <3>5. Len(stderr) + 1 \in Traces'
        BY <2>2, <3>4 DEF Traces
      <3>6. QED
        BY <1>9, <2>2, <3>3, <3>5
    <2>8. ASSUME NEW k \in DOMAIN made', NEW h, h = made'[k].fn,
                 h \in Wrapped(file), file[h].effect = "pure", file[h].params[1] \notin Addresses,
                 made'[k].argument = 1, made'[k].line
          PROVE  \E j \in Traces' : stderr'[j].fn = h /\ stderr'[j].argument = 1 /\ stderr'[j].result # 0
      <3>1. CASE k \in DOMAIN made
        <4>1. PICK j \in Traces : stderr[j].fn = h /\ stderr[j].argument = 1 /\ stderr[j].result # 0
          BY <1>11, <2>8, <3>1 DEF TestingInv, LinesInv
        <4>2. j \in DOMAIN stderr
          BY <4>1 DEF Traces
        <4>3. j \in Traces' /\ stderr'[j] = stderr[j]
          BY <2>2, <2>5, <4>1, <4>2
        <4>4. QED
          BY <4>1, <4>3
      <3>2. CASE k = Len(made) + 1
        <4>1. made'[k] = call /\ call.fn = i
          BY <1>11, <3>2 DEF call
        <4>2. h = i /\ f.effect = "pure" /\ f.params[1] \notin Addresses /\ call.argument = 1 /\ call.line
          BY <2>8, <4>1 DEF f
        <4>3. QED
          BY <2>7, <4>2
      <3>3. QED
        BY <1>11, <3>1, <3>2
    <2>9. LinesInv'
      <3>1. Wrapped(file)' = Wrapped(file) /\ file' = file
        BY <1>1 DEF Wrapped, Instrumentable
      <3>2. phase' # "choose"
        BY <1>1
      <3>3. \A k \in DOMAIN stderr' : file'[stderr'[k].fn].effect = "pure" =>
              \E m \in DOMAIN made' : LineOfCall(stderr[k], made[m])'
        BY <2>6, <3>1 DEF LineOfCall
      <3>4. QED
        BY <2>8, <3>1, <3>2, <3>3 DEF LinesInv
    <2>10. SpecsInv'
      BY <1>1 DEF TestingInv, SpecsInv
    <2>11. QED
      BY <1>2, <2>4, <2>9, <2>10 DEF TestingInv
  <1>14. CASE i \notin Wrapped(file)
    <2>1. UNCHANGED <<stderr, counts, unterminated>>
      BY <1>0, <1>14 DEF Return
    <2>2. MiningTypeOK'
      BY <1>1, <1>3, <1>11, <2>1 DEF TestingInv, MiningTypeOK, Returned_
    <2>3. Traces' = Traces /\ \A j : TracesOf(j)' = TracesOf(j)
      BY <2>1 DEF Traces, TracesOf
    <2>4. made'[Len(made) + 1].fn = i
      BY <1>11 DEF call
    <2>5. LinesInv'
      <3>1. ASSUME NEW k \in DOMAIN stderr, file[stderr[k].fn].effect = "pure"
            PROVE  \E m \in DOMAIN made' : LineOfCall(stderr[k], made'[m])
        <4>1. PICK m \in DOMAIN made : LineOfCall(stderr[k], made[m])
          BY <3>1 DEF TestingInv, LinesInv
        <4>2. m \in DOMAIN made' /\ made'[m] = made[m]
          BY <1>11, <4>1
        <4>3. QED
          BY <4>1, <4>2
      <3>2. \A k \in DOMAIN stderr' : file'[stderr'[k].fn].effect = "pure" =>
              \E m \in DOMAIN made' : LineOfCall(stderr[k], made[m])'
        BY <1>1, <2>1, <3>1 DEF LineOfCall
      <3>3. Wrapped(file)' = Wrapped(file) /\ file' = file /\ phase' # "choose"
        BY <1>1 DEF Wrapped, Instrumentable
      <3>4. \A k \in DOMAIN made' : k \in DOMAIN made \/ made'[k].fn \notin Wrapped(file)
        BY <1>11, <1>14, <2>4
      <3>5. QED
        BY <1>11, <2>1, <2>3, <3>2, <3>3, <3>4 DEF TestingInv, LinesInv
    <2>6. SpecsInv'
      BY <1>1 DEF TestingInv, SpecsInv
    <2>7. QED
      BY <1>2, <2>2, <2>5, <2>6 DEF TestingInv
  <1>15. QED
    BY <1>13, <1>14

LEMMA ValidateOK ==
  ASSUME TestingInv, ValidateSpecs
  PROVE  TestingInv'
  <1>1. /\ phase = "traced" /\ phase' = "done"
        /\ UNCHANGED <<vars, test, inputs, side, cResult, report, truth>>
        /\ UNCHANGED <<file, stack, counts, stderr, unterminated, made>>
    BY DEF ValidateSpecs
  <1>2. ComparisonInv'
    BY <1>1, ComparisonUntouched DEF TestingInv
  <1>3. MiningTypeOK'
    BY <1>1 DEF TestingInv, MiningTypeOK
  <1>4. Traces' = Traces /\ Traced' = Traced /\ \A j : TracesOf(j)' = TracesOf(j)
    BY <1>1 DEF Traces, Traced, TracesOf
  <1>5. LinesInv'
    BY <1>1, <1>4 DEF TestingInv, LinesInv, LineOfCall
  <1>6. specs = NoSpecs
    BY <1>1 DEF TestingInv, SpecsInv
  <1>7. \/ specs' = NoSpecs
        \/ specs' = NothingCompiles /\ \E i \in Traced : ~LiteralsFit(translation', i)
        \/ \E outcome \in Outcomes(translation') : specs' = Tallied(outcome)
    BY <1>6 DEF ValidateSpecs
  <1>8. /\ NothingCompiles' = NothingCompiles
        /\ \A outcome : Tallied(outcome)' = Tallied(outcome)
        /\ \A i : Assertions(i)' = Assertions(i)
    BY <1>1, <1>4 DEF NothingCompiles, Tallied, Assertions, Returns
  <1>9. \A i : LiteralsFit(translation, i)' = LiteralsFit(translation', i)
    BY <1>1, <1>8 DEF LiteralsFit
  <1>10. \A i, a : Ends(translation, i, a)' = Ends(translation', i, a)
    BY <1>1 DEF Ends, Value
  <1>11. \A i : TestResults(translation, i)' = TestResults(translation', i)
    BY <1>8, <1>10 DEF TestResults
  <1>12. Outcomes(translation)' = Outcomes(translation')
    BY <1>4, <1>11 DEF Outcomes
  <1>13. SpecsInv'
    BY <1>1, <1>4, <1>7, <1>8, <1>9, <1>12 DEF SpecsInv
  <1>14. QED
    BY <1>2, <1>3, <1>5, <1>13 DEF TestingInv

LEMMA MiningEndsOK ==
  ASSUME TestingInv, Grumble \/ ProgramEnds \/ MiningFails
  PROVE  TestingInv'
  <1>1. /\ phase = "mining" /\ phase' \in {"mining", "traced", "done"}
        /\ UNCHANGED <<vars, test, inputs, side, cResult, report, truth>>
        /\ UNCHANGED <<file, stack, counts, stderr, made, translation, specs>>
        /\ unterminated' \in {unterminated, TRUE}
    BY DEF Grumble, ProgramEnds, MiningFails, allVars, driver, mining
  <1>2. ComparisonInv'
    BY <1>1, ComparisonUntouched DEF TestingInv
  <1>3. MiningTypeOK'
    BY <1>1 DEF TestingInv, MiningTypeOK
  <1>4. Traces' = Traces /\ \A j : TracesOf(j)' = TracesOf(j)
    BY <1>1 DEF Traces, TracesOf
  <1>5. LinesInv'
    BY <1>1, <1>4 DEF TestingInv, LinesInv, LineOfCall
  <1>6. SpecsInv'
    BY <1>1 DEF TestingInv, SpecsInv
  <1>7. QED
    BY <1>2, <1>3, <1>5, <1>6 DEF TestingInv

LEMMA TestingStep == TestingInv /\ [TestingNext]_TestingVars => TestingInv'
  <1>1. ASSUME TestingInv, ComparisonNext, UNCHANGED mining PROVE TestingInv'
    <2>1. ComparisonInv'
      BY <1>1, ComparisonStep DEF TestingInv
    <2>2. QED
      BY <1>1, <2>1, ComparisonLeavesChoose, MiningUntouched DEF TestingInv
  <1>2. ASSUME TestingInv, UNCHANGED TestingVars PROVE TestingInv'
    <2>1. UNCHANGED allVars /\ UNCHANGED mining /\ phase' = phase
      BY <1>2 DEF TestingVars, allVars, driver
    <2>2. ComparisonInv'
      BY <1>2, <2>1, ComparisonStep DEF TestingInv
    <2>3. QED
      BY <1>2, <2>1, <2>2, MiningUntouched DEF TestingInv
  <1>3. ASSUME TestingInv, MiningNext PROVE TestingInv'
    BY <1>3, BeginMiningOK, CallOK, ReturnOK, ValidateOK, MiningEndsOK DEF MiningNext
  <1>4. QED
    BY <1>1, <1>2, <1>3 DEF TestingNext

-----------------------------------------------------------------------------
(***************************************************************************)
(* The properties.                                                         *)
(***************************************************************************)
\* The inductive invariant holds of every comparison of two programs, and of every
\* mining of specifications.
THEOREM TestingInvariance == TestingSpec => []TestingInv
  BY TestingSetup, TestingStep, PTL DEF TestingSpec

\* Each execution of a comparison is one of run_exe: its result is whole.
THEOREM EveryResultComplete == TestingSpec => []OutputsComplete
  <1>1. TestingInv => OutputsComplete
    <2>1. SUFFICES ASSUME IInv, pc = "ok" PROVE got = wrote
      BY DEF TestingInv, ComparisonInv, OutputsComplete
    <2>2. \A s \in Streams : got[s] = wrote[s]
      BY <2>1 DEF IInv, TypeOK, Conserved, ReadersInv, ParentInv
    <2>3. QED
      BY <2>1, <2>2 DEF IInv, TypeOK
  <1>2. QED
    BY <1>1, TestingInvariance, PTL

\* And no program of a comparison is left behind.
THEOREM EveryChildReaped == TestingSpec => []ChildReaped
  <1>1. TestingInv => ChildReaped
    BY DEF TestingInv, ComparisonInv, IInv, ParentInv, ChildReaped, Returned
  <1>2. QED
    BY <1>1, TestingInvariance, PTL

\* A differential, crate, multi-input or fuzz test passes only if the two programs
\* behaved the same wherever both ended, however their writing, the readers and the
\* clock interleave.
THEOREM PassingIsAgreement == TestingSpec => []PassedMeansAgreed
  <1>1. TestingInv => PassedMeansAgreed
    BY DEF TestingInv, ComparisonInv
  <1>2. QED
    BY <1>1, TestingInvariance, PTL

\* No test ends with a verdict before it has run every input, and it reports as many
\* divergences as there were.
THEOREM InputsAccounted == TestingSpec => []EveryInputAccounted
  <1>1. TestingInv => EveryInputAccounted
    BY DEF TestingInv, ComparisonInv
  <1>2. QED
    BY <1>1, TestingInvariance, PTL

\* The harness of a library function whose declaration is the first line to name
\* it, and whose parameters are no arrays and no pointers to functions written so that
\* they pass for integers, gives each call as many arguments as there are parameters
\* and tries every value of every parameter, for every such function.
THEOREM HarnessIsThorough == TestingSpec => []HarnessTriesEveryValue
  <1>1. TestingInv => HarnessTriesEveryValue
    <2> DEFINE u == test.unit
    <2>1. SUFFICES ASSUME TestingInv, test.kind = "diff", Declared(u), ReadWhole(u.params),
                          TestHarness(u).some
                   PROVE  /\ \A i \in DOMAIN TestHarness(u).calls :
                               Len(TestHarness(u).calls[i]) = Len(u.params)
                          /\ \A p \in DOMAIN u.params :
                               {TestHarness(u).calls[i][p] : i \in DOMAIN TestHarness(u).calls}
                                 = {TestValues(u.params[p])[v] : v \in DOMAIN TestValues(u.params[p])}
      BY DEF HarnessTriesEveryValue
    <2>2. u \in Units
      BY <2>1 DEF TestingInv, ComparisonInv, DriverTypeOK
    <2>3. u.lines \in Seq(FileLines) /\ u.params \in Seq(STRING)
      BY <2>2, UnitsAssumption
    <2>4. Signature(u.lines) = [found |-> TRUE, params |-> ParsedParams(u.params)]
      BY <2>1, <2>3, DeclarationFound
    <2> HIDE DEF u
    <2>5. \A q \in DOMAIN ParsedParams(u.params) : ParsedParams(u.params)[q] \notin Unsupported
      <3>1. CASE \E q \in DOMAIN ParsedParams(u.params) : ParsedParams(u.params)[q] \in Unsupported
        <4>1. TestHarness(u).some = FALSE
          BY <2>4, <3>1 DEF TestHarness, NoHarness
        <4>2. QED
          BY <2>1, <4>1
      <3>2. QED
        BY <3>1
    <2>6. ParsedParams(u.params) = u.params
      BY <2>1, <2>3, <2>5, ParsedWhole
    <2>7. TestHarness(u).calls = Calls(u.params)
      BY <2>4, <2>5, <2>6 DEF TestHarness
    <2>8. \A p \in DOMAIN u.params :
            {Calls(u.params)[i][p] : i \in DOMAIN Calls(u.params)} =
              {TestValues(u.params[p])[v] : v \in DOMAIN TestValues(u.params[p])}
      BY <2>3, HarnessCalls
    <2>9. \A i \in DOMAIN Calls(u.params) : Len(Calls(u.params)[i]) = Len(u.params)
      BY <2>3, CallsAreWhole
    <2>10. ASSUME NEW p \in DOMAIN u.params
           PROVE  {TestHarness(u).calls[i][p] : i \in DOMAIN TestHarness(u).calls} =
                    {TestValues(u.params[p])[v] : v \in DOMAIN TestValues(u.params[p])}
      BY <2>7, <2>8
    <2>11. \A i \in DOMAIN TestHarness(u).calls : Len(TestHarness(u).calls[i]) = Len(u.params)
      BY <2>7, <2>9
    <2>12. QED
      BY <2>10, <2>11
  <1>2. QED
    BY <1>1, TestingInvariance, PTL

\* The number of functions that were traced.
LEMMA TracedAreFinite ==
  ASSUME TestingInv
  PROVE  /\ IsFiniteSet(Traces) /\ Cardinality(Traces) \in Nat
         /\ IsFiniteSet(Traced) /\ Cardinality(Traced) \in Nat
  <1>1. DOMAIN stderr = 1 .. Len(stderr) /\ Len(stderr) \in Nat
    BY DEF TestingInv, MiningTypeOK
  <1>2. IsFiniteSet(1 .. Len(stderr))
    BY <1>1, FS_Interval
  <1>3. Traces \subseteq 1 .. Len(stderr)
    BY <1>1 DEF Traces
  <1>4. IsFiniteSet(Traces)
    BY <1>2, <1>3, FS_Subset
  <1>5. IsFiniteSet(Traced)
    <2> DEFINE of == [k \in Traces |-> stderr[k].fn]
    <2>1. of \in Surjection(Traces, Traced)
      BY DEF Surjection, Traced
    <2>2. QED
      BY <1>4, <2>1, FS_Surjection
  <1>6. QED
    BY <1>4, <1>5, FS_CardinalityType

\* A translation that does the same as the C functions meets every specification
\* that was mined of those that are pure, however calls nest, whatever lines are lost,
\* if no argument and no result was one that JSON reads as another
\* (validate_against_specs).
THEOREM RightIsRight == TestingSpec => []RightTranslationMeetsSpecs
  <1>1. TestingInv => RightTranslationMeetsSpecs
    <2> SUFFICES ASSUME TestingInv, specs # NoSpecs,
                        \A i \in Traced : LiteralsFit(translation, i) /\ translation[i].kind = "right",
                        \A i \in Traced : file[i].effect = "pure",
                        \A k \in DOMAIN made : Survives(made[k])
                 PROVE  specs.failed = 0
      BY DEF RightTranslationMeetsSpecs
    <2>1. PICK outcome \in Outcomes(translation) : specs = Tallied(outcome)
      BY DEF TestingInv, SpecsInv
    <2>2. ASSUME NEW i \in Traced, NEW a \in Assertions(i)
          PROVE  Ends(translation, i, a) = {"ok"}
      <3>1. PICK k \in TracesOf(i) : a = stderr[k]
        BY <2>2 DEF Assertions
      <3>2. k \in DOMAIN stderr /\ stderr[k].fn = i /\ file[i].effect = "pure"
        BY <3>1 DEF TracesOf, Traces
      <3>3. PICK m \in DOMAIN made : LineOfCall(stderr[k], made[m])
        BY <3>2 DEF TestingInv, LinesInv
      <3>4. made[m].argument \in Values
        <4> DEFINE R == [fn : DOMAIN file, argument : Values, result : Nat, line : BOOLEAN]
        <4>1. made \in Seq(R)
          BY DEF TestingInv, MiningTypeOK
        <4>2. made[m] \in R
          <5> HIDE DEF R
          <5>1. QED
            BY <3>3, <4>1
        <4>3. QED
          BY <4>2
      <3>5. a.argument = made[m].argument /\ a.result = made[m].argument
        BY <3>1, <3>2, <3>3 DEF LineOfCall, Survives
      <3>6. a.argument # Other
        BY <3>4, <3>5 DEF Values, Other
      <3>7. translation[i].kind = "right"
        OBVIOUS
      <3>8. Value(translation, i, a.argument) = a.result
        BY <3>5, <3>7 DEF Value
      <3>9. QED
        BY <3>2, <3>6, <3>7, <3>8 DEF Ends
    <2>3. \A i \in Traced : TestResults(translation, i) \subseteq {"ok"}
      BY <2>2 DEF TestResults
    <2>4. \A i \in Traced : outcome[i] # "abort"
      BY <2>1, <2>3 DEF Outcomes
    <2>5. \A i \in Traced : outcome[i] # "FAILED"
      BY <2>1, <2>3, <2>4 DEF Outcomes
    <2>6. {i \in Traced : outcome[i] = "FAILED"} = {}
      BY <2>5
    <2>7. specs.failed = Cardinality({})
      BY <2>1, <2>6 DEF Tallied
    <2>8. QED
      BY <2>7, FS_EmptySet
  <1>2. QED
    BY <1>1, TestingInvariance, PTL

\* A translation that goes wrong on an argument of a call that was traced fails a
\* specification, whatever calls and lines came in between, if no test may end the
\* program of the tests.
THEOREM WrongIsCaught == TestingSpec => []WrongTranslationCaught
  <1>1. TestingInv => WrongTranslationCaught
    <2> SUFFICES ASSUME TestingInv, specs # NoSpecs, NEW k \in DOMAIN made,
                        made[k].fn \in Wrapped(file), Returns(made[k].fn),
                        file[made[k].fn].effect = "pure",
                        file[made[k].fn].params[1] \notin Addresses,
                        made[k].argument = 1, made[k].line, translation[made[k].fn].kind = "wrong",
                        \A h \in Traced : "abort" \notin TestResults(translation, h)
                 PROVE  specs.failed > 0
      BY DEF WrongTranslationCaught
    <2> DEFINE i == made[k].fn
    <2>1. PICK j \in Traces : stderr[j].fn = i /\ stderr[j].argument = 1 /\ stderr[j].result # 0
      BY DEF TestingInv, LinesInv
    <2>2. i \in Traced /\ stderr[j] \in Assertions(i)
      BY <2>1 DEF TracesOf, Traced, Assertions
    <2>3. "ok" \notin TestResults(translation, i)
      <3>1. Value(translation, i, stderr[j].argument) = 0
        BY <2>1 DEF Value
      <3>2. file[i].effect # "counts" /\ stderr[j].argument # Other
        BY <2>1 DEF Other
      <3>3. Ends(translation, i, stderr[j]) = {"FAILED"}
        BY <2>1, <3>1, <3>2 DEF Ends
      <3>4. QED
        BY <2>2, <3>3 DEF TestResults
    <2>4. CASE specs = NothingCompiles
      <3>1. Cardinality(Traces) # 0
        BY <2>2, TracedAreFinite, FS_EmptySet
      <3>2. QED
        BY <2>4, <3>1, TracedAreFinite DEF NothingCompiles
    <2>5. ASSUME NEW outcome \in Outcomes(translation), specs = Tallied(outcome)
          PROVE  specs.failed > 0
      <3> DEFINE failed == {h \in Traced : outcome[h] = "FAILED"}
      <3>1. \A h \in Traced : outcome[h] # "abort"
        BY <2>5 DEF Outcomes
      <3>2. outcome[i] \in TestResults(translation, i)
        BY <2>2, <2>5, <3>1 DEF Outcomes
      <3>3. outcome[i] = "FAILED"
        BY <2>2, <2>3, <3>2 DEF TestResults
      <3>4. i \in failed /\ failed \subseteq Traced
        BY <2>2, <3>3
      <3>5. IsFiniteSet(failed)
        BY <3>4, TracedAreFinite, FS_Subset
      <3>6. Cardinality(failed) \in Nat /\ Cardinality(failed) # 0
        BY <3>4, <3>5, FS_CardinalityType, FS_EmptySet
      <3>7. specs.failed = Cardinality(failed)
        BY <2>5 DEF Tallied
      <3>8. QED
        BY <3>6, <3>7
    <2>6. QED
      BY <2>4, <2>5 DEF TestingInv, SpecsInv
  <1>2. QED
    BY <1>1, TestingInvariance, PTL

=============================================================================
