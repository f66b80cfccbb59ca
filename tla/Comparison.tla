----------------------------- MODULE Comparison -----------------------------
(***************************************************************************)
(* The tests that compare a C program with its translation: one run of     *)
(* each (diff_test.rs), a run for each of some inputs (multi_input_test.rs)*)
(* or of generated ones (fuzz_test.rs).  Each run is an execution of       *)
(* ProcessRun; the programs are compiled once, and do as they will.        *)
(*                                                                         *)
(* A program's standard output is a prefix of its text, as long as what it *)
(* wrote.  Inputs are abstracted to their sizes.                           *)
(***************************************************************************)
EXTENDS ProcessRun, Harness

CONSTANTS
  Units,       \* C files: whether there is a main(), its lines (Harness), and
               \* what fuzzing looks for in it
  Texts,       \* pairs of texts that the C and the Rust program print from
  ExactTexts,  \* those of them given to the tests that know no tolerance
  Epsilon,     \* DiffTestOptions.float_tolerance, when there is one
  InputLists,  \* sizes of the inputs of a multi-input test
  Iterations   \* FuzzConfig.iterations

\* A line is its text and, where it parses as f64, a number ("nan" among them):
\* lines with the same text are the same.
Lines == [text : STRING, parsed : BOOLEAN, nan : BOOLEAN, value : Int]

ASSUME ComparisonAssumption ==
  /\ Epsilon \in Nat /\ Iterations \in Nat
  /\ InputLists \subseteq Seq(0 .. Input)

ASSUME TextsAssumption ==
  /\ ExactTexts \subseteq Texts
  /\ Texts \subseteq [c : Seq(Lines), rust : Seq(Lines)]
  /\ \A t \in Texts :
       /\ Len(t.c) >= MaxOutput /\ Len(t.rust) >= MaxOutput
       /\ \A i \in DOMAIN t.c, j \in DOMAIN t.rust :
            t.c[i].text = t.rust[j].text => t.c[i] = t.rust[j]

ASSUME UnitsAssumption ==
  \A u \in Units : u.lines \in Seq(FileLines) /\ u.params \in Seq(STRING)

VARIABLES
  phase,    \* "choose", "compile", "next", "running", "done"
  test,     \* the test: its kind, tolerance, texts, number of inputs, and of a
            \* differential test the unit
  inputs,   \* inputs that are left
  side,     \* whose execution is next, or running
  cResult,  \* what the C program gave, while the Rust program runs
  report,   \* the verdict, executions compared and found to diverge
  truth     \* for the properties: what the programs did, whatever was read

driver == <<phase, test, inputs, side, cResult, report, truth>>
allVars == <<vars, driver>>

-----------------------------------------------------------------------------
(***************************************************************************)
(* Inputs of a fuzz test.                                                  *)
(***************************************************************************)
\* detect_input_mode: arguments before standard input.  The counts are of the
\* conversions that name one (atoi, atol, strtol) and of the formats of scanf.
InputMode(source) ==
  IF source.argv THEN [mode |-> "args", n |-> IF source.atoi > 0 THEN source.atoi ELSE 1]
  ELSE IF source.reads THEN [mode |-> "stdin", n |-> IF source.formats > 0 THEN source.formats ELSE 1]
  ELSE [mode |-> "none", n |-> 0]

\* A line with a part for each hint, of the size of the largest input here.
GeneratedStdin(n) == IF n > 0 /\ Input > 0 THEN 1 ELSE 0

\* The inputs that come first, as sizes of standard input: of arguments there
\* are five (0, 1, -1 and the ends of i32), of lines three (none, 0 and -1).
EdgeCases == [args |-> <<0, 0, 0, 0, 0>>,
              stdin |-> <<0, GeneratedStdin(1), GeneratedStdin(1)>>,
              none |-> <<0>>]

\* generate_fuzz_inputs: then as many random ones as iterations are left.
FuzzInputs(source) ==
  LET m     == InputMode(source)
      edges == EdgeCases[m.mode]
      rest  == IF m.mode = "none" \/ Iterations < Len(edges) THEN 0
               ELSE Iterations - Len(edges)
  IN edges \o [i \in 1 .. rest |-> IF m.mode = "stdin" THEN GeneratedStdin(m.n) ELSE 0]

-----------------------------------------------------------------------------
(***************************************************************************)
(* Comparing two outputs, line by line.                                    *)
(***************************************************************************)
Printed(who, n) == SubSeq(test.texts[who], 1, n)

Distance(a, b) == IF a > b THEN a - b ELSE b - a

\* approximate_match of two lines: (a - b).abs() > eps is false of a NaN.
LinesMatch(a, b) ==
  IF a.parsed /\ b.parsed
  THEN a.nan \/ b.nan \/ Distance(a.value, b.value) <= Epsilon
  ELSE a.text = b.text

ApproximateMatch(a, b) ==
  Len(a) = Len(b) /\ \A i \in DOMAIN a : LinesMatch(a[i], b[i])

StdoutMatches(a, b) == IF test.tolerant THEN ApproximateMatch(a, b) ELSE a = b

Agree(c, rust) ==
  /\ StdoutMatches(Printed("c", c.out), Printed("rust", rust.out))
  /\ c.code = rust.code

-----------------------------------------------------------------------------
NoResult == [out |-> 0, code |-> 0]
NoReport == [verdict |-> "none", run |-> 0, divergent |-> 0]
NoTruth  == [c |-> NoResult, cKilled |-> FALSE, differ |-> 0, skipped |-> 0]
NoTest   == [kind |-> "none", tolerant |-> FALSE, texts |-> <<>>, unit |-> <<>>,
             planned |-> 0]

Setup ==
  /\ Init
  /\ phase = "choose"
  /\ test = NoTest
  /\ inputs = <<>>
  /\ side = "c"
  /\ cResult = NoResult
  /\ report = NoReport
  /\ truth = NoTruth

Finish(verdict) == phase' = "done" /\ report' = [report EXCEPT !.verdict = verdict]

Given(kind, tolerant, t, u, list) ==
  /\ test' = [kind |-> kind, tolerant |-> tolerant, texts |-> t, unit |-> u,
              planned |-> Len(list)]
  /\ inputs' = list

\* validate gives a file without main() a harness, or no test at all.
BeginDiff ==
  /\ phase = "choose"
  /\ \E u \in Units, t \in Texts, tolerant \in BOOLEAN :
       /\ Given("diff", tolerant, t, u, <<0>>)
       /\ IF u.main \/ TestHarness(u).some
          THEN phase' = "compile" /\ report' = report
          ELSE Finish("none")
  /\ UNCHANGED <<vars, side, cResult, truth>>

\* run_diff_test_crate: the translation is a crate, built by cargo.
BeginCrate ==
  /\ phase = "choose"
  /\ \E t \in ExactTexts : Given("crate", FALSE, t, <<>>, <<0>>)
  /\ phase' = "compile"
  /\ UNCHANGED <<vars, side, cResult, report, truth>>

\* Without inputs, one run.
BeginMulti ==
  /\ phase = "choose"
  /\ \E t \in ExactTexts, list \in InputLists :
       Given("multi", FALSE, t, <<>>, IF list = <<>> THEN <<0>> ELSE list)
  /\ phase' = "compile"
  /\ UNCHANGED <<vars, side, cResult, report, truth>>

BeginFuzz ==
  /\ phase = "choose"
  /\ \E u \in Units, t \in ExactTexts : Given("fuzz", FALSE, t, <<>>, FuzzInputs(u))
  /\ phase' = "compile"
  /\ UNCHANGED <<vars, side, cResult, report, truth>>

\* compile_c_exe, compile_rust_exe: each program is accepted, or one is not, or
\* a compiler is not there.
Compile ==
  /\ phase = "compile"
  /\ \/ phase' = "next" /\ report' = report
     \/ Finish("uncompiled")
     \/ Finish("error")
  /\ UNCHANGED <<vars, test, inputs, side, cResult, truth>>

\* The next execution is spawned: ProcessRun begins anew.
Spawn ==
  /\ phase = "next" /\ inputs # <<>>
  /\ phase' = "running"
  /\ pc' = "stdin" /\ stdin' = 0 /\ unsent' = Head(inputs)
  /\ child' = "running" /\ code' = 0 /\ killed' = FALSE
  /\ wrote' = [s \in Streams |-> 0] /\ pipe' = [s \in Streams |-> 0]
  /\ got' = [s \in Streams |-> 0] /\ reader' = [s \in Streams |-> "none"]
  /\ late' = FALSE
  /\ UNCHANGED <<test, inputs, side, cResult, report, truth>>

Execute == phase = "running" /\ Next /\ UNCHANGED driver

\* An execution that fails ends the test (?); fuzzing goes on with the next
\* input (continue).
Fails ==
  /\ truth' = [truth EXCEPT !.skipped = @ + 1]
  /\ side' = "c"
  /\ cResult' = NoResult
  /\ IF test.kind = "fuzz"
     THEN /\ inputs' = Tail(inputs)
          /\ phase' = "next"
          /\ report' = [report EXCEPT !.run = @ + 1]
     ELSE inputs' = inputs /\ Finish("error")
  /\ UNCHANGED <<vars, test>>

\* The program cannot be started: the binary of a crate has another name.
SpawnFails == phase = "next" /\ inputs # <<>> /\ Fails

\* Slip: a program that is not done in time has printed nothing.
TimeoutIsEmpty ==
  /\ phase = "running" /\ pc = "timeout"
  /\ IF side = "c" THEN cResult' = NoResult /\ side' = "rust" /\ inputs' = inputs
                   ELSE cResult' = NoResult /\ side' = "c" /\ inputs' = Tail(inputs)
  /\ phase' = "next"
  /\ truth' = [truth EXCEPT !.skipped = @ + 1]
  /\ UNCHANGED <<vars, test, report>>

\* ToolError::Timeout
TimedOut == phase = "running" /\ pc = "timeout" /\ Fails

Taken  == [out |-> got["stdout"], code |-> code]
Actual == [out |-> wrote["stdout"], code |-> code]

TakeC ==
  /\ phase = "running" /\ pc = "ok" /\ side = "c"
  /\ cResult' = Taken
  /\ truth' = [truth EXCEPT !.c = Actual, !.cKilled = killed]
  /\ side' = "rust"
  /\ phase' = "next"
  /\ UNCHANGED <<vars, test, inputs, report>>

\* For the properties: whether the two programs behaved the same, from what they
\* wrote and how they ended.  A NaN is within any distance of any number.
SameLine(a, b) ==
  \/ a.text = b.text
  \/ test.tolerant /\ a.parsed /\ b.parsed /\ (a.nan \/ b.nan)
  \/ test.tolerant /\ a.parsed /\ b.parsed /\ a.value - b.value \in -Epsilon .. Epsilon

SameBehaviour ==
  /\ ~killed /\ ~truth.cKilled
  /\ truth.c.code = code
  /\ truth.c.out = wrote["stdout"]
  /\ \A i \in 1 .. wrote["stdout"] : SameLine(test.texts.c[i], test.texts.rust[i])

Compared(left) ==
  /\ phase = "running" /\ pc = "ok" /\ side = "rust"
  /\ report' = [report EXCEPT !.run = @ + 1,
                  !.divergent = IF Agree(cResult, Taken) THEN @ ELSE @ + 1]
  /\ truth' = [truth EXCEPT !.differ = IF SameBehaviour THEN @ ELSE @ + 1]
  /\ inputs' = left
  /\ side' = "c" /\ cResult' = NoResult
  /\ phase' = "next"
  /\ UNCHANGED <<vars, test>>

\* Slip: the first divergence ends the test.
CompareFirst == Compared(IF Agree(cResult, Taken) THEN Tail(inputs) ELSE <<>>)

Compare == Compared(Tail(inputs))

\* passed, all_passed
Conclude ==
  /\ phase = "next" /\ inputs = <<>>
  /\ Finish(IF report.divergent = 0 THEN "passed" ELSE "failed")
  /\ UNCHANGED <<vars, test, inputs, side, cResult, truth>>

Begin == BeginDiff \/ BeginCrate \/ BeginMulti \/ BeginFuzz

Drive == Begin \/ Compile \/ Spawn \/ TimedOut \/ TakeC \/ Compare \/ Conclude

ComparisonNext ==
  \/ BeginDiff \/ BeginCrate \/ BeginMulti \/ BeginFuzz
  \/ Compile \/ Spawn \/ SpawnFails \/ Execute
  \/ TimedOut \/ TakeC \/ Compare \/ Conclude

\* As in ProcessRun, and the test goes on.
ComparisonFairness ==
  /\ WF_allVars(Drive)
  /\ WF_allVars(phase = "running" /\ Parent /\ UNCHANGED driver)
  /\ WF_allVars(phase = "running" /\ TimePasses /\ UNCHANGED driver)
  /\ \A s \in Streams : WF_allVars(phase = "running" /\ Reader(s) /\ UNCHANGED driver)

-----------------------------------------------------------------------------
(***************************************************************************)
(* Properties.                                                             *)
(***************************************************************************)
\* A test passes only when, on every input, both programs ended by themselves,
\* in time, with the same exit code and the same whole output (or lines that the
\* tolerance forgives).  Of a fuzz test that is said of the inputs on which both
\* ended in time: the others are passed over (fuzz_test.rs:365, 372), so it may
\* pass with a translation that hangs.
PassedMeansAgreed ==
  report.verdict = "passed" =>
    /\ truth.differ = 0
    /\ test.kind # "fuzz" => truth.skipped = 0

\* A test that ran to its end ran every input, those after a divergence or a
\* failure included, and reports as many divergences as there were.
EveryInputAccounted ==
  report.verdict \in {"passed", "failed"} =>
    /\ report.run = test.planned
    /\ report.divergent = truth.differ

\* The declaration of the function is the first line to name it.
Declared(u) ==
  \E i \in DOMAIN u.lines :
    /\ Names(u.lines[i]) /\ u.lines[i].closed /\ u.lines[i].params = u.params
    /\ \A j \in 1 .. i - 1 : ~Names(u.lines[j])

\* The parameters are read as what they are: generate_test_harness says that it
\* returns None for a pointer to a function (harness_gen.rs:24), but one written
\* int (*f)(int) is an int to it, and ends the list.
ReadWhole(params) == \A p \in DOMAIN params : params[p] \notin {"callback", "array"}

\* The harness of a function whose declaration is the first line to name it, without
\* arrays and such pointers, calls it with as many arguments as it has parameters, and
\* gives every parameter every value in some call.
HarnessTriesEveryValue ==
  LET u == test.unit
      calls == TestHarness(u).calls
  IN test.kind = "diff" /\ ~u.main /\ Declared(u) /\ ReadWhole(u.params) /\ TestHarness(u).some =>
       /\ \A i \in DOMAIN calls : Len(calls[i]) = Len(u.params)
       /\ \A p \in DOMAIN u.params :
            {calls[i][p] : i \in DOMAIN calls}
              = {TestValues(u.params[p])[v] : v \in DOMAIN TestValues(u.params[p])}

(***************************************************************************)
(* The inductive invariant behind the properties, in named parts.          *)
(***************************************************************************)
Kinds == {"none", "diff", "crate", "multi", "fuzz"}
Verdicts == {"none", "passed", "failed", "uncompiled", "error"}
Results == [out : 0 .. MaxOutput, code : Codes \union {0, Crashed}]

\* Types of the variables.
DriverTypeOK ==
  /\ test \in [kind : Kinds, tolerant : BOOLEAN, texts : Texts \union {<<>>},
               unit : Units \union {<<>>}, planned : Nat]
  /\ phase \in {"compile", "next", "running"} => test.texts \in Texts
  /\ test.kind = "diff" => test.unit \in Units
  /\ inputs \in Seq(0 .. Input)
  /\ side \in {"c", "rust"}
  /\ cResult \in Results
  /\ report \in [verdict : Verdicts, run : Nat, divergent : Nat]
  /\ truth \in [c : Results, cKilled : BOOLEAN, differ : Nat, skipped : Nat]

\* While the Rust program is next, or runs, what is held of the C program is what
\* it did, by itself.
PairInv ==
  /\ side = "rust" => cResult = truth.c /\ ~truth.cKilled
  /\ phase \in {"choose", "compile"} => side = "c"
  /\ phase = "running" => inputs # <<>>

\* Every input that is planned was run or is left, and the divergences reported are
\* the differences there were.
AccountInv ==
  /\ phase = "choose" => report = NoReport /\ truth = NoTruth
  /\ phase \in {"compile", "next", "running"} =>
       /\ test.planned = report.run + Len(inputs)
       /\ test.kind # "fuzz" => truth.skipped = 0
  /\ phase # "done" => report.verdict = "none"
  /\ report.divergent = truth.differ

ComparisonInv ==
  /\ IInv /\ DriverTypeOK /\ PairInv /\ AccountInv
  /\ PassedMeansAgreed /\ EveryInputAccounted

\* Every test comes to an end, however the programs behave on every input.
ComparisonTerminates == <>(phase = "done")

=============================================================================
