----------------------------- MODULE SpecMining -----------------------------
(***************************************************************************)
(* Specifications mined from a run of the C program and put to its         *)
(* translation (noricum-tools/src/spec_mining.rs): functions are renamed   *)
(* and wrapped, each wrapper prints a trace line when its call returns, and*)
(* the lines become assertions about the translated functions.             *)
(*                                                                         *)
(* The run and the test run are executions of ProcessRun, of which their   *)
(* results are taken here.  A function has one argument.  It is a record:  *)
(*   name, params, ret   types as find_instrumentable_functions tells them *)
(*   pattern   "definition", "prototype" or "none": what the first text    *)
(*             `ret name(` of the file is                                  *)
(*   effect    "pure": it returns what its argument determines; "writes":  *)
(*             so, and it changes the text its argument points to;         *)
(*             "counts": it returns how many calls were made so far        *)
(***************************************************************************)
EXTENDS Comparison

CONSTANTS
  CFiles,     \* files: sequences of functions, main left out
  MaxCalls,   \* bound on the calls of a run
  MaxDepth    \* bound on how deep they nest

ASSUME MiningAssumption ==
  /\ MaxCalls \in Nat /\ MaxDepth \in Nat
  /\ \A functions \in CFiles : functions \in Seq(
       [name : STRING, params : Seq(STRING), ret : STRING,
        pattern : {"definition", "prototype", "none"}, effect : {"pure", "writes", "counts"}])

\* Arguments and results.  Texts are printed into JSON as they are: 2 is one that no
\* JSON string can hold (it has a quote, or a line feed), 3 one that is read as another
\* text: it has a backslash escape, or is NULL, which is written "(null)".  The unsigned
\* number 2 is beyond i32 and printed negative by %d.
Values == 0 .. 3
Awkward == 2
Escaped == 3

\* What was not the argument, or the result, of the call.
Other == -1

VARIABLES
  file,          \* the file that is mined
  stack,         \* calls that have not returned: function and argument
  counts,        \* calls a wrapper has counted (static int)
  stderr,        \* the trace lines
  unterminated,  \* the program wrote to stderr without ending the line
  made,          \* for the properties: the calls that returned, in that order
  translation,   \* of each function: "right", or for 1 "wrong" or "aborts", and
                 \* whether the literals of its assertions fit its types
  specs          \* the result

mining == <<file, stack, counts, stderr, unterminated, made, translation, specs>>

-----------------------------------------------------------------------------
(***************************************************************************)
(* Instrumentation.                                                        *)
(***************************************************************************)
ScalarTypes  == {"int", "unsigned", "uint32_t", "double"}
TextTypes    == {"const char*", "char*"}
PointerTypes == {"int*"}   \* to a scalar
Addresses    == PointerTypes \union {"void*", "FILE*"}

Traceable == ScalarTypes \union TextTypes \union PointerTypes

\* check_instrumentable: of other parameters there are void*, structs, function
\* pointers, FILE*, variable arguments and names of the file's own; a pointer of any kind may be returned.
Instrumentable(f) ==
  /\ \A p \in DOMAIN f.params : f.params[p] \in Traceable
  /\ f.ret \in {"void"} \union Traceable \union Addresses

\* A function whose text `ret name(` is not found is left as it is.
Wrapped(functions) ==
  {i \in DOMAIN functions : Instrumentable(functions[i]) /\ functions[i].pattern # "none"}

\* What is renamed is the first such text: of a function with a prototype that
\* is the prototype, and its definition meets the wrapper's.  The declarations of
\* the wrappers stand before the includes of the file.
InstrumentedCompiles(functions) ==
  \A i \in Wrapped(functions) :
    /\ functions[i].pattern = "definition"
    /\ \A p \in DOMAIN functions[i].params : functions[i].params[p] # "uint32_t"
    /\ functions[i].ret # "uint32_t"

-----------------------------------------------------------------------------
NoSpecs == [total |-> 0, passed |-> 0, failed |-> 0]

MiningSetup ==
  /\ Setup
  /\ file = <<>>
  /\ stack = <<>>
  /\ counts = <<>>
  /\ stderr = <<>>
  /\ unterminated = FALSE
  /\ made = <<>>
  /\ translation = <<>>
  /\ specs = NoSpecs

\* mine_specs: without functions to wrap, or when what was written is not C,
\* there are no traces.
BeginMining ==
  /\ phase = "choose"
  /\ \E functions \in CFiles :
       /\ file' = functions
       /\ counts' = [i \in DOMAIN functions |-> 0]
       /\ phase' = IF Wrapped(functions) # {} /\ InstrumentedCompiles(functions)
                   THEN "mining" ELSE "done"
  /\ UNCHANGED <<vars, test, inputs, side, cResult, report, truth,
                 stack, stderr, unterminated, made, translation, specs>>

\* main, or the function that runs, calls function i.
Call(i, argument) ==
  /\ phase = "mining"
  /\ Len(stack) < MaxDepth
  /\ Len(made) + Len(stack) < MaxCalls
  /\ stack' = Append(stack, [fn |-> i, argument |-> argument])
  /\ UNCHANGED <<allVars, file, counts, stderr, unterminated, made, translation, specs>>

\* The program's own message, without a newline.
Grumble ==
  /\ phase = "mining"
  /\ unterminated' = TRUE
  /\ UNCHANGED <<allVars, file, stack, counts, stderr, made, translation, specs>>

Top == stack[Len(stack)]
ResultOf(f) == IF f.effect = "counts" THEN Len(made) ELSE Top.argument

\* An argument is printed as it is when the call has returned.
Seen(f) ==
  IF f.effect = "writes" /\ f.params[1] = "char*" THEN 0 ELSE Top.argument

IsText(type) == type \in TextTypes

\* trace_format_spec, and what serde_json makes of it: a pointer that is no text is
\* printed as a number.
ReadAs(type, v) ==
  IF type \in Addresses \/ (IsText(type) /\ v = Escaped) THEN Other ELSE v

TraceLine(i, f) ==
  [fn |-> i, argument |-> ReadAs(f.params[1], Seen(f)), result |-> ReadAs(f.ret, ResultOf(f)),
   index |-> counts[i],
   readable |-> /\ ~unterminated
                /\ ~(IsText(f.params[1]) /\ Seen(f) = Awkward)
                /\ ~(IsText(f.ret) /\ ResultOf(f) = Awkward)]

\* The call returns; its wrapper, if it has one, prints the trace line, which
\* ends whatever line was begun.
Return ==
  /\ phase = "mining"
  /\ stack # <<>>
  /\ LET i == Top.fn
         f == file[i]
     IN /\ made' = Append(made, [fn |-> i, argument |-> Top.argument,
                                 result |-> ResultOf(f), line |-> ~unterminated])
        /\ IF i \in Wrapped(file)
           THEN /\ stderr' = Append(stderr, TraceLine(i, f))
                /\ counts' = [counts EXCEPT ![i] = @ + 1]
                /\ unterminated' = FALSE
           ELSE UNCHANGED <<stderr, counts, unterminated>>
  /\ stack' = SubSeq(stack, 1, Len(stack) - 1)
  /\ UNCHANGED <<allVars, file, translation, specs>>

\* The program ends, by itself or by a signal, in a call or not: the lines that
\* were printed are there.
ProgramEnds ==
  /\ phase = "mining"
  /\ phase' = "traced"
  /\ UNCHANGED <<vars, test, inputs, side, cResult, report, truth, mining>>

\* It does not end in time: there are no traces.
MiningFails ==
  /\ phase = "mining"
  /\ phase' = "done"
  /\ UNCHANGED <<vars, test, inputs, side, cResult, report, truth, mining>>

-----------------------------------------------------------------------------
(***************************************************************************)
(* Validation.                                                             *)
(***************************************************************************)
\* parse_traces: the lines that are read as traces, and the functions they are of.
Traces == {k \in DOMAIN stderr : stderr[k].readable}
Traced == {stderr[k].fn : k \in Traces}
TracesOf(i) == {k \in Traces : stderr[k].fn = i}
Returns(i) == file[i].ret # "void"

\* Slip: a function's trace replaces the one before it.
AssertionsLast(i) ==
  IF TracesOf(i) = {} \/ ~Returns(i) THEN {} ELSE {stderr[Max(TracesOf(i))]}

\* generate_spec_tests: a test for each function, an assertion for each of its
\* traces that has a result.
Assertions(i) ==
  IF Returns(i) THEN {stderr[k] : k \in TracesOf(i)} ELSE {}

\* rust_literal_for_trace_value: the literal of a negative unsigned number is no
\* Rust, and those of a function may be of other types than the translation's.
LiteralsFit(t, i) ==
  \A a \in Assertions(i) :
    /\ t[i].fits
    /\ file[i].params[1] = "unsigned" => a.argument # Awkward
    /\ file[i].ret = "unsigned" => a.result # Awkward

\* What the translated function returns in a test, unless it counts.
Value(t, i, argument) == IF t[i].kind = "wrong" /\ argument = 1 THEN 0 ELSE argument

\* How an assertion may end.  Of a function that counts, the order of the tests
\* decides; of another argument than that of the call, nothing is known.
Ends(t, i, a) ==
  IF file[i].effect = "counts" \/ a.argument = Other
  THEN {"ok", "FAILED"} \union (IF t[i].kind = "aborts" THEN {"abort"} ELSE {})
  ELSE IF t[i].kind = "aborts" /\ a.argument = 1 THEN {"abort"}
  ELSE IF Value(t, i, a.argument) = a.result THEN {"ok"} ELSE {"FAILED"}

\* A test is ok if all its assertions are; the first that is not ends it, and, if it
\* aborts or exits, the program of all tests.
TestResults(t, i) ==
  {r \in {"ok", "FAILED", "abort"} :
     IF r = "ok" THEN \A a \in Assertions(i) : "ok" \in Ends(t, i, a)
     ELSE \E a \in Assertions(i) :
            /\ r \in Ends(t, i, a)
            /\ \A b \in Assertions(i) : b.index < a.index => "ok" \in Ends(t, i, b)}

\* The specifications are one module: where one assertion does not compile, all
\* have failed, and traces are counted instead of tests.
NothingCompiles ==
  [total |-> Cardinality(Traces), passed |-> 0, failed |-> Cardinality(Traces)]

\* Slip: passed tests are taken from the number of traces.
TalliedByTraces(outcome) ==
  LET passed == Cardinality({i \in Traced : outcome[i] = "ok"})
  IN [total |-> Cardinality(Traces), passed |-> passed,
      failed |-> Cardinality(Traces) - passed]

\* The lines that were printed are counted; of a test that never printed its line
\* nothing is known, and nobody misses it.
Tallied(outcome) ==
  LET passed == Cardinality({i \in Traced : outcome[i] = "ok"})
      failed == Cardinality({i \in Traced : outcome[i] = "FAILED"})
  IN [total |-> passed + failed, passed |-> passed, failed |-> failed]

\* The tests run side by side: when one of them ends the program, the others have
\* printed their line or have not.
Outcomes(t) ==
  {outcome \in [Traced -> {"ok", "FAILED", "abort", "unknown"}] :
     \A i \in Traced :
       \/ outcome[i] \in TestResults(t, i)
       \/ outcome[i] = "unknown" /\ \E j \in Traced : outcome[j] = "abort"}

\* validate_against_specs, of a translation that compiles; a test run that does
\* not end in time leaves no result, and with which code it ends is not looked at.
ValidateSpecs ==
  /\ phase = "traced"
  /\ phase' = "done"
  /\ \E t \in [DOMAIN file -> [kind : {"right", "wrong", "aborts"}, fits : BOOLEAN]] :
       /\ translation' = t
       /\ IF Traced = {} THEN specs' = specs
          ELSE IF \E i \in Traced : ~LiteralsFit(t, i) THEN specs' = NothingCompiles
          ELSE \/ specs' = specs
               \/ \E outcome \in Outcomes(t) : specs' = Tallied(outcome)
  /\ UNCHANGED <<vars, test, inputs, side, cResult, report, truth,
                 file, stack, counts, stderr, unterminated, made>>

MiningNext ==
  \/ BeginMining
  \/ \E i \in DOMAIN file, argument \in Values : Call(i, argument)
  \/ Grumble
  \/ Return
  \/ ProgramEnds
  \/ MiningFails
  \/ ValidateSpecs

TestingVars == <<allVars, mining>>

\* A run is an execution of ProcessRun: it ends.
MiningFairness ==
  WF_TestingVars(BeginMining \/ ProgramEnds \/ MiningFails \/ ValidateSpecs)

TestingNext == (ComparisonNext /\ UNCHANGED mining) \/ MiningNext

TestingSpec ==
  MiningSetup /\ [][TestingNext]_TestingVars /\ ComparisonFairness /\ MiningFairness

-----------------------------------------------------------------------------
(***************************************************************************)
(* Properties.                                                             *)
(***************************************************************************)
\* The trace of a call has its argument and its result.
Survives(call) ==
  /\ ReadAs(file[call.fn].params[1], call.argument) = call.argument
  /\ ReadAs(file[call.fn].ret, call.result) = call.result

\* The assertions say of each function what it did in the run: a translation that
\* does the same meets them all, however calls nest and whatever lines are lost.
\* It is not so of a function that counts, or that changes its argument, which is
\* printed after the call; nor of a run with a text that has a backslash escape or is
\* NULL (spec_mining.rs:347-423), which comes back as another one, or with a pointer.
RightTranslationMeetsSpecs ==
  (/\ phase = "done" /\ specs # NoSpecs
   /\ \A i \in Traced : LiteralsFit(translation, i) /\ translation[i].kind = "right"
   /\ \A i \in Traced : file[i].effect = "pure"
   /\ \A k \in DOMAIN made : Survives(made[k]))
  => specs.failed = 0

\* A translation that goes wrong on an argument of which the run has a trace fails
\* some specification, as long as no test may end the program of the tests: of one
\* that aborts the tests printed before are counted, and none has to have failed
\* (spec_mining.rs:693-713).
WrongTranslationCaught ==
  (/\ phase = "done" /\ specs # NoSpecs
   /\ \E k \in DOMAIN made :
        LET i == made[k].fn IN
        /\ i \in Wrapped(file) /\ Returns(i) /\ file[i].effect = "pure"
        /\ file[i].params[1] \notin Addresses
        /\ made[k].argument = 1 /\ made[k].line
        /\ translation[i].kind = "wrong"
   /\ \A j \in Traced : "abort" \notin TestResults(translation, j))
  => specs.failed > 0

(***************************************************************************)
(* The inductive invariant behind the properties, in named parts.          *)
(***************************************************************************)
\* Types of the variables.
MiningTypeOK ==
  /\ file \in CFiles \union {<<>>}
  /\ stack \in Seq([fn : DOMAIN file, argument : Values])
  /\ counts \in [DOMAIN file -> Nat]
  /\ stderr \in Seq([fn : DOMAIN file, argument : Values \union {Other},
                     result : Nat \union {Other}, index : Nat, readable : BOOLEAN])
  /\ unterminated \in BOOLEAN
  /\ made \in Seq([fn : DOMAIN file, argument : Values, result : Nat, line : BOOLEAN])

\* A line about a pure function is of a call that was made, and has what JSON leaves
\* of its argument and of its result.
LineOfCall(line, call) ==
  /\ call.fn = line.fn /\ call.result = call.argument
  /\ line.argument = ReadAs(file[line.fn].params[1], call.argument)
  /\ line.result = ReadAs(file[line.fn].ret, call.result)

\* So it is of every line, and a call whose line began at a line's beginning, and
\* whose argument JSON leaves alone, can be read.
LinesInv ==
  /\ phase = "choose" => stack = <<>> /\ stderr = <<>> /\ made = <<>>
  /\ \A k \in DOMAIN stderr :
       file[stderr[k].fn].effect = "pure" => \E m \in DOMAIN made : LineOfCall(stderr[k], made[m])
  /\ \A k \in DOMAIN made :
       LET i == made[k].fn IN
       /\ i \in Wrapped(file) /\ file[i].effect = "pure" /\ file[i].params[1] \notin Addresses
       /\ made[k].argument = 1 /\ made[k].line
       => \E j \in Traces : stderr[j].fn = i /\ stderr[j].argument = 1 /\ stderr[j].result # 0

\* What is reported is the result of tests of the traces.
SpecsInv ==
  specs # NoSpecs =>
    /\ phase = "done"
    /\ \/ specs = NothingCompiles /\ \E i \in Traced : ~LiteralsFit(translation, i)
       \/ \E outcome \in Outcomes(translation) : specs = Tallied(outcome)

TestingInv == ComparisonInv /\ MiningTypeOK /\ LinesInv /\ SpecsInv

=============================================================================
