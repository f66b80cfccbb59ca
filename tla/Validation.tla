----------------------------- MODULE Validation -----------------------------
(***************************************************************************)
(* What the pipeline observes of a Rust text, and the decisions it takes   *)
(* from that: passing validation, the next state of a unit, the graduated  *)
(* state of a unit that ran out of repairs.                                *)
(*                                                                         *)
(* A text is abstracted to what rustc, the unsafe counters, the scorer and *)
(* the differential test say of it:                                        *)
(*   compiles    rustc accepts it                                          *)
(*   errors      number of error lines rustc prints (last_errors)          *)
(*   unsafe      unsafe blocks counted by validation (compiler.rs)         *)
(*   astUnsafe   unsafe blocks counted by the repair gate (ast.rs), which  *)
(*               misses an unsafe fn behind `const` or `pub(super)`        *)
(*   score       idiomatic score                                           *)
(*   hints       number of improvement hints the scorer would give         *)
(*   substance   not an empty stub (has_substance)                         *)
(*   mismatches  number of feedback messages of a diff test, 0 if it passes*)
(*   tokens      its size in estimated tokens                              *)
(***************************************************************************)
EXTENDS Naturals

CONSTANT MinScore   \* config.min_idiomatic_score

ASSUME MinScoreAssumption == MinScore \in 0..100

\* The score of a stub is capped at 20, so that a stub cannot validate.
StubScoreCap == 20

\* The scorer looks for the same two marks of a stub as has_substance.
StubsScoreLow(t) == ~t.substance => t.score <= StubScoreCap

\* count_unsafe_blocks sees the modifier of a function wherever it stands; the
\* gate's counter, only at the beginning.
GateCountsNoMore(t) == t.astUnsafe <= t.unsafe

\* generate_idiomatic_hints: none, or up to three under a heading.
HintCounts == {0} \union 2 .. 4

Text ==
  {t \in [compiles: BOOLEAN, errors: Nat, unsafe: Nat, astUnsafe: Nat,
          score: 0..100, hints: HintCounts, substance: BOOLEAN, mismatches: Nat,
          tokens: Nat] :
     /\ t.compiles => t.errors = 0
     /\ GateCountsNoMore(t)
     /\ StubsScoreLow(t)}

(***************************************************************************)
(* The differential test runs on code that compiles, against the C main()  *)
(* or a generated harness; without either there is no test ("none").       *)
(***************************************************************************)
DiffTest(t, harness) ==
  IF t.compiles /\ harness
  THEN IF t.mismatches = 0 THEN "pass" ELSE "fail"
  ELSE "none"

DiffFeedback(t, harness) ==
  IF DiffTest(t, harness) = "fail" THEN t.mismatches ELSE 0

\* Without a differential test a higher score is asked for.
RequiredScore(t, harness) ==
  IF DiffTest(t, harness) = "none" /\ MinScore < 80 THEN 80 ELSE MinScore

\* ValidationResult.passed
Passed(t, harness) ==
  /\ t.compiles
  /\ t.score >= RequiredScore(t, harness)
  /\ DiffTest(t, harness) # "fail"

-----------------------------------------------------------------------------
(***************************************************************************)
(* MigrationState.  Repairing carries its iteration in n.                  *)
(***************************************************************************)
Tags == {"Pending", "Extracted", "Characterized", "C2RustDone", "Analyzed",
         "Refined", "Validated", "Repairing", "CompilesUnsafe",
         "CompilesLowScore", "NearlyCompiles", "FallbackUnsafe"}

MigrationState == [tag: Tags, n: Nat]

In(tag) == [tag |-> tag, n |-> 0]
Repairing(n) == [tag |-> "Repairing", n |-> n]

\* The state part of apply_validation_with_max.
StateAfter(state, passed, max) ==
  IF passed THEN In("Validated")
  ELSE IF state.tag # "Repairing" THEN Repairing(1)
  ELSE IF state.n >= max THEN In("FallbackUnsafe")
  ELSE Repairing(state.n + 1)

\* A unit in the given state, with text t and the verdict of validation on it.
Apply(t, state, harness, max) ==
  [rust |-> t, score |-> t.score, unsafe |-> t.unsafe, errors |-> t.errors,
   feedback |-> DiffFeedback(t, harness),
   state |-> StateAfter(state, Passed(t, harness), max)]

(***************************************************************************)
(* graduated_state (P23): the state of a unit whose repairs are used up.   *)
(***************************************************************************)
GraduatedTag(compiles, unsafe, score, threshold, errors) ==
  IF compiles /\ unsafe = 0 /\ score >= threshold THEN "Validated"
  ELSE IF compiles /\ unsafe > 0 /\ score >= 50 THEN "CompilesUnsafe"
  ELSE IF compiles /\ score < threshold THEN "CompilesLowScore"
  ELSE IF ~compiles /\ errors <= 5 /\ score >= 50 THEN "NearlyCompiles"
  ELSE "FallbackUnsafe"

=============================================================================
