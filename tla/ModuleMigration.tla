-------------------------- MODULE ModuleMigration ---------------------------
(***************************************************************************)
(* migrate_single_module (noricum-core/src/orchestrator.rs): one module of *)
(* a large file is translated, or seeded from an earlier run, validated    *)
(* together with the modules before it, re-translated when it is hopeless, *)
(* repaired, graded, and at last checked for open braces.                  *)
(*                                                                         *)
(* A text's fields are what validation says of it in the context of the    *)
(* modules before it, except astUnsafe, which counts its own blocks only.  *)
(***************************************************************************)
EXTENDS Budget

CONSTANTS
  MinScore,              \* config.min_idiomatic_score
  Texts,                 \* the Rust texts agents and earlier runs may give
  Open,                  \* those in which check_brace_balance finds an open
                         \* brace: truncated ones, and ones with a '{' literal
  MaxRepairIterations,   \* config.max_repair_iterations
  MaxUnsafeBlocks,       \* config.max_unsafe_blocks, or None
  Chunks,                \* chunks the module is translated in, 1 for a small one
  CTokens                \* size of the C source and its context in tokens

\* P24: min(user_score, 50).
ModuleMinScore == IF MinScore < 50 THEN MinScore ELSE 50

V == INSTANCE Validation WITH MinScore <- ModuleMinScore

ASSUME ModuleAssumption ==
  /\ MinScore \in 0..100
  /\ Texts \subseteq V!Text /\ Open \subseteq Texts
  /\ None \notin Texts
  /\ MaxRepairIterations \in Nat
  /\ MaxUnsafeBlocks \in Nat \union {None}
  /\ Chunks \in Nat \ {0} /\ CTokens \in Nat

RetranslateErrorThreshold == 100
GradeThreshold == 80

VARIABLES
  pc,
  job,       \* is there a diff test, the repairs allowed, the warm-start seed
  unit,      \* mod_unit
  best,      \* best_version, best_score, best_compiles
  ceiling,   \* unsafe_ceiling
  iter,
  spent,     \* local_metrics
  reclosed   \* P32 replaced the text

vars == <<pc, job, unit, best, ceiling, iter, spent, reclosed>>

MaybeText == Texts \union {None}

\* The seed of a module is None unless warm start says SeedRepair; the modular
\* run sets the repairs to zero when its budget is at 80%.
Init ==
  /\ pc = "translate"
  /\ job \in [harness: BOOLEAN, max: {0, MaxRepairIterations}, seed: MaybeText]
  /\ unit = [rust |-> None, state |-> V!In("Pending"), score |-> 0, unsafe |-> 0,
             errors |-> 0, feedback |-> 0]
  /\ best = [text |-> None, score |-> 0, compiles |-> FALSE]
  /\ ceiling = 0
  /\ iter = 1
  /\ spent = [calls |-> 0, tokens |-> 0]
  /\ reclosed = FALSE

MaxIters == IF job.max < 5 THEN job.max ELSE 5

Refined(t) == [unit EXCEPT !.rust = t, !.state = V!In("Refined")]

-----------------------------------------------------------------------------
UseSeed ==
  /\ pc = "translate"
  /\ job.seed # None
  /\ unit' = Refined(job.seed)
  /\ pc' = "validate"
  /\ UNCHANGED <<job, best, ceiling, iter, spent, reclosed>>

\* The module is given up, without a unit; chunks that did arrive are not
\* counted.
TranslationFails ==
  /\ pc = "translate"
  /\ job.seed = None
  /\ pc' = "failed"
  /\ UNCHANGED <<job, unit, best, ceiling, iter, spent, reclosed>>

\* Each chunk is a call, of which only the answer is metered.
Translate(t) ==
  /\ pc = "translate"
  /\ job.seed = None
  /\ unit' = Refined(t)
  /\ spent' = [calls |-> spent.calls + Chunks,
               tokens |-> spent.tokens + t.tokens + (IF Chunks = 1 THEN CTokens ELSE 0)]
  /\ pc' = IF t.substance THEN "validate" ELSE "stub"
  /\ UNCHANGED <<job, best, ceiling, iter, reclosed>>

OneMoreCall == spent' = [spent EXCEPT !.calls = @ + 1]

\* P6: a stub is translated once more (r is None if that fails).
RetranslateStub(r) ==
  /\ pc = "stub"
  /\ OneMoreCall
  /\ unit' = IF r # None /\ r.substance THEN [unit EXCEPT !.rust = r] ELSE unit
  /\ pc' = "validate"
  /\ UNCHANGED <<job, best, ceiling, iter, reclosed>>

\* The best-version variables for text t.
BestIs(t) == [text |-> t, score |-> t.score, compiles |-> t.compiles]

\* The repair loop starts from text t (P21: a tolerance, above its own count).
EnterLoop(t) ==
  /\ pc' = "loop"
  /\ best' = BestIs(t)
  /\ ceiling' = IF MaxUnsafeBlocks = None \/ MaxUnsafeBlocks < t.unsafe
                THEN t.unsafe ELSE MaxUnsafeBlocks

Validate ==
  /\ pc = "validate"
  /\ LET t == unit.rust IN
     /\ unit' = V!Apply(t, unit.state, job.harness, job.max)
     /\ IF V!Passed(t, job.harness)
        THEN pc' = "braces" /\ UNCHANGED <<best, ceiling>>
        ELSE IF t.errors > RetranslateErrorThreshold
        THEN pc' = "hopeless" /\ UNCHANGED <<best, ceiling>>
        ELSE EnterLoop(t)
  /\ UNCHANGED <<job, iter, spent, reclosed>>

\* Slip: the hopeless text is tried again and again.
RetranslateForever(r) ==
  /\ pc = "hopeless"
  /\ unit' = IF r # None /\ r.substance THEN V!Apply(r, unit.state, job.harness, job.max) ELSE unit
  /\ IF V!Passed(unit'.rust, job.harness)
     THEN pc' = "braces" /\ UNCHANGED <<best, ceiling>>
     ELSE IF unit'.errors > RetranslateErrorThreshold
     THEN pc' = "hopeless" /\ UNCHANGED <<best, ceiling>>
     ELSE EnterLoop(unit'.rust)
  /\ UNCHANGED <<job, iter, spent, reclosed>>

\* P13: with more than a hundred errors the module is translated once more.
RetranslateHopeless(r) ==
  /\ pc = "hopeless"
  /\ OneMoreCall
  /\ IF r # None /\ r.substance
     THEN /\ unit' = V!Apply(r, unit.state, job.harness, job.max)
          /\ IF V!Passed(r, job.harness)
             THEN pc' = "braces" /\ UNCHANGED <<best, ceiling>>
             ELSE EnterLoop(r)
     ELSE unit' = unit /\ EnterLoop(unit.rust)
  /\ UNCHANGED <<job, iter, reclosed>>

-----------------------------------------------------------------------------
EffectiveFeedback ==
  IF unit.errors = 0 /\ unit.feedback = 0 /\ unit.score < MinScore
  THEN unit.rust.hints ELSE unit.feedback

NothingToFix == unit.errors = 0 /\ EffectiveFeedback = 0 /\ unit.score >= MinScore

Actionable == unit.errors > 0 \/ EffectiveFeedback > 0

InLoop == pc = "loop" /\ iter <= MaxIters /\ ~NothingToFix

\* Slip: the last attempt is delivered under the state of the best version.
GraduatedLast ==
  [unit EXCEPT !.score = best.score,
               !.state = V!In(V!GraduatedTag(best.compiles, unit.unsafe, best.score,
                                             GradeThreshold, unit.errors))]

\* The best version and its graduated state (P23), which is worked out with
\* the unsafe blocks and the errors of the last attempt.
Graduated ==
  [unit EXCEPT !.rust = best.text, !.score = best.score,
               !.state = V!In(V!GraduatedTag(best.compiles, unit.unsafe, best.score,
                                             GradeThreshold, unit.errors))]

LeaveLoop ==
  /\ pc = "loop"
  /\ iter > MaxIters \/ NothingToFix
  /\ unit' = Graduated
  /\ pc' = "braces"
  /\ UNCHANGED <<job, best, ceiling, iter, spent, reclosed>>

\* A failed repair call, which is not counted, ends the loop.
RepairFails ==
  /\ InLoop
  /\ Actionable
  /\ unit' = Graduated
  /\ pc' = "braces"
  /\ UNCHANGED <<job, best, ceiling, iter, spent, reclosed>>

RepairReplies == IF Actionable THEN Texts ELSE {unit.rust}

CountRepair(t) ==
  spent' = [calls |-> spent.calls + 1, tokens |-> spent.tokens + unit.rust.tokens + t.tokens]

Acceptable(t) == t.astUnsafe <= ceiling

\* P0: a reply with too many unsafe blocks of its own; no budget check.
RejectRepair(t) ==
  /\ InLoop
  /\ t \in RepairReplies
  /\ ~Acceptable(t)
  /\ CountRepair(t)
  /\ iter' = iter + 1
  /\ UNCHANGED <<pc, job, unit, best, ceiling, reclosed>>

NextIter(t) == iter + 1

ApplyRepair(t) ==
  /\ InLoop
  /\ t \in RepairReplies
  /\ Acceptable(t)
  /\ CountRepair(t)
  /\ unit' = V!Apply(t, V!Repairing(iter), job.harness, MaxIters)
  /\ best' = IF /\ t.unsafe <= ceiling
                /\ t.score > best.score \/ (t.compiles /\ ~best.compiles)
             THEN BestIs(t) ELSE best
  /\ IF V!Passed(t, job.harness)
     THEN pc' = "braces" /\ iter' = iter
     ELSE /\ iter' = NextIter(t)
          /\ pc' = IF WithinBudget(spent'.calls, spent'.tokens) THEN "loop" ELSE "aborted"
  /\ UNCHANGED <<job, ceiling, reclosed>>

-----------------------------------------------------------------------------
Balanced ==
  /\ pc = "braces"
  /\ unit.rust \notin Open
  /\ pc' = "done"
  /\ UNCHANGED <<job, unit, best, ceiling, iter, spent, reclosed>>

\* P32: a text with open braces is translated once more; a balanced answer
\* takes its place and is not validated.
RetranslateOpen(r) ==
  /\ pc = "braces"
  /\ unit.rust \in Open
  /\ r \notin Open
  /\ OneMoreCall
  /\ unit' = [unit EXCEPT !.rust = r]
  /\ reclosed' = TRUE
  /\ pc' = "done"
  /\ UNCHANGED <<job, best, ceiling, iter>>

\* P32: without one (an open answer is counted, a failed call is not) the text
\* is cut at its last balanced line and an error is noted.
CutOpen(cut) ==
  /\ pc = "braces"
  /\ unit.rust \in Open
  /\ cut \notin Open
  /\ OneMoreCall \/ UNCHANGED spent
  /\ unit' = [unit EXCEPT !.rust = cut, !.errors = @ + 1]
  /\ reclosed' = TRUE
  /\ pc' = "done"
  /\ UNCHANGED <<job, best, ceiling, iter>>

\* rustc, a temporary directory or a model cannot be had.
ToolFails ==
  /\ \/ pc \in {"translate", "validate", "hopeless"}
     \/ InLoop \/ (pc = "loop" /\ iter = 1)
     \/ pc = "braces" /\ unit.rust \in Open
  /\ pc' = "aborted"
  /\ UNCHANGED <<job, unit, best, ceiling, iter, spent, reclosed>>

Finished == pc \in {"done", "failed", "aborted"} /\ UNCHANGED vars

Next ==
  \/ UseSeed
  \/ TranslationFails
  \/ \E t \in Texts : Translate(t)
  \/ \E r \in MaybeText : RetranslateStub(r)
  \/ Validate
  \/ \E r \in MaybeText : RetranslateHopeless(r)
  \/ LeaveLoop
  \/ RepairFails
  \/ \E t \in Texts : RejectRepair(t)
  \/ \E t \in Texts : ApplyRepair(t)
  \/ Balanced
  \/ \E r \in Texts : RetranslateOpen(r)
  \/ \E cut \in Texts : CutOpen(cut)
  \/ ToolFails
  \/ Finished

\* A provider answers every call, with a text or an error.
Spec == Init /\ [][Next]_vars /\ WF_vars(Next)

-----------------------------------------------------------------------------
(***************************************************************************)
(* The result the wave gets (ModuleMigrationResult, ModuleArtifact).       *)
(***************************************************************************)
ResultValidated == unit.state.tag \in {"Validated", "CompilesUnsafe"}
ResultCompiles == unit.state.tag = "Validated" \/ unit.errors = 0

(***************************************************************************)
(* Properties.                                                             *)
(***************************************************************************)
\* Types of the variables.
TypeOK ==
  /\ pc \in {"translate", "stub", "validate", "hopeless", "loop", "braces", "done",
             "failed", "aborted"}
  /\ job \in [harness: BOOLEAN, max: Nat, seed: MaybeText]
  /\ unit \in [rust: MaybeText, state: V!MigrationState, score: 0..100, unsafe: Nat,
               errors: Nat, feedback: Nat]
  /\ best \in [text: MaybeText, score: 0..100, compiles: BOOLEAN]
  /\ ceiling \in Nat
  /\ iter \in Nat
  /\ spent \in [calls: Nat, tokens: Nat]
  /\ reclosed \in BOOLEAN

\* A module that says it compiles does, whichever of its texts it is delivered
\* with, and reports that text's score, unless its braces were closed (P32).
GradedByItsText ==
  pc \in {"braces", "done"} /\ ~reclosed =>
    /\ unit.score = unit.rust.score
    /\ unit.state.tag \in {"Validated", "CompilesUnsafe", "CompilesLowScore"} =>
         unit.rust.compiles

\* A repaired module has no more unsafe blocks of its own than the ceiling,
\* which the first text of the loop set (P0, P21).
RepairedWithinCeiling ==
  pc = "loop" \/ (pc \in {"braces", "done"} /\ ~reclosed /\ best.text # None) =>
    unit.rust.astUnsafe <= ceiling

\* What a module can cost: its chunks, three fresh translations and the repairs
\* it is allowed, which are none once the modular run is at 80% of its budget.
CallsBounded == spent.calls <= Chunks + 3 + MaxIters

\* What the wave gets is what was graded, within the ceiling and the calls.
ResultWarranted == GradedByItsText /\ RepairedWithinCeiling /\ CallsBounded

\* The module ends: with a result, given up, or with an error.
Termination == <>(pc \in {"done", "failed", "aborted"})

(***************************************************************************)
(* The inductive invariant behind the properties, in named parts.          *)
(***************************************************************************)
\* The best version is one text, from the entry into the loop on.
BestInv ==
  /\ pc \in {"translate", "stub", "validate", "hopeless"} => best.text = None
  /\ pc = "loop" => best.text # None
  /\ best.text # None => best = BestIs(best.text) /\ best.text.astUnsafe <= ceiling

\* From the first validation on the unit holds the verdict on its own text.
UnitInv ==
  /\ pc \notin {"translate", "failed", "aborted"} => unit.rust \in Texts
  /\ pc \in {"hopeless", "loop"} => unit.score = unit.rust.score
  /\ pc = "loop" => unit.rust.astUnsafe <= ceiling
  /\ reclosed => pc = "done"

\* How many calls a module has made when it comes to a place.
SpentInv ==
  /\ iter \in 1 .. MaxIters + 1
  /\ pc = "translate" => spent.calls = 0
  /\ pc = "stub" => spent.calls <= Chunks
  /\ pc \in {"validate", "hopeless"} => spent.calls <= Chunks + 1
  /\ pc \in {"translate", "stub", "validate", "hopeless"} => iter = 1
  /\ pc = "loop" => spent.calls <= Chunks + 1 + iter
  /\ pc = "braces" => spent.calls <= Chunks + 2 + MaxIters

IInv == TypeOK /\ BestInv /\ UnitInv /\ SpentInv /\ ResultWarranted

=============================================================================
