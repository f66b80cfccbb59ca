----------------------------- MODULE RepairLoop -----------------------------
(***************************************************************************)
(* Stages 6 to 8 of migrate_file (noricum-core/src/orchestrator.rs) for a  *)
(* file that is not migrated by modules: the translation is validated, and *)
(* while it does not pass the repair agent is asked for a better text.     *)
(* The loop keeps the best text seen, refuses texts with too many unsafe   *)
(* blocks, replaces a translation on which it stalls, and when it runs out *)
(* of iterations delivers the best text under a graduated state.           *)
(*                                                                         *)
(* The agents are an environment: a call may fail, or return any text of   *)
(* Texts.  A tool that cannot be run ends the migration with an error.     *)
(***************************************************************************)
EXTENDS Validation, Budget

CONSTANTS
  Texts,                \* the Rust texts agents and c2rust may produce
  MaxRepairIterations,  \* config.max_repair_iterations
  CLines,               \* lines of the C file
  MaxUnsafeBlocks,      \* config.max_unsafe_blocks, or None
  SpecFailures,         \* how many mined specs the first translation may fail
  CallsBefore,          \* LLM calls spent before Stage 6
  TokensBefore          \* tokens spent before Stage 6

ASSUME RepairLoopAssumption ==
  /\ Texts \subseteq Text
  /\ None \notin Texts
  /\ MaxRepairIterations \in Nat
  /\ CLines \in Nat /\ CLines <= 2000
  /\ MaxUnsafeBlocks \in Nat \union {None}
  /\ SpecFailures \subseteq Nat /\ 0 \in SpecFailures
  /\ CallsBefore \in Nat /\ TokensBefore \in Nat
  /\ WithinBudget(CallsBefore, TokensBefore)

\* effective_repair_iterations: a file above MEDIUM_FILE_LOC was translated in
\* chunks and gets at least 8 iterations; otherwise the size lowers them.
EffectiveRepairIterations(configured, cLines, chunked) ==
  LET AtLeast(k) == IF configured < k THEN k ELSE configured
      AtMost(k)  == IF configured < k THEN configured ELSE k
  IN IF chunked THEN AtLeast(8)
     ELSE IF cLines > 5000 THEN AtMost(3)
     ELSE IF cLines > 2000 THEN AtMost(2)
     ELSE IF cLines > 1000 THEN AtMost(3)
     ELSE configured

MaxIters == EffectiveRepairIterations(MaxRepairIterations, CLines, CLines > 800)

StallThreshold == 2
GradeThreshold == 80

VARIABLES
  pc,          \* where migrate_file is
  job,         \* what never changes: is there a diff test, what c2rust gave
  unit,        \* the FunctionUnit
  best,        \* best_version, best_score, best_unsafe, best_compiles
  baseline,    \* unsafe blocks of the translation
  loop,        \* iteration, prev_error_count, stall_count, retranslated_on_stall
  spent        \* metrics: LLM calls and tokens

vars == <<pc, job, unit, best, baseline, loop, spent>>

Places == {"validate", "loop", "retranslate", "repair", "revalidate", "done", "aborted"}

Init ==
  /\ pc = "validate"
  /\ job \in [harness: BOOLEAN, c2rust: Texts \union {None}]
  /\ \E t \in Texts :
       unit = [rust |-> t, state |-> In("Refined"), score |-> 0, unsafe |-> 0,
               errors |-> 0, feedback |-> 0]
  /\ best = [text |-> None, score |-> 0, unsafe |-> 0, compiles |-> FALSE]
  /\ baseline = 0
  /\ loop = [iteration |-> 1, prev |-> None, stall |-> 0, retranslated |-> FALSE]
  /\ spent = [calls |-> CallsBefore, tokens |-> TokensBefore]

\* P21: the tolerance applies above the translation's own count only.
Ceiling == IF MaxUnsafeBlocks = None \/ MaxUnsafeBlocks < baseline
           THEN baseline ELSE MaxUnsafeBlocks

-----------------------------------------------------------------------------
\* Slip: whether the best text compiles is not recorded with it.
BestIsStale(t) == [text |-> t, score |-> t.score, unsafe |-> t.unsafe, compiles |-> FALSE]

\* The best-version record for text t.
BestIs(t) == [text |-> t, score |-> t.score, unsafe |-> t.unsafe, compiles |-> t.compiles]

\* P1, P6b: whether a validated text replaces the best one.
Improves(t) ==
  /\ t.substance
  /\ t.unsafe <= Ceiling
  /\ t.score > best.score \/ (t.compiles /\ ~best.compiles)

KeepBest(t) == best' = IF Improves(t) THEN BestIs(t) ELSE best

\* Stage 6, and the seeding of Stage 7 with a translation that is no stub.
\* Failed specs (P37, only of code that compiles and has a main) are feedback too.
ValidateTranslation ==
  /\ pc = "validate"
  /\ LET t == unit.rust IN
     /\ \E failures \in IF t.compiles /\ job.harness THEN SpecFailures ELSE {0} :
          unit' = [Apply(t, unit.state, job.harness, MaxIters) EXCEPT !.feedback = @ + failures]
     /\ baseline' = t.unsafe
     /\ best' = IF t.substance THEN BestIs(t)
                ELSE [text |-> None, score |-> 0, unsafe |-> t.unsafe, compiles |-> FALSE]
     /\ pc' = IF Passed(t, job.harness) THEN "done" ELSE "loop"
  /\ UNCHANGED <<job, loop, spent>>

\* P5: hints stand in for feedback when only the score is short.
EffectiveFeedback ==
  IF unit.errors = 0 /\ unit.feedback = 0 /\ unit.score < MinScore
  THEN unit.rust.hints ELSE unit.feedback

\* The head of an iteration: stall detection, and at the threshold one
\* attempt to translate afresh.
BeginIteration ==
  /\ pc = "loop"
  /\ loop.iteration <= MaxIters
  /\ LET count == unit.errors + EffectiveFeedback
         stall == IF loop.prev = None THEN loop.stall
                  ELSE IF count = loop.prev /\ count > 0 THEN loop.stall + 1 ELSE 0
         again == stall >= StallThreshold /\ ~loop.retranslated
     IN /\ loop' = [loop EXCEPT !.prev = count, !.stall = stall,
                                !.retranslated = @ \/ again]
        /\ pc' = IF again THEN "retranslate" ELSE "repair"
  /\ UNCHANGED <<job, unit, best, baseline, spent>>

\* Slip: a fresh translation that failed is attempted again.
RetranslationRetried ==
  /\ pc = "retranslate"
  /\ pc' = "loop"
  /\ loop' = [loop EXCEPT !.retranslated = FALSE, !.stall = @ - 1]
  /\ UNCHANGED <<job, unit, best, baseline, spent>>

\* The fresh translation fails: the iteration goes on with a repair.
RetranslationFails ==
  /\ pc = "retranslate"
  /\ pc' = "repair"
  /\ UNCHANGED <<job, unit, best, baseline, loop, spent>>

\* The fresh translation replaces the text, whatever its unsafe count.
Retranslate(t) ==
  /\ pc = "retranslate"
  /\ unit' = Apply(t, unit.state, job.harness, MaxIters)
  /\ KeepBest(t)
  /\ spent' = [spent EXCEPT !.calls = @ + 1]
  /\ loop' = [iteration |-> IF Passed(t, job.harness) THEN loop.iteration
                            ELSE loop.iteration + 1,
              prev |-> None, stall |-> 0, retranslated |-> loop.retranslated]
  /\ pc' = IF Passed(t, job.harness) THEN "done" ELSE "loop"
  /\ UNCHANGED <<job, baseline>>

\* With nothing to complain of, the repair agent returns the text it got
\* without calling the model.
Actionable == unit.errors > 0 \/ EffectiveFeedback > 0
RepairReplies == IF Actionable THEN Texts ELSE {unit.rust}

\* P0: the gate a reply has to pass.
AcceptableUnlessBetter(t) == t.score > unit.score \/ t.astUnsafe <= Ceiling  \* slip
Acceptable(t) == t.astUnsafe <= Ceiling

NextIteration == [loop EXCEPT !.iteration = @ + 1]

\* The repair call fails after its own retries; the iteration is spent, and
\* the budget is not looked at.
RepairFails ==
  /\ pc = "repair"
  /\ Actionable
  /\ pc' = "loop"
  /\ loop' = NextIteration
  /\ spent' = [spent EXCEPT !.calls = @ + 1]
  /\ UNCHANGED <<job, unit, best, baseline>>

\* P0: a reply above the unsafe ceiling is dropped; again no budget check.
RejectRepair(t) ==
  /\ pc = "repair"
  /\ t \in RepairReplies
  /\ ~Acceptable(t)
  /\ pc' = "loop"
  /\ loop' = NextIteration
  /\ spent' = [spent EXCEPT !.calls = @ + 1]
  /\ UNCHANGED <<job, unit, best, baseline>>

\* The reply becomes the unit's text; beyond the budget the migration ends.
ApplyRepair(t) ==
  /\ pc = "repair"
  /\ t \in RepairReplies
  /\ Acceptable(t)
  /\ unit' = [unit EXCEPT !.rust = t, !.state = Repairing(loop.iteration)]
  /\ spent' = [calls |-> spent.calls + 1,
               tokens |-> spent.tokens + unit.rust.tokens + t.tokens]
  /\ pc' = IF WithinBudget(spent'.calls, spent'.tokens) THEN "revalidate" ELSE "aborted"
  /\ UNCHANGED <<job, best, baseline, loop>>

Revalidate ==
  /\ pc = "revalidate"
  /\ unit' = Apply(unit.rust, unit.state, job.harness, MaxIters)
  /\ KeepBest(unit.rust)
  /\ IF Passed(unit.rust, job.harness)
     THEN pc' = "done" /\ loop' = loop
     ELSE pc' = "loop" /\ loop' = NextIteration
  /\ UNCHANGED <<job, baseline, spent>>

\* The unit with the best version in place of its last text.
RestoredText == [unit EXCEPT !.rust = best.text]   \* slip: without its figures
Restored == [unit EXCEPT !.rust = best.text, !.score = best.score, !.unsafe = best.unsafe]

\* Stage 8: the best text is delivered, or what c2rust gave when there never
\* was a text with substance.
Grade ==
  /\ pc = "loop"
  /\ loop.iteration > MaxIters
  /\ LET state == In(GraduatedTag(best.compiles, best.unsafe, best.score,
                                  GradeThreshold, unit.errors))
     IN unit' = IF best.text # None
                THEN [Restored EXCEPT !.state = state]
                ELSE [unit EXCEPT !.rust = IF job.c2rust # None THEN job.c2rust ELSE @,
                                  !.state = state]
  /\ pc' = "done"
  /\ UNCHANGED <<job, best, baseline, loop, spent>>

\* rustc or a temporary directory cannot be had: the error ends the migration.
ToolFails ==
  /\ pc \in {"validate", "retranslate", "revalidate"}
  /\ pc' = "aborted"
  /\ UNCHANGED <<job, unit, best, baseline, loop, spent>>

Finished == pc \in {"done", "aborted"} /\ UNCHANGED vars

Next ==
  \/ ValidateTranslation
  \/ BeginIteration
  \/ RetranslationFails
  \/ \E t \in Texts : Retranslate(t)
  \/ RepairFails
  \/ \E t \in Texts : RejectRepair(t)
  \/ \E t \in Texts : ApplyRepair(t)
  \/ Revalidate
  \/ Grade
  \/ ToolFails
  \/ Finished

\* One async task runs the pipeline: it does not stop between two awaits, and
\* a call to a provider is taken to return, with a text or an error.
Spec == Init /\ [][Next]_vars /\ WF_vars(Next)

-----------------------------------------------------------------------------
(***************************************************************************)
(* Properties.                                                             *)
(***************************************************************************)
MaybeText == Texts \union {None}

\* Types of the variables.
TypeOK ==
  /\ pc \in Places
  /\ job \in [harness: BOOLEAN, c2rust: MaybeText]
  /\ unit \in [rust: Texts, state: MigrationState, score: 0..100, unsafe: Nat,
               errors: Nat, feedback: Nat]
  /\ best \in [text: MaybeText, score: 0..100, unsafe: Nat, compiles: BOOLEAN]
  /\ baseline \in Nat
  /\ loop \in [iteration: Nat, prev: Nat \union {None}, stall: Nat, retranslated: BOOLEAN]
  /\ spent \in [calls: Nat, tokens: Nat]

\* The score and unsafe count reported with a unit are those of the text it
\* is delivered with, unless that text is the c2rust fallback.
ReportMatchesText ==
  pc = "done" /\ (best.text # None \/ unit.state.tag = "Validated") =>
    unit.score = unit.rust.score /\ unit.unsafe = unit.rust.unsafe

\* Past the first validation, a text that the repair gate counts above the
\* ceiling can only be one a stall re-translation put there (P0, P21).
OverCeilingOnlyByRetranslation ==
  pc \notin {"validate", "aborted"} /\ (pc = "done" => best.text # None) =>
    (unit.rust.astUnsafe > Ceiling => loop.retranslated)

\* What is delivered without validating is within the ceiling: restoring the
\* best version undoes an unsafe re-translation.
UnvalidatedWithinCeiling ==
  pc = "done" /\ unit.state.tag # "Validated" /\ best.text # None =>
    unit.rust.unsafe <= Ceiling

\* The repair count a unit's state carries never runs ahead of the loop, and
\* the state gives up (FallbackUnsafe) only when the iterations are used up.
StateFollowsLoop ==
  pc \in {"loop", "retranslate", "repair", "revalidate"} =>
    \/ unit.state.tag = "Repairing" /\ unit.state.n <= loop.iteration
    \/ unit.state.tag = "FallbackUnsafe" /\ loop.iteration > MaxIters

\* The token budget holds of every migration that is delivered: the calls
\* that skip check_budget do not spend metered tokens.
TokenBudgetKept == pc = "done" => WithinTokens(spent.tokens)

\* The call limit may be passed in Stage 7 by at most the iterations made,
\* since every iteration counts at most one call.
CallsBounded == spent.calls <= CallsBefore + MaxIters

\* Of the texts that replace each other only a stall re-translation passes the
\* ceiling, and what is delivered without validating never does.
CeilingKept == OverCeilingOnlyByRetranslation /\ UnvalidatedWithinCeiling

\* Iterations, repair counts, calls and tokens stay in step on all five paths of
\* the loop, and within their limits.
BudgetKept == StateFollowsLoop /\ CallsBounded /\ TokenBudgetKept

\* The migration ends: delivered, or with an error.
Termination == <>(pc \in {"done", "aborted"})

(***************************************************************************)
(* The loop implements Delivery: through replaced, rejected, re-translated *)
(* and restored texts, the state a unit is delivered under is warranted by *)
(* the very text it is delivered with.                                     *)
(***************************************************************************)
DeliveryPhase ==
  IF pc = "done" THEN "delivered" ELSE IF pc = "aborted" THEN "failed" ELSE "working"

Promise == INSTANCE Delivery WITH
  phase <- DeliveryPhase,
  text <- IF pc = "done" THEN unit.rust ELSE None,
  tag <- IF pc = "done" THEN unit.state.tag ELSE "Pending"

\* Every run of the loop is a run of the promise.
ImplementsDelivery == Promise!Safety

(***************************************************************************)
(* The inductive invariant behind the properties, in named parts.          *)
(***************************************************************************)
Looping == pc \in {"loop", "retranslate", "repair", "revalidate"}

\* The four best_* variables always describe one text, which is no stub and
\* within the ceiling; without a best version they are those of nothing.
BestInv ==
  /\ best.text = None => best.score = 0 /\ ~best.compiles
  /\ best.text # None => /\ best = BestIs(best.text)
                         /\ best.text.substance
                         /\ best.unsafe <= Ceiling

\* Between iterations the unit holds the verdict on its own text.
UnitInv ==
  /\ pc = "validate" => unit.state.tag = "Refined" /\ best.text = None
  /\ pc \in {"loop", "retranslate", "repair"} =>
       unit.score = unit.rust.score /\ unit.unsafe = unit.rust.unsafe
  /\ Looping /\ unit.rust.astUnsafe > Ceiling => loop.retranslated

LoopInv ==
  /\ loop.iteration >= 1
  /\ pc = "retranslate" => loop.retranslated
  /\ pc \in {"retranslate", "repair", "revalidate"} => loop.iteration <= MaxIters
  /\ Looping =>
       \/ unit.state.tag = "Repairing" /\ unit.state.n <= loop.iteration
       \/ unit.state.tag = "FallbackUnsafe" /\ loop.iteration > MaxIters

SpentInv ==
  /\ pc \in {"validate", "loop", "retranslate", "repair"} =>
       spent.calls < CallsBefore + loop.iteration /\ loop.iteration <= MaxIters + 1
  /\ pc = "revalidate" => spent.calls <= CallsBefore + loop.iteration
  /\ spent.calls <= CallsBefore + MaxIters
  /\ pc # "aborted" => WithinTokens(spent.tokens)

DeliveredInv ==
  pc = "done" =>
    /\ Promise!Warranted(unit.rust, unit.state.tag)
    /\ best.text # None \/ unit.state.tag = "Validated" =>
         unit.score = unit.rust.score /\ unit.unsafe = unit.rust.unsafe
    /\ best.text # None /\ unit.rust.astUnsafe > Ceiling => loop.retranslated
    /\ best.text # None /\ unit.state.tag # "Validated" => unit.rust.unsafe <= Ceiling

IInv == TypeOK /\ BestInv /\ UnitInv /\ LoopInv /\ SpentInv /\ DeliveredInv

=============================================================================
