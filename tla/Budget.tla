------------------------------- MODULE Budget -------------------------------
(***************************************************************************)
(* The spending limits of one migration run (noricum-core/src/budget.rs).  *)
(* Two quantities are metered: LLM calls and estimated tokens.  Either     *)
(* limit may be absent (None).                                             *)
(***************************************************************************)
EXTENDS Naturals

CONSTANTS
  None,       \* an absent limit (Option::None)
  MaxCalls,   \* config.max_llm_calls
  MaxTokens   \* config.max_tokens_budget

ASSUME BudgetAssumption ==
  /\ None \notin Nat
  /\ MaxCalls \in Nat \union {None}
  /\ MaxTokens \in Nat \union {None}

(***************************************************************************)
(* The call limit is soft: check_budget refuses only beyond 120% of it.    *)
(***************************************************************************)
HardCallLimit(max) == max + max \div 5

WithinTokens(tokens) == MaxTokens = None \/ tokens <= MaxTokens

WithinCalls(calls) == MaxCalls = None \/ calls <= HardCallLimit(MaxCalls)

\* check_budget(..) returns Ok
WithinBudgetOfCalls(calls, tokens) == WithinCalls(calls)   \* slip: tokens forgotten
WithinBudget(calls, tokens) == WithinTokens(tokens) /\ WithinCalls(calls)

(***************************************************************************)
(* budget_phase: how far a modular migration degrades as its calls run     *)
(* out.  The percentage is an integer division and a limit of zero means   *)
(* no limit.                                                               *)
(***************************************************************************)
BudgetPhase(max, calls) ==
  IF max = None \/ max = 0 THEN "Normal"
  ELSE LET pct == (calls * 100) \div max IN
       IF pct >= 100 THEN "SaveAndExit"
       ELSE IF pct >= 95 THEN "AssembleNow"
       ELSE IF pct >= 80 THEN "SkipRepairs"
       ELSE "Normal"

\* compute_adaptive_budget: ten calls a module and 25 for the rest, or the
\* configured limit if that is larger.
AdaptiveBudget(modules, limit) ==
  LET adaptive == modules * 10 + 25 IN
  IF limit = None \/ limit < adaptive THEN adaptive ELSE limit

=============================================================================
