-------------------------- MODULE ModularMigration --------------------------
(***************************************************************************)
(* migrate_file_modular (noricum-core/src/orchestrator.rs): the waves of   *)
(* modules of a large file.  The modules of a wave run concurrently, each  *)
(* metering its own calls; when all have ended their results are merged    *)
(* and the budget decides how the run goes on: with or without repairs, or *)
(* straight to assembly.                                                   *)
(***************************************************************************)
EXTENDS Budget, Sequences

CONSTANTS
  N,         \* number of modules, if more than one: else the file is not split
  Results    \* the results a module may end with

Modules == 0 .. N - 1

(***************************************************************************)
(* A module ends with an output, or without one (its translation failed),  *)
(* or with an error: its own tokens beyond the budget ("tokens") or        *)
(* anything else, its own calls beyond the limit included ("error").       *)
(* repaired tells whether repairs were among its calls.                    *)
(***************************************************************************)
ASSUME ModularAssumption ==
  /\ N \in Nat /\ N > 1
  /\ Results \subseteq [kind: {"output", "none", "tokens", "error"}, validated: BOOLEAN,
                        repaired: BOOLEAN, calls: Nat, tokens: Nat]
  /\ \A r \in Results : r.validated => r.kind = "output"
  /\ None \notin Results

\* P15: the effective limit on calls, and the limits that go with it.
Limit == AdaptiveBudget(N, MaxCalls)
Effective == INSTANCE Budget WITH MaxCalls <- Limit

(***************************************************************************)
(* The waves module_waves may give: any ordered partition of the modules.  *)
(* (With every module of a wave called by one of the wave before, it is    *)
(* the one that module_waves computes.)                                    *)
(***************************************************************************)
OrderedPartitions ==
  {p \in UNION {[1 .. k -> (SUBSET Modules) \ {{}}] : k \in 1 .. N} :
     /\ UNION {p[i] : i \in DOMAIN p} = Modules
     /\ \A i, j \in DOMAIN p : i # j => p[i] \intersect p[j] = {}}

VARIABLES
  pc,
  waves,
  w,             \* the wave that runs
  repairs,       \* max_repair_iterations has not been set to 0
  results,       \* the results of the modules that have ended
  outputs,       \* the modules of module_outputs
  metered,       \* total_metrics
  allValidated   \* all_validated

vars == <<pc, waves, w, repairs, results, outputs, metered, allValidated>>

Init ==
  /\ pc = "running"
  /\ waves \in OrderedPartitions
  /\ w = 1
  /\ repairs = TRUE
  /\ results = [m \in Modules |-> None]
  /\ outputs = {}
  /\ metered = [calls |-> 0, tokens |-> 0]
  /\ allValidated = TRUE

-----------------------------------------------------------------------------
\* Module m ends with result r; without repairs allowed it makes none.
Finish(m, r) ==
  /\ pc = "running"
  /\ m \in waves[w]
  /\ results[m] = None
  /\ r.repaired => repairs
  /\ results' = [results EXCEPT ![m] = r]
  /\ UNCHANGED <<pc, waves, w, repairs, outputs, metered, allValidated>>

WaveEnded == pc = "running" /\ \A m \in waves[w] : results[m] # None

Ended(kinds) == {m \in waves[w] : results[m].kind \in kinds}

\* Tokens beyond the budget in one module end the whole run.
WaveFails ==
  /\ WaveEnded
  /\ Ended({"tokens"}) # {}
  /\ pc' = "aborted"
  /\ UNCHANGED <<waves, w, repairs, results, outputs, metered, allValidated>>

\* What modules add up to, one after the other.
Total(amount) ==
  LET sum[k \in 0 .. N] == IF k = 0 THEN 0 ELSE sum[k - 1] + amount[k - 1]
  IN sum[N]

CallsOf(S) == [m \in Modules |-> IF m \in S THEN results[m].calls ELSE 0]
TokensOf(S) == [m \in Modules |-> IF m \in S THEN results[m].tokens ELSE 0]

\* What modules that failed with an error spent is lost.
Metered ==
  [calls |-> metered.calls + Total(CallsOf(Ended({"output", "none"}))),
   tokens |-> metered.tokens + Total(TokensOf(Ended({"output", "none"})))]

Validated == allValidated /\ \A m \in waves[w] : results[m].validated

Phase == BudgetPhase(Limit, Metered.calls)

\* Slip: the run stops before the outputs of the wave are taken over.
OutputsUnlessLate ==
  IF Phase \in {"AssembleNow", "SaveAndExit"} THEN outputs
  ELSE outputs \union Ended({"output"})

\* Within a wave they are sorted by index: their order is that of the waves.
Outputs == outputs \union Ended({"output"})

MergeWave ==
  /\ WaveEnded
  /\ Ended({"tokens"}) = {}
  /\ metered' = Metered
  /\ allValidated' = Validated
  /\ outputs' = Outputs
  /\ \/ /\ Phase \in {"AssembleNow", "SaveAndExit"}     \* and no check_budget
        /\ pc' = "assemble"
        /\ UNCHANGED <<w, repairs>>
     \/ /\ Phase \in {"SkipRepairs", "Normal"}
        /\ repairs' = (repairs /\ Phase # "SkipRepairs")
        /\ IF ~Effective!WithinBudget(metered'.calls, metered'.tokens)
           THEN pc' = "aborted" /\ w' = w
           ELSE IF w = Len(waves) THEN pc' = "assemble" /\ w' = w
           ELSE pc' = "running" /\ w' = w + 1
  /\ UNCHANGED <<waves, results>>

\* Without any output the file is translated in chunks after all.
Assemble ==
  /\ pc = "assemble"
  /\ pc' = IF outputs = {} THEN "fallback" ELSE "success"
  /\ UNCHANGED <<waves, w, repairs, results, outputs, metered, allValidated>>

\* The type contract or the output crate cannot be set up.
SetupFails ==
  /\ pc = "running" /\ w = 1 /\ \A m \in Modules : results[m] = None
  /\ pc' = "aborted"
  /\ UNCHANGED <<waves, w, repairs, results, outputs, metered, allValidated>>

\* The modules of the output crate cannot be written.
ToolFails ==
  /\ pc = "assemble" /\ outputs # {}
  /\ pc' = "aborted"
  /\ UNCHANGED <<waves, w, repairs, results, outputs, metered, allValidated>>

Finished == pc \in {"success", "fallback", "aborted"} /\ UNCHANGED vars

Next ==
  \/ \E m \in Modules, r \in Results : Finish(m, r)
  \/ WaveFails
  \/ MergeWave
  \/ Assemble
  \/ SetupFails
  \/ ToolFails
  \/ Finished

Spec == Init /\ [][Next]_vars

-----------------------------------------------------------------------------
(***************************************************************************)
(* Properties.                                                             *)
(***************************************************************************)
\* Types of the variables.
TypeOK ==
  /\ pc \in {"running", "assemble", "success", "fallback", "aborted"}
  /\ waves \in OrderedPartitions
  /\ w \in DOMAIN waves
  /\ repairs \in BOOLEAN
  /\ results \in [Modules -> Results \union {None}]
  /\ outputs \subseteq Modules
  /\ metered \in [calls: Nat, tokens: Nat]
  /\ allValidated \in BOOLEAN

\* What the merge keeps: an assembled file holds every output its waves gave,
\* and a module is missing because it failed or because the calls ran out.
MissingModulesExplained ==
  pc = "success" =>
    \A m \in Modules \ outputs :
      \/ results[m] # None /\ results[m].kind \in {"none", "error"}
      \/ results[m] = None /\ metered.calls * 100 >= 95 * Limit

\* Modules of the waves that were run.
Started == {m \in Modules : \E i \in 1 .. w : m \in waves[i]}

\* Of the modules it ran, a run that calls itself validated has lost none.
AllValidatedIsTrue ==
  pc = "success" /\ allValidated =>
    \A m \in Started : results[m].kind = "output" /\ results[m].validated

\* The calls a run reports are those of the modules that did not fail with an
\* error, also of modules that have no output.
CallsMetered ==
  pc \in {"assemble", "success", "fallback"} =>
    metered.calls =
      Total(CallsOf({m \in Modules : results[m] # None /\ results[m].kind # "error"}))

\* What a run of concurrent modules hands over it can account for: the modules that
\* are missing, the word validated, the calls.
RunAccountedFor == MissingModulesExplained /\ AllValidatedIsTrue /\ CallsMetered

\* P34: the budget decides between waves.  A wave starts only below 95% of the limit
\* on calls, and from 80% on its modules do not repair; and the tokens of a
\* delivered run are within the budget, unless its calls ran out in the last wave:
\* that skips check_budget.
BudgetDecidesBetweenWaves ==
  /\ [][w' # w => /\ metered'.calls * 100 < 95 * Limit
                  /\ metered'.calls * 100 >= 80 * Limit => ~repairs']_vars
  /\ [](pc = "success" /\ metered.calls * 100 < 95 * Limit => WithinTokens(metered.tokens))

(***************************************************************************)
(* The inductive invariant behind the properties, in named parts.          *)
(***************************************************************************)
\* The modules whose results have been merged.
Merged ==
  {m \in Modules : \E i \in 1 .. (IF pc = "running" THEN w - 1 ELSE w) : m \in waves[i]}

\* What the variables of the loop hold is what the merged modules gave.
MergeInv ==
  /\ \A m \in Merged : results[m] # None /\ results[m].kind # "tokens"
  /\ outputs = {m \in Merged : results[m].kind = "output"}
  /\ allValidated => \A m \in Merged : results[m].validated
  /\ metered.calls = Total(CallsOf({m \in Merged : results[m].kind # "error"}))
  /\ \A m \in Modules \ Started : results[m] = None

\* The run goes to assembly after its last wave, or as its calls run out; only
\* then may its tokens be beyond the budget.
AssemblyInv ==
  metered.calls * 100 >= 95 * Limit \/ (w = Len(waves) /\ WithinTokens(metered.tokens))

IInv ==
  /\ TypeOK
  /\ pc # "aborted" => MergeInv
  /\ pc \in {"assemble", "success", "fallback"} => AssemblyInv

=============================================================================
