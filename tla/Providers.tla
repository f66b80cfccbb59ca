------------------------------ MODULE Providers ------------------------------
(***************************************************************************)
(* Which provider and which model a request goes to                        *)
(* (noricum-agents/src/providers.rs): client and model are chosen by       *)
(* different functions from the same configuration, and a request works    *)
(* only when they agree.  And which of several answers is taken, when an   *)
(* ensemble is asked (noricum-agents/src/ensemble_translation.rs,          *)
(* noricum-core/src/ensemble.rs); costs are in the unit of Price.          *)
(***************************************************************************)
EXTENDS Naturals, Sequences, SequencesExt, FiniteSetsExt

AProvider == {"anthropic", "deepseek", "ollama"}
Difficulties == {"easy", "medium", "hard"}
Tasks == {"analysis", "type_contract", "translation", "repair", "completion", "test_gen"}

\* ProviderConfig: the preferred provider, and those there is a key for.
Configs == [primary : AProvider, keys : SUBSET {"anthropic", "deepseek"}]

\* create_llm_client
CreateClient(conf) ==
  IF conf.primary = "ollama" THEN "ollama"
  ELSE IF conf.primary = "deepseek" /\ "deepseek" \in conf.keys THEN "deepseek"
  ELSE IF "anthropic" \in conf.keys THEN "anthropic"
  ELSE IF "deepseek" \in conf.keys THEN "deepseek"
  ELSE "ollama"

ModelOf(provider, difficulty, task) ==
  CASE provider = "ollama" -> "local"
    [] provider = "deepseek" -> IF difficulty = "hard" THEN "reasoner" ELSE "chat"
    [] provider = "anthropic" ->
         IF difficulty = "hard" THEN "opus"
         ELSE IF difficulty = "medium" \/ task = "analysis" THEN "sonnet" ELSE "haiku"

OwnerOf(model) ==
  CASE model = "local" -> "ollama"
    [] model \in {"reasoner", "chat"} -> "deepseek"
    [] model \in {"opus", "sonnet", "haiku"} -> "anthropic"

\* Slip: the preferred provider is taken without a key.
SelectModelUnkeyed(conf, difficulty, task) ==
  LET chosen == IF conf.primary = "deepseek" THEN "deepseek" ELSE CreateClient(conf)
  IN [provider |-> chosen, model |-> ModelOf(chosen, difficulty, task)]

\* select_model
SelectModel(conf, difficulty, task) ==
  LET chosen ==
        CASE conf.primary = "ollama" -> "ollama"
          [] conf.primary = "deepseek" /\ "deepseek" \in conf.keys -> "deepseek"
          [] OTHER -> IF "anthropic" \in conf.keys THEN "anthropic"
                      ELSE IF "deepseek" \in conf.keys THEN "deepseek" ELSE "ollama"
  IN [provider |-> chosen, model |-> ModelOf(chosen, difficulty, task)]

\* select_repair_model: DeepSeek, when preferred, repairs with its fast model.
SelectRepairModel(conf, difficulty) ==
  IF conf.primary = "deepseek" /\ "deepseek" \in conf.keys
  THEN [provider |-> "deepseek", model |-> "chat"]
  ELSE SelectModel(conf, difficulty, "repair")

-----------------------------------------------------------------------------
\* LlmClientPool::from_config; a local client can always be made.
Pool(conf) == conf.keys \union {"ollama"}

NotAvailable == [provider |-> "none", model |-> "none", client |-> "none"]
NoOverride == [provider |-> "none", model |-> "none"]

Resolved(conf, selected) ==
  IF selected.provider \in Pool(conf)
  THEN [provider |-> selected.provider, model |-> selected.model, client |-> selected.provider]
  ELSE NotAvailable

\* resolve_task: an override may name a provider, a model or both.
ResolveTask(conf, override, task, difficulty) ==
  LET default == SelectModel(conf, difficulty, task)
      provider == IF override.provider = "none" THEN default.provider ELSE override.provider
      own == IF override.provider = "none" THEN default.model
             ELSE ModelOf(provider, difficulty, "any")
  IN Resolved(conf, [provider |-> provider,
                     model |-> IF override.model = "none" THEN own ELSE override.model])

\* default_client of a pool
DefaultClient(conf) ==
  CASE conf.primary = "ollama" -> "ollama"
    [] conf.primary = "deepseek" /\ "deepseek" \in conf.keys -> "deepseek"
    [] OTHER -> IF "anthropic" \in conf.keys THEN "anthropic"
                ELSE IF "deepseek" \in conf.keys THEN "deepseek" ELSE "ollama"

-----------------------------------------------------------------------------
(***************************************************************************)
(* The choice among the candidates of an ensemble.                         *)
(***************************************************************************)
Strategies == {"BestScore", "FirstCompiles", "Tournament"}
NoCandidate == [compiles |-> FALSE, score |-> 0, unsafe |-> 0, cost |-> 0, label |-> 0]

Compiling(cands) == {i \in DOMAIN cands : cands[i].compiles}

\* max_by_key keeps the last of equals.
HighestScore(cands) ==
  LET best == {i \in DOMAIN cands : \A j \in DOMAIN cands : cands[j].score <= cands[i].score}
  IN cands[Max(best)]

\* A stable sort by score, then by the blocks of unsafe; no specifications here.
Before(a, b) == a.score > b.score \/ (a.score = b.score /\ a.unsafe < b.unsafe)

FirstInOrder(cands, places) ==
  LET top == {i \in places : \A j \in places : ~Before(cands[j], cands[i])}
  IN cands[Min(top)]

\* select_best_score
SelectBestScore(cands) ==
  IF Compiling(cands) = {} THEN HighestScore(cands) ELSE FirstInOrder(cands, Compiling(cands))

\* select_first_compiles
SelectFirstCompiles(cands) ==
  IF Compiling(cands) = {} THEN cands[1] ELSE cands[Min(Compiling(cands))]

\* compare_candidates
Better(a, b) ==
  IF a.compiles # b.compiles THEN (IF a.compiles THEN a ELSE b)
  ELSE IF a.score # b.score THEN (IF a.score > b.score THEN a ELSE b)
  ELSE IF a.unsafe # b.unsafe THEN (IF a.unsafe < b.unsafe THEN a ELSE b)
  ELSE IF a.cost <= b.cost THEN a ELSE b

\* Slip: a candidate without an opponent is left behind.
SelectTournamentNoBye(cands) ==
  LET Matches(r) == [k \in 1 .. (IF Len(r) = 1 THEN 1 ELSE Len(r) \div 2) |->
                       IF Len(r) = 1 THEN r[1] ELSE Better(r[2 * k - 1], r[2 * k])]
      after[n \in 0 .. Len(cands)] == IF n = 0 THEN cands ELSE Matches(after[n - 1])
  IN after[Len(cands)][1]

\* select_tournament: pairs of neighbours, the odd one goes on without a match.
Round(r) ==
  [k \in 1 .. (Len(r) + 1) \div 2 |->
     IF 2 * k <= Len(r) THEN Better(r[2 * k - 1], r[2 * k]) ELSE r[2 * k - 1]]

SelectTournament(cands) ==
  LET after[n \in 0 .. Len(cands)] == IF n = 0 THEN cands ELSE Round(after[n - 1])
  IN after[Len(cands)][1]

\* select_best
SelectBest(cands, strategy) ==
  IF cands = <<>> THEN NoCandidate
  ELSE CASE strategy = "BestScore" -> SelectBestScore(cands)
         [] strategy = "FirstCompiles" -> SelectFirstCompiles(cands)
         [] strategy = "Tournament" -> SelectTournament(cands)

\* should_trigger_ensemble, of a unit that is being repaired or was given up.
TriggersEnsemble(unit, enabled) ==
  enabled /\ \/ unit.state = "Repairing" /\ unit.iter >= 2 /\ (~unit.compiles \/ unit.score < 70)
             \/ unit.state = "FallbackUnsafe"

\* apply_ensemble_result: one of two ways to be better is enough.
ApplyWinner(unit, winner) ==
  IF winner # NoCandidate
     /\ ((winner.compiles /\ ~unit.compiles) \/ winner.score > unit.score)
  THEN [unit EXCEPT !.compiles = winner.compiles, !.score = winner.score,
                    !.state = "Refined", !.rust = winner.label]
  ELSE unit

=============================================================================
