-------------------------- MODULE RepairLoop_proofs --------------------------
(***************************************************************************)
(* Proofs about RepairLoop, for every set of texts and every limit.        *)
(***************************************************************************)
EXTENDS RepairLoop, TLAPS

-----------------------------------------------------------------------------
(***************************************************************************)
(* Lemmas about the operators.                                             *)
(***************************************************************************)

\* The number of iterations is a natural number.
LEMMA MaxItersType == MaxIters \in Nat
  BY RepairLoopAssumption DEF MaxIters, EffectiveRepairIterations

\* What a text of the instance is known to satisfy.
LEMMA TextFacts ==
  ASSUME NEW t \in Texts
  PROVE  /\ t.compiles \in BOOLEAN /\ t.substance \in BOOLEAN
         /\ t.errors \in Nat /\ t.unsafe \in Nat /\ t.astUnsafe \in Nat
         /\ t.score \in 0..100 /\ t.hints \in Nat /\ t.mismatches \in Nat
         /\ t.tokens \in Nat
         /\ t.astUnsafe <= t.unsafe
         /\ ~t.substance => t.score <= StubScoreCap
         /\ t # None
  BY RepairLoopAssumption DEF Text, GateCountsNoMore, StubsScoreLow, HintCounts

\* A verdict leads to a state of the machine.
LEMMA StateAfterType ==
  ASSUME NEW s \in MigrationState, NEW passed \in BOOLEAN, NEW max \in Nat
  PROVE  StateAfter(s, passed, max) \in MigrationState
  BY DEF StateAfter, MigrationState, In, Repairing, Tags

\* The differential test has three outcomes, and its feedback is a number.
LEMMA DiffTestType ==
  ASSUME NEW t \in Texts, NEW h \in BOOLEAN
  PROVE  /\ DiffTest(t, h) \in {"none", "pass", "fail"}
         /\ DiffFeedback(t, h) \in Nat
         /\ Passed(t, h) \in BOOLEAN
  BY TextFacts DEF DiffTest, DiffFeedback, Passed

\* The state a graduated unit gets is one of the machine's.
LEMMA GraduatedTagType ==
  ASSUME NEW c, NEW u, NEW s, NEW h, NEW e
  PROVE  In(GraduatedTag(c, u, s, h, e)) \in MigrationState
  BY DEF GraduatedTag, MigrationState, In, Tags

\* The ceiling is a number, at least the baseline.
LEMMA CeilingType ==
  ASSUME baseline \in Nat
  PROVE  Ceiling \in Nat /\ baseline <= Ceiling
  BY RepairLoopAssumption DEF Ceiling

\* Recording a verdict keeps the unit well typed, and records the score and
\* unsafe count of the unit's own text.
LEMMA ApplyFacts ==
  ASSUME NEW h \in BOOLEAN, NEW t \in Texts, NEW s \in MigrationState,
         NEW v, v = Apply(t, s, h, MaxIters)
  PROVE  /\ v \in [rust: Texts, state: MigrationState, score: 0..100, unsafe: Nat,
                    errors: Nat, feedback: Nat]
         /\ v.rust = t /\ v.score = t.score /\ v.unsafe = t.unsafe
         /\ v.state = StateAfter(s, Passed(t, h), MaxIters)
  <1>1. StateAfter(s, Passed(t, h), MaxIters) \in MigrationState
    BY DiffTestType, StateAfterType, MaxItersType
  <1>2. QED
    BY <1>1, DiffTestType, TextFacts DEF Apply

\* A text that passes validation may be delivered as Validated.
LEMMA PassedIsWarranted ==
  ASSUME NEW t \in Texts, NEW h \in BOOLEAN, Passed(t, h)
  PROVE  Promise!Warranted(t, "Validated")
  <1>1. t.compiles /\ t.score >= MinScore
    BY TextFacts, MinScoreAssumption DEF Passed, RequiredScore
  <1>2. MinScore > StubScoreCap => t.substance
    BY <1>1, TextFacts, MinScoreAssumption DEF StubScoreCap
  <1>3. QED
    BY <1>1, <1>2 DEF Promise!Warranted, Promise!StubScoreCap, StubScoreCap

\* A text graduated on its own figures may be delivered under its grade.
LEMMA GradeIsWarranted ==
  ASSUME NEW t \in Texts, NEW e \in Nat, t.substance,
         NEW s, s = GraduatedTag(t.compiles, t.unsafe, t.score, GradeThreshold, e)
  PROVE  Promise!Warranted(t, s)
  <1>0. /\ t.score \in Nat /\ t.unsafe \in Nat
        /\ t.compiles \in BOOLEAN /\ t.substance = TRUE
    BY TextFacts
  <1>1. CASE t.compiles /\ t.unsafe = 0 /\ t.score >= 80
    <2>1. s = "Validated"
      BY <1>1 DEF GraduatedTag, GradeThreshold
    <2>2. QED
      BY <1>1, <2>1, <1>0, MinScoreAssumption DEF Promise!Warranted, Promise!StubScoreCap, StubScoreCap
  <1>2. CASE t.compiles /\ t.unsafe > 0 /\ t.score >= 50
    <2>1. s = "CompilesUnsafe"
      BY <1>2, <1>0 DEF GraduatedTag, GradeThreshold
    <2>2. QED
      BY <1>2, <2>1, <1>0, MinScoreAssumption DEF Promise!Warranted, Promise!StubScoreCap, StubScoreCap
  <1>3. CASE t.compiles /\ t.score < 80 /\ ~(t.unsafe > 0 /\ t.score >= 50)
    <2>1. s = "CompilesLowScore"
      BY <1>3, <1>0 DEF GraduatedTag, GradeThreshold
    <2>2. QED
      BY <1>3, <2>1, <1>0, MinScoreAssumption DEF Promise!Warranted, Promise!StubScoreCap, StubScoreCap
  <1>4. CASE ~t.compiles /\ e <= 5 /\ t.score >= 50
    <2>1. s = "NearlyCompiles"
      BY <1>4 DEF GraduatedTag
    <2>2. QED
      BY <1>4, <2>1, <1>0, MinScoreAssumption DEF Promise!Warranted, Promise!StubScoreCap, StubScoreCap
  <1>5. CASE ~t.compiles /\ ~(e <= 5 /\ t.score >= 50)
    <2>1. s = "FallbackUnsafe"
      BY <1>5 DEF GraduatedTag
    <2>2. QED
      BY <2>1, <1>0, MinScoreAssumption DEF Promise!Warranted, Promise!StubScoreCap, StubScoreCap
  <1>6. QED
    BY <1>1, <1>2, <1>3, <1>4, <1>5, <1>0 DEF GradeThreshold

\* A better text leaves the best version describing one text within the
\* ceiling, and so does any other.
LEMMA KeepBestFacts ==
  ASSUME TypeOK, BestInv, NEW t \in Texts, KeepBest(t), baseline' = baseline
  PROVE  /\ best' \in [text: MaybeText, score: 0..100, unsafe: Nat, compiles: BOOLEAN]
         /\ BestInv'
         /\ best.text # None => best'.text # None
  <1>1. Ceiling' = Ceiling
    BY RepairLoopAssumption DEF Ceiling
  <1>2. CASE Improves(t)
    <2>1. best' = BestIs(t)
      BY <1>2 DEF KeepBest
    <2>2. t.substance /\ t.unsafe <= Ceiling
      BY <1>2 DEF Improves
    <2>3. QED
      BY <1>1, <2>1, <2>2, TextFacts DEF BestIs, BestInv, MaybeText
  <1>3. CASE ~Improves(t)
    <2>1. best' = best
      BY <1>3 DEF KeepBest
    <2>2. QED
      BY <1>1, <2>1 DEF BestInv, BestIs, TypeOK
  <1>4. QED
    BY <1>2, <1>3

-----------------------------------------------------------------------------
(***************************************************************************)
(* The inductive invariant.                                                *)
(***************************************************************************)
LEMMA InitIInv == Init => IInv
  <1> SUFFICES ASSUME Init PROVE IInv
    OBVIOUS
  <1>1. TypeOK
    BY RepairLoopAssumption DEF Init, TypeOK, Places, MaybeText, MigrationState, In, Tags
  <1>2. BestInv /\ UnitInv /\ LoopInv /\ DeliveredInv
    BY RepairLoopAssumption DEF Init, BestInv, UnitInv, LoopInv, DeliveredInv, In, Looping
  <1>3. SpentInv
    BY MaxItersType, RepairLoopAssumption DEF Init, SpentInv, WithinBudget
  <1>4. QED
    BY <1>1, <1>2, <1>3 DEF IInv

\* Stage 6 establishes the invariant's parts about the best version.
LEMMA ValidateKeepsIInv ==
  ASSUME IInv, ValidateTranslation
  PROVE  IInv'
  <1> DEFINE t == unit.rust
             h == job.harness
  <1>1. /\ t \in Texts /\ h \in BOOLEAN /\ unit.state \in MigrationState
        /\ unit.state.tag = "Refined"
    BY DEF IInv, TypeOK, UnitInv, ValidateTranslation
  <1>2. PICK failures \in SpecFailures :
          unit' = [Apply(t, unit.state, h, MaxIters) EXCEPT !.feedback = @ + failures]
    BY RepairLoopAssumption DEF ValidateTranslation
  <1>3. /\ unit' \in [rust: Texts, state: MigrationState, score: 0..100, unsafe: Nat,
                     errors: Nat, feedback: Nat]
        /\ unit'.rust = t /\ unit'.score = t.score /\ unit'.unsafe = t.unsafe
        /\ unit'.state = StateAfter(unit.state, Passed(t, h), MaxIters)
    <2>1. failures \in Nat
      BY RepairLoopAssumption
    <2>2. QED
      BY <1>1, <1>2, <2>1, ApplyFacts
  <1>4. baseline' = t.unsafe /\ job' = job /\ loop' = loop /\ spent' = spent
    BY DEF ValidateTranslation
  <1>5. Ceiling' \in Nat /\ t.unsafe <= Ceiling'
    BY <1>1, <1>4, TextFacts, CeilingType, RepairLoopAssumption DEF Ceiling
  <1>6. /\ best' \in [text: MaybeText, score: 0..100, unsafe: Nat, compiles: BOOLEAN]
        /\ BestInv'
    <2>1. CASE t.substance
      <3>1. best' = BestIs(t)
        BY <2>1 DEF ValidateTranslation
      <3>2. QED
        BY <1>1, <1>5, <2>1, <3>1, TextFacts DEF BestIs, BestInv, MaybeText
    <2>2. CASE ~t.substance
      <3>1. best' = [text |-> None, score |-> 0, unsafe |-> t.unsafe, compiles |-> FALSE]
        BY <2>2 DEF ValidateTranslation
      <3>2. QED
        BY <1>1, <3>1, TextFacts DEF BestInv, MaybeText
    <2>3. QED
      BY <2>1, <2>2
  <1>7. TypeOK'
    <2>1. pc' \in Places
      BY DEF ValidateTranslation, Places
    <2>2. QED
      BY <1>1, <1>3, <1>4, <1>6, <2>1, TextFacts DEF IInv, TypeOK
  <1>8. UnitInv'
    BY <1>1, <1>3, <1>5, TextFacts DEF ValidateTranslation, UnitInv, Looping
  <1>9. loop.iteration \in Nat /\ spent.calls \in Nat /\ spent.tokens \in Nat
    BY DEF IInv, TypeOK
  <1>10. LoopInv'
    BY <1>1, <1>3, <1>4, <1>9
    DEF IInv, LoopInv, ValidateTranslation, Looping, StateAfter, Repairing, In
  <1>11. SpentInv'
    BY <1>4, <1>9 DEF IInv, SpentInv, ValidateTranslation, WithinTokens
  <1>12. DeliveredInv'
    <2>1. CASE Passed(t, h)
      BY <1>1, <1>3, <1>5, <2>1, PassedIsWarranted, TextFacts
         DEF DeliveredInv, StateAfter, In
    <2>2. CASE ~Passed(t, h)
      BY <2>2 DEF DeliveredInv, ValidateTranslation
    <2>3. QED
      BY <2>1, <2>2
  <1>13. QED
    BY <1>6, <1>7, <1>8, <1>10, <1>11, <1>12 DEF IInv

\* The ceiling does not move with the baseline, nor the best version with the
\* rest: the part of the invariant most steps leave alone.
LEMMA BestUnchanged ==
  ASSUME BestInv, UNCHANGED <<best, baseline>>
  PROVE  BestInv' /\ Ceiling' = Ceiling
  BY DEF BestInv, BestIs, Ceiling

\* A step that takes a verdict on text t, as Retranslate and Revalidate do, and
\* either delivers it or goes on to the next iteration.
LEMMA VerdictKeepsIInv ==
  ASSUME IInv, NEW t \in Texts,
         loop.iteration <= MaxIters, unit.state.tag = "Repairing",
         unit.state.n <= loop.iteration,
         t.astUnsafe > Ceiling => loop.retranslated,
         unit' = Apply(t, unit.state, job.harness, MaxIters),
         KeepBest(t),
         IF Passed(t, job.harness)
           THEN pc' = "done" /\ loop'.iteration = loop.iteration
           ELSE pc' = "loop" /\ loop'.iteration = loop.iteration + 1,
         loop' \in [iteration: Nat, prev: Nat \union {None}, stall: Nat,
                   retranslated: BOOLEAN],
         loop'.retranslated = loop.retranslated,
         spent' \in [calls: Nat, tokens: Nat],
         spent'.calls <= CallsBefore + loop.iteration,
         WithinTokens(spent'.tokens),
         UNCHANGED <<job, baseline>>
  PROVE  IInv'
  <1> DEFINE h == job.harness
  <1>1. TypeOK /\ BestInv /\ h \in BOOLEAN /\ unit.state \in MigrationState
        /\ loop.iteration \in Nat /\ loop.iteration >= 1 /\ unit.state.n \in Nat
    BY DEF IInv, TypeOK, MigrationState, LoopInv
  <1>2. /\ unit' \in [rust: Texts, state: MigrationState, score: 0..100, unsafe: Nat,
                     errors: Nat, feedback: Nat]
        /\ unit'.rust = t /\ unit'.score = t.score /\ unit'.unsafe = t.unsafe
        /\ unit'.state = StateAfter(unit.state, Passed(t, h), MaxIters)
    BY <1>1, ApplyFacts
  <1>3. Ceiling' = Ceiling
    BY DEF Ceiling
  <1>4. /\ best' \in [text: MaybeText, score: 0..100, unsafe: Nat, compiles: BOOLEAN]
        /\ BestInv'
    BY <1>1, KeepBestFacts
  <1>5. TypeOK'
    <2>1. pc' \in Places
      BY DEF Places
    <2>2. QED
      BY <1>1, <1>2, <1>4, <2>1 DEF TypeOK
  <1>6. UnitInv'
    BY <1>2, <1>3 DEF UnitInv, Looping
  <1>7. LoopInv'
    <2>1. CASE Passed(t, h)
      BY <1>1, <2>1 DEF LoopInv, Looping
    <2>2. CASE ~Passed(t, h) /\ unit.state.n >= MaxIters
      <3>1. unit'.state.tag = "FallbackUnsafe"
        BY <1>2, <2>2 DEF StateAfter, In
      <3>2. loop'.iteration > MaxIters
        BY <1>1, <2>2, MaxItersType
      <3>3. QED
        BY <1>1, <2>2, <3>1, <3>2 DEF LoopInv, Looping
    <2>3. CASE ~Passed(t, h) /\ ~(unit.state.n >= MaxIters)
      <3>1. unit'.state = Repairing(unit.state.n + 1)
        BY <1>2, <2>3 DEF StateAfter
      <3>2. unit'.state.tag = "Repairing" /\ unit'.state.n <= loop'.iteration
        BY <1>1, <2>3, <3>1 DEF Repairing
      <3>3. QED
        BY <1>1, <2>3, <3>2 DEF LoopInv, Looping
    <2>4. QED
      BY <2>1, <2>2, <2>3
  <1>8. SpentInv'
    BY <1>1, MaxItersType, RepairLoopAssumption DEF SpentInv, WithinTokens
  <1>9. DeliveredInv'
    <2>1. CASE Passed(t, h)
      <3>1. unit'.state.tag = "Validated"
        BY <1>2, <2>1 DEF StateAfter, In
      <3>2. QED
        BY <1>1, <1>2, <1>3, <2>1, <3>1, PassedIsWarranted DEF DeliveredInv
    <2>2. CASE ~Passed(t, h)
      BY <2>2 DEF DeliveredInv
    <2>3. QED
      BY <2>1, <2>2
  <1>10. QED
    BY <1>4, <1>5, <1>6, <1>7, <1>8, <1>9 DEF IInv

LEMMA RetranslateKeepsIInv ==
  ASSUME IInv, NEW t \in Texts, Retranslate(t)
  PROVE  IInv'
  <1>1. loop.iteration <= MaxIters /\ unit.state.tag = "Repairing"
        /\ unit.state.n <= loop.iteration /\ loop.retranslated
    BY MaxItersType DEF IInv, TypeOK, LoopInv, Looping, Retranslate
  <1>2. /\ loop' \in [iteration: Nat, prev: Nat \union {None}, stall: Nat,
                     retranslated: BOOLEAN]
        /\ loop'.retranslated = loop.retranslated
        /\ IF Passed(t, job.harness)
             THEN pc' = "done" /\ loop'.iteration = loop.iteration
             ELSE pc' = "loop" /\ loop'.iteration = loop.iteration + 1
    BY DEF IInv, TypeOK, Retranslate
  <1>3. spent' \in [calls: Nat, tokens: Nat]
        /\ spent'.calls <= CallsBefore + loop.iteration /\ WithinTokens(spent'.tokens)
    <2>1. /\ spent \in [calls: Nat, tokens: Nat] /\ loop.iteration \in Nat
          /\ spent.calls < CallsBefore + loop.iteration
          /\ WithinTokens(spent.tokens)
      BY DEF IInv, TypeOK, SpentInv, Retranslate
    <2>2. spent' = [spent EXCEPT !.calls = @ + 1]
      BY DEF Retranslate
    <2>3. spent' \in [calls: Nat, tokens: Nat]
          /\ spent'.calls = spent.calls + 1 /\ spent'.tokens = spent.tokens
      BY <2>1, <2>2
    <2>4. spent'.calls <= CallsBefore + loop.iteration
      BY <2>1, <2>3, RepairLoopAssumption
    <2>5. WithinTokens(spent'.tokens)
      BY <2>1, <2>3
    <2>6. QED
      BY <2>3, <2>4, <2>5
  <1>4. /\ unit' = Apply(t, unit.state, job.harness, MaxIters) /\ KeepBest(t)
        /\ UNCHANGED <<job, baseline>>
    BY DEF Retranslate
  <1>5. QED
    BY <1>1, <1>2, <1>3, <1>4, VerdictKeepsIInv

LEMMA RevalidateKeepsIInv ==
  ASSUME IInv, Revalidate
  PROVE  IInv'
  <1>1. unit.rust \in Texts
    BY DEF IInv, TypeOK
  <1>2. loop.iteration <= MaxIters /\ unit.state.tag = "Repairing"
        /\ unit.state.n <= loop.iteration
        /\ (unit.rust.astUnsafe > Ceiling => loop.retranslated)
    BY MaxItersType DEF IInv, TypeOK, UnitInv, LoopInv, Looping, Revalidate
  <1>3. /\ loop' \in [iteration: Nat, prev: Nat \union {None}, stall: Nat,
                     retranslated: BOOLEAN]
        /\ loop'.retranslated = loop.retranslated
        /\ IF Passed(unit.rust, job.harness)
             THEN pc' = "done" /\ loop'.iteration = loop.iteration
             ELSE pc' = "loop" /\ loop'.iteration = loop.iteration + 1
    BY DEF IInv, TypeOK, Revalidate, NextIteration
  <1>4. spent' \in [calls: Nat, tokens: Nat]
        /\ spent'.calls <= CallsBefore + loop.iteration /\ WithinTokens(spent'.tokens)
    BY DEF IInv, TypeOK, SpentInv, Revalidate, WithinTokens
  <1>5. /\ unit' = Apply(unit.rust, unit.state, job.harness, MaxIters)
        /\ KeepBest(unit.rust)
        /\ UNCHANGED <<job, baseline>>
    BY DEF Revalidate
  <1>6. QED
    BY <1>1, <1>2, <1>3, <1>4, <1>5, VerdictKeepsIInv

\* The steps inside an iteration that leave the text alone.
LEMMA BeginIterationKeepsIInv ==
  ASSUME IInv, BeginIteration
  PROVE  IInv'
  <1> DEFINE count == unit.errors + EffectiveFeedback
  <1>1. count \in Nat
    BY TextFacts DEF IInv, TypeOK, EffectiveFeedback
  <1>2. PICK stall \in Nat, again \in BOOLEAN :
          /\ loop' = [loop EXCEPT !.prev = count, !.stall = stall,
                                 !.retranslated = @ \/ again]
          /\ pc' = IF again THEN "retranslate" ELSE "repair"
    <2> DEFINE st == IF loop.prev = None THEN loop.stall
                     ELSE IF count = loop.prev /\ count > 0 THEN loop.stall + 1 ELSE 0
               ag == st >= StallThreshold /\ ~loop.retranslated
    <2>1. st \in Nat /\ ag \in BOOLEAN
      BY DEF IInv, TypeOK
    <2>2. /\ loop' = [loop EXCEPT !.prev = count, !.stall = st, !.retranslated = @ \/ ag]
          /\ pc' = IF ag THEN "retranslate" ELSE "repair"
      BY DEF BeginIteration
    <2> HIDE DEF st, ag
    <2>3. QED
      BY <2>1, <2>2
  <1> HIDE DEF count
  <1>3. loop' \in [iteration: Nat, prev: Nat \union {None}, stall: Nat,
                   retranslated: BOOLEAN]
        /\ loop'.iteration = loop.iteration
        /\ (loop.retranslated => loop'.retranslated)
        /\ (again => loop'.retranslated)
    BY <1>1, <1>2 DEF IInv, TypeOK
  <1>4. UNCHANGED <<job, unit, best, baseline, spent>>
        /\ pc = "loop" /\ loop.iteration <= MaxIters
        /\ pc' \in {"retranslate", "repair"} /\ (pc' = "retranslate" => again)
    BY <1>2 DEF BeginIteration
  <1>5. BestInv' /\ Ceiling' = Ceiling
    BY <1>4, BestUnchanged DEF IInv
  <1>6. TypeOK' /\ UnitInv' /\ DeliveredInv'
    BY <1>3, <1>4, <1>5 DEF IInv, TypeOK, Places, UnitInv, Looping, DeliveredInv
  <1>7. LoopInv' /\ SpentInv'
    BY <1>3, <1>4, MaxItersType, RepairLoopAssumption
    DEF IInv, TypeOK, LoopInv, SpentInv, Looping, WithinTokens
  <1>8. QED
    BY <1>5, <1>6, <1>7 DEF IInv

LEMMA RetranslationFailsKeepsIInv ==
  ASSUME IInv, RetranslationFails
  PROVE  IInv'
  <1>1. BestInv' /\ Ceiling' = Ceiling
    BY BestUnchanged DEF IInv, RetranslationFails
  <1>2. TypeOK' /\ UnitInv' /\ DeliveredInv'
    BY <1>1 DEF IInv, RetranslationFails, TypeOK, Places, UnitInv, Looping, DeliveredInv
  <1>3. LoopInv' /\ SpentInv'
    BY DEF IInv, RetranslationFails, LoopInv, SpentInv, Looping, WithinTokens
  <1>4. QED
    BY <1>1, <1>2, <1>3 DEF IInv

\* An iteration that is spent without a new text.
LEMMA SpentIterationKeepsIInv ==
  ASSUME IInv, pc = "repair", pc' = "loop",
         loop' = [loop EXCEPT !.iteration = @ + 1],
         spent' = [spent EXCEPT !.calls = @ + 1],
         UNCHANGED <<job, unit, best, baseline>>
  PROVE  IInv'
  <1>1. BestInv' /\ Ceiling' = Ceiling
    BY BestUnchanged DEF IInv
  <1>2. TypeOK' /\ UnitInv' /\ DeliveredInv'
    BY <1>1 DEF IInv, TypeOK, Places, UnitInv, Looping, DeliveredInv
  <1>3. LoopInv'
    BY MaxItersType DEF IInv, TypeOK, MigrationState, LoopInv, Looping
  <1>4. SpentInv'
    BY MaxItersType, RepairLoopAssumption DEF IInv, TypeOK, SpentInv, LoopInv, WithinTokens
  <1>5. QED
    BY <1>1, <1>2, <1>3, <1>4 DEF IInv

\* A reply within the ceiling becomes the text; the budget decides if the
\* migration goes on.
LEMMA ApplyRepairKeepsIInv ==
  ASSUME IInv, NEW t \in Texts, ApplyRepair(t)
  PROVE  IInv'
  <1>1. BestInv' /\ Ceiling' = Ceiling
    BY BestUnchanged DEF IInv, ApplyRepair
  <1>2. /\ unit' = [unit EXCEPT !.rust = t, !.state = Repairing(loop.iteration)]
        /\ UNCHANGED <<job, best, baseline, loop>>
        /\ pc = "repair" /\ t.astUnsafe <= Ceiling
        /\ loop.iteration \in Nat
    BY DEF IInv, TypeOK, ApplyRepair, Acceptable
  <1>3. Repairing(loop.iteration) \in MigrationState
    BY <1>2 DEF Repairing, MigrationState, Tags
  <1>4. /\ unit' \in [rust: Texts, state: MigrationState, score: 0..100, unsafe: Nat,
                     errors: Nat, feedback: Nat]
        /\ unit'.rust = t /\ unit'.state = Repairing(loop.iteration)
    BY <1>2, <1>3 DEF IInv, TypeOK
  <1>5. /\ spent' \in [calls: Nat, tokens: Nat]
        /\ spent'.calls = spent.calls + 1
        /\ pc' \in {"revalidate", "aborted"}
        /\ (pc' # "aborted" => WithinBudget(spent'.calls, spent'.tokens))
    BY TextFacts DEF IInv, TypeOK, ApplyRepair
  <1>6. TypeOK'
    BY <1>2, <1>4, <1>5 DEF IInv, TypeOK, Places
  <1>7. UnitInv' /\ DeliveredInv'
    BY <1>1, <1>2, <1>4, <1>5, TextFacts, CeilingType DEF IInv, TypeOK, UnitInv, DeliveredInv, Looping
  <1>8. LoopInv'
    BY <1>2, <1>4, <1>5 DEF IInv, LoopInv, Looping, Repairing
  <1>9. SpentInv'
    BY <1>2, <1>5, MaxItersType, RepairLoopAssumption
    DEF IInv, TypeOK, SpentInv, LoopInv, WithinBudget, WithinTokens
  <1>10. QED
    BY <1>1, <1>6, <1>7, <1>8, <1>9 DEF IInv

\* Stage 8 delivers the best text under its own grade.
LEMMA GradeKeepsIInv ==
  ASSUME IInv, Grade
  PROVE  IInv'
  <1> DEFINE tg == GraduatedTag(best.compiles, best.unsafe, best.score,
                                GradeThreshold, unit.errors)
  <1>1. BestInv' /\ Ceiling' = Ceiling
    BY BestUnchanged DEF IInv, Grade
  <1>2. In(tg) \in MigrationState /\ In(tg).tag = tg
    BY GraduatedTagType DEF In
  <1>3. /\ unit' = IF best.text # None
                   THEN [unit EXCEPT !.rust = best.text, !.score = best.score,
                                     !.unsafe = best.unsafe, !.state = In(tg)]
                   ELSE [unit EXCEPT !.rust = IF job.c2rust # None THEN job.c2rust ELSE @,
                                     !.state = In(tg)]
        /\ pc' = "done" /\ UNCHANGED <<job, best, baseline, loop, spent>>
    BY DEF Grade, Restored
  <1> HIDE DEF tg
  <1>4. /\ unit' \in [rust: Texts, state: MigrationState, score: 0..100, unsafe: Nat,
                     errors: Nat, feedback: Nat]
        /\ unit'.state.tag = tg
        /\ best.text # None => /\ unit'.rust = best.text
                               /\ unit'.score = best.score /\ unit'.unsafe = best.unsafe
    BY <1>2, <1>3 DEF IInv, TypeOK, MaybeText
  <1>5. TypeOK'
    BY <1>3, <1>4 DEF IInv, TypeOK, Places
  <1>6. UnitInv' /\ LoopInv' /\ SpentInv'
    BY <1>3, MaxItersType DEF IInv, UnitInv, LoopInv, SpentInv, Looping, WithinTokens, Grade
  <1>7. DeliveredInv'
    <2>1. CASE best.text = None
      <3>1. best.score = 0 /\ ~best.compiles
        BY <2>1 DEF IInv, BestInv
      <3>2. tg = "FallbackUnsafe"
        BY <3>1 DEF tg, GraduatedTag, GradeThreshold
      <3>3. QED
        BY <1>3, <1>4, <2>1, <3>2 DEF DeliveredInv, Promise!Warranted
    <2>2. CASE best.text # None
      <3>1. best.text \in Texts /\ best = BestIs(best.text) /\ best.text.substance
            /\ best.unsafe <= Ceiling /\ unit.errors \in Nat
        BY <2>2 DEF IInv, TypeOK, BestInv, MaybeText
      <3>2. /\ best.compiles = best.text.compiles /\ best.unsafe = best.text.unsafe
            /\ best.score = best.text.score
        BY <3>1 DEF BestIs
      <3>3. Promise!Warranted(best.text, tg)
        BY <3>1, <3>2, GradeIsWarranted DEF tg
      <3>4. best.text.astUnsafe <= Ceiling
        BY <3>1, <3>2, TextFacts, CeilingType DEF IInv, TypeOK
      <3>5. best.text.astUnsafe \in Nat /\ Ceiling \in Nat
        BY <3>1, TextFacts, CeilingType DEF IInv, TypeOK
      <3>6. QED
        BY <1>1, <1>3, <1>4, <2>2, <3>1, <3>2, <3>3, <3>4, <3>5 DEF DeliveredInv
    <2>3. QED
      BY <2>1, <2>2
  <1>8. QED
    BY <1>1, <1>5, <1>6, <1>7 DEF IInv

\* An error ends the migration; a finished one stays as it is.
LEMMA ToolFailsKeepsIInv ==
  ASSUME IInv, ToolFails
  PROVE  IInv'
  <1>1. BestInv' /\ Ceiling' = Ceiling
    BY BestUnchanged DEF IInv, ToolFails
  <1>2. TypeOK' /\ UnitInv' /\ DeliveredInv'
    BY <1>1 DEF IInv, ToolFails, TypeOK, Places, UnitInv, Looping, DeliveredInv
  <1>3. LoopInv' /\ SpentInv'
    BY DEF IInv, ToolFails, LoopInv, SpentInv, Looping, WithinTokens
  <1>4. QED
    BY <1>1, <1>2, <1>3 DEF IInv

LEMMA UnchangedKeepsIInv ==
  ASSUME IInv, UNCHANGED vars
  PROVE  IInv'
  <1>1. BestInv' /\ Ceiling' = Ceiling
    BY BestUnchanged DEF IInv, vars
  <1>2. TypeOK' /\ UnitInv' /\ DeliveredInv'
    BY <1>1 DEF IInv, vars, TypeOK, UnitInv, Looping, DeliveredInv
  <1>3. LoopInv' /\ SpentInv'
    BY DEF IInv, vars, LoopInv, SpentInv, Looping, WithinTokens
  <1>4. QED
    BY <1>1, <1>2, <1>3 DEF IInv

LEMMA NextKeepsIInv ==
  ASSUME IInv, [Next]_vars
  PROVE  IInv'
  <1>1. CASE ValidateTranslation
    BY <1>1, ValidateKeepsIInv
  <1>2. CASE BeginIteration
    BY <1>2, BeginIterationKeepsIInv
  <1>3. CASE RetranslationFails
    BY <1>3, RetranslationFailsKeepsIInv
  <1>4. CASE \E t \in Texts : Retranslate(t)
    BY <1>4, RetranslateKeepsIInv
  <1>5. CASE RepairFails
    BY <1>5, SpentIterationKeepsIInv DEF RepairFails, NextIteration
  <1>6. CASE \E t \in Texts : RejectRepair(t)
    BY <1>6, SpentIterationKeepsIInv DEF RejectRepair, NextIteration
  <1>7. CASE \E t \in Texts : ApplyRepair(t)
    BY <1>7, ApplyRepairKeepsIInv
  <1>8. CASE Revalidate
    BY <1>8, RevalidateKeepsIInv
  <1>9. CASE Grade
    BY <1>9, GradeKeepsIInv
  <1>10. CASE ToolFails
    BY <1>10, ToolFailsKeepsIInv
  <1>11. CASE Finished \/ UNCHANGED vars
    BY <1>11, UnchangedKeepsIInv DEF Finished
  <1>12. QED
    BY <1>1, <1>2, <1>3, <1>4, <1>5, <1>6, <1>7, <1>8, <1>9, <1>10, <1>11 DEF Next

\* The inductive invariant holds in every state the loop reaches.
THEOREM Invariance == Spec => []IInv
  <1>1. Init => IInv
    BY InitIInv
  <1>2. IInv /\ [Next]_vars => IInv'
    BY NextKeepsIInv
  <1>3. QED
    BY <1>1, <1>2, PTL DEF Spec

-----------------------------------------------------------------------------
(***************************************************************************)
(* What follows from it.                                                   *)
(***************************************************************************)

\* The variables keep their types: in particular the unit always holds one of
\* the texts that were produced, and a state of the machine.
THEOREM TypeCorrect == Spec => []TypeOK
  <1>1. IInv => TypeOK
    BY DEF IInv
  <1>2. QED
    BY <1>1, Invariance, PTL

\* A delivered unit reports the score and the unsafe count of the text it is
\* delivered with (Stage 8 restores all of the best version, or none).
THEOREM ReportCorrect == Spec => []ReportMatchesText
  <1>1. IInv => ReportMatchesText
    BY DEF IInv, DeliveredInv, ReportMatchesText
  <1>2. QED
    BY <1>1, Invariance, PTL

\* The P0 gate leaves the stall re-translation as the only way for a text above
\* the unsafe ceiling into the unit.
THEOREM CeilingHeld == Spec => []OverCeilingOnlyByRetranslation
  <1>1. IInv => OverCeilingOnlyByRetranslation
    BY DEF IInv, TypeOK, Places, DeliveredInv, UnitInv, Looping, OverCeilingOnlyByRetranslation
  <1>2. QED
    BY <1>1, Invariance, PTL

\* A best version that is delivered without validating has no more unsafe
\* blocks than the ceiling of P21 allows.
THEOREM FallbackWithinCeiling == Spec => []UnvalidatedWithinCeiling
  <1>1. IInv => UnvalidatedWithinCeiling
    BY DEF IInv, DeliveredInv, UnvalidatedWithinCeiling
  <1>2. QED
    BY <1>1, Invariance, PTL

\* The iteration a unit's state carries never runs ahead of the loop.
THEOREM StateInStep == Spec => []StateFollowsLoop
  <1>1. IInv => StateFollowsLoop
    BY DEF IInv, LoopInv, Looping, StateFollowsLoop
  <1>2. QED
    BY <1>1, Invariance, PTL

\* Nothing is delivered beyond the token budget, although only one of the
\* steps that call a model looks at it.
THEOREM TokensWithinBudget == Spec => []TokenBudgetKept
  <1>1. IInv => TokenBudgetKept
    BY DEF IInv, SpentInv, TokenBudgetKept
  <1>2. QED
    BY <1>1, Invariance, PTL

\* Stage 7 counts at most one call for each iteration it is allowed.
THEOREM CallsWithinIterations == Spec => []CallsBounded
  <1>1. IInv => CallsBounded
    BY DEF IInv, SpentInv, CallsBounded
  <1>2. QED
    BY <1>1, Invariance, PTL

\* Only a stall re-translation passes the unsafe ceiling, and what is delivered
\* without validating never does: both halves of CeilingKept.
THEOREM CeilingRespected == Spec => []CeilingKept
  <1>1. IInv => CeilingKept
    BY DEF IInv, TypeOK, Places, DeliveredInv, UnitInv, Looping, CeilingKept,
       OverCeilingOnlyByRetranslation, UnvalidatedWithinCeiling
  <1>2. QED
    BY <1>1, Invariance, PTL

\* Iterations, repair counts, calls and tokens stay in step on every path of the
\* loop, and within their limits.
THEOREM BudgetRespected == Spec => []BudgetKept
  <1>1. IInv => StateFollowsLoop
    BY DEF IInv, LoopInv, Looping, StateFollowsLoop
  <1>2. IInv => CallsBounded /\ TokenBudgetKept
    BY DEF IInv, SpentInv, CallsBounded, TokenBudgetKept
  <1>3. IInv => BudgetKept
    BY <1>1, <1>2 DEF BudgetKept
  <1>4. QED
    BY <1>3, Invariance, PTL

\* A step of the loop is a delivery, a failure or a stutter of the promise.
LEMMA StepImplementsDelivery ==
  ASSUME IInv, IInv', [Next]_vars
  PROVE  [Promise!Next]_(Promise!vars)
  <1>1. CASE pc \in {"done", "aborted"}
    <2>1. UNCHANGED vars
      BY <1>1 DEF Next, ValidateTranslation, BeginIteration, RetranslationFails,
         Retranslate, RepairFails, RejectRepair, ApplyRepair, Revalidate, Grade,
         ToolFails, Finished
    <2>2. QED
      BY <2>1 DEF vars, Promise!vars, DeliveryPhase
  <1>2. CASE pc \notin {"done", "aborted"} /\ pc' = "done"
    <2>1. unit'.rust \in Texts /\ unit'.state.tag \in Tags
      BY DEF IInv, TypeOK, MigrationState
    <2>2. Promise!Warranted(unit'.rust, unit'.state.tag)
      BY <1>2 DEF IInv, DeliveredInv
    <2>3. Promise!Deliver
      BY <1>2, <2>1, <2>2 DEF Promise!Deliver, DeliveryPhase, Tags, Promise!Tags
    <2>4. QED
      BY <2>3 DEF Promise!Next
  <1>3. CASE pc \notin {"done", "aborted"} /\ pc' = "aborted"
    BY <1>3 DEF Promise!Next, Promise!Fail, DeliveryPhase
  <1>4. CASE pc \notin {"done", "aborted"} /\ pc' \notin {"done", "aborted"}
    BY <1>4 DEF Promise!vars, DeliveryPhase
  <1>5. QED
    BY <1>1, <1>2, <1>3, <1>4

\* The repair loop implements Delivery: whatever the agents return and whichever
\* calls fail, what is handed over warrants the state it is handed over under.
THEOREM Implementation == Spec => ImplementsDelivery
  <1>1. Init => Promise!Init
    BY DEF Init, Promise!Init, DeliveryPhase
  <1>2. IInv /\ IInv' /\ [Next]_vars => [Promise!Next]_(Promise!vars)
    BY StepImplementsDelivery
  <1>3. QED
    BY <1>1, <1>2, Invariance, PTL DEF Spec, ImplementsDelivery, Promise!Safety

=============================================================================
