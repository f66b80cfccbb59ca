----------------------- MODULE ModuleMigration_proofs ------------------------
(***************************************************************************)
(* Proofs about ModuleMigration, for every set of texts, every limit and   *)
(* every number of chunks.                                                 *)
(***************************************************************************)
EXTENDS ModuleMigration, TLAPS

Units == [rust: MaybeText, state: V!MigrationState, score: 0..100, unsafe: Nat,
          errors: Nat, feedback: Nat]
Bests == [text: MaybeText, score: 0..100, compiles: BOOLEAN]

-----------------------------------------------------------------------------
(***************************************************************************)
(* Lemmas about the operators.                                             *)
(***************************************************************************)

\* What a text of the instance is known to satisfy.
LEMMA TextFacts ==
  ASSUME NEW t \in Texts
  PROVE  /\ t.compiles \in BOOLEAN /\ t.substance \in BOOLEAN
         /\ t.errors \in Nat /\ t.unsafe \in Nat /\ t.astUnsafe \in Nat
         /\ t.score \in 0..100 /\ t.hints \in Nat /\ t.mismatches \in Nat
         /\ t.tokens \in Nat
         /\ t.astUnsafe <= t.unsafe
         /\ t # None
  BY ModuleAssumption DEF V!Text, V!GateCountsNoMore, V!StubsScoreLow, V!HintCounts

\* P24 keeps the score asked of a module a score.
LEMMA ModuleMinScoreType == ModuleMinScore \in 0..100
  BY ModuleAssumption DEF ModuleMinScore

\* The number of repairs of a job is a natural number.
LEMMA MaxItersType ==
  ASSUME NEW j \in [harness: BOOLEAN, max: Nat, seed: MaybeText], job = j
  PROVE  MaxIters \in Nat
  BY DEF MaxIters

\* The differential test gives feedback that is a number, and a verdict.
LEMMA VerdictType ==
  ASSUME NEW t \in Texts, NEW h \in BOOLEAN
  PROVE  /\ V!DiffFeedback(t, h) \in Nat
         /\ V!Passed(t, h) \in BOOLEAN
         /\ V!Passed(t, h) => t.compiles
  BY TextFacts DEF V!DiffTest, V!DiffFeedback, V!Passed

\* A verdict leads to a state of the machine.
LEMMA StateAfterType ==
  ASSUME NEW s \in V!MigrationState, NEW passed \in BOOLEAN, NEW max \in Nat
  PROVE  /\ V!StateAfter(s, passed, max) \in V!MigrationState
         /\ ~passed => V!StateAfter(s, passed, max).tag \in {"Repairing", "FallbackUnsafe"}
  BY DEF V!StateAfter, V!MigrationState, V!In, V!Repairing, V!Tags

\* Recording a verdict makes the unit describe its own text.
LEMMA ApplyFacts ==
  ASSUME NEW t \in Texts, NEW s \in V!MigrationState, NEW h \in BOOLEAN, NEW max \in Nat,
         NEW v, v = V!Apply(t, s, h, max)
  PROVE  /\ v \in Units /\ v.rust = t /\ v.score = t.score /\ v.unsafe = t.unsafe
         /\ v.errors = t.errors
  <1>1. V!StateAfter(s, V!Passed(t, h), max) \in V!MigrationState
    BY VerdictType, StateAfterType
  <1>2. QED
    BY <1>1, VerdictType, TextFacts DEF V!Apply, Units, MaybeText

\* The graduated state is one of the machine's; those that say the text compiles
\* are given to one that does.
LEMMA GraduatedTagFacts ==
  ASSUME NEW c \in BOOLEAN, NEW u, NEW s, NEW h, NEW e
  PROVE  /\ V!In(V!GraduatedTag(c, u, s, h, e)) \in V!MigrationState
         /\ V!GraduatedTag(c, u, s, h, e) \in {"Validated", "CompilesUnsafe", "CompilesLowScore"} => c
  BY DEF V!GraduatedTag, V!MigrationState, V!In, V!Tags

\* The loop starts with a best version within the ceiling that it sets (P21).
LEMMA EnterLoopFacts ==
  ASSUME NEW t \in Texts, EnterLoop(t)
  PROVE  /\ pc' = "loop" /\ ceiling' \in Nat /\ t.astUnsafe <= ceiling'
         /\ best' \in Bests /\ best'.text = t /\ best' = BestIs(t)
  <1>1. ceiling' \in Nat /\ t.unsafe <= ceiling'
    BY TextFacts, ModuleAssumption DEF EnterLoop
  <1>2. QED
    BY <1>1, TextFacts DEF EnterLoop, BestIs, Bests, MaybeText

-----------------------------------------------------------------------------
(***************************************************************************)
(* The inductive invariant.                                                *)
(***************************************************************************)
LEMMA InitIInv == Init => IInv
  <1> SUFFICES ASSUME Init PROVE IInv
    OBVIOUS
  <1>1. job \in [harness: BOOLEAN, max: Nat, seed: MaybeText]
    BY ModuleAssumption DEF Init
  <1>2. MaxIters \in Nat
    BY <1>1, MaxItersType
  <1>3. TypeOK
    <2>1. V!In("Pending") \in V!MigrationState
      BY DEF V!In, V!MigrationState, V!Tags
    <2>2. unit \in Units
      BY <2>1 DEF Init, Units, MaybeText
    <2>3. best \in Bests /\ spent \in [calls: Nat, tokens: Nat]
      BY DEF Init, Bests, MaybeText
    <2>4. QED
      BY <1>1, <2>2, <2>3 DEF Init, TypeOK, Units, Bests
  <1>4. BestInv /\ UnitInv
    BY DEF Init, BestInv, UnitInv
  <1>5. SpentInv
    BY <1>2, ModuleAssumption DEF Init, SpentInv
  <1>6. ResultWarranted
    BY <1>2, ModuleAssumption DEF Init, ResultWarranted, GradedByItsText,
       RepairedWithinCeiling, CallsBounded
  <1>7. QED
    BY <1>3, <1>4, <1>5, <1>6 DEF IInv

\* The invariant holds of a new text that nothing has been said of yet.
LEMMA RefinedKeepsIInv ==
  ASSUME IInv, pc = "translate", NEW t \in Texts, unit' = Refined(t),
         pc' \in {"validate", "stub"},
         spent' \in [calls: Nat, tokens: Nat], spent'.calls <= Chunks,
         UNCHANGED <<job, best, ceiling, iter, reclosed>>
  PROVE  IInv'
  <1>1. V!In("Refined") \in V!MigrationState
    BY DEF V!In, V!MigrationState, V!Tags
  <1>2. unit' \in Units /\ unit'.rust = t
    BY <1>1 DEF IInv, TypeOK, Refined, Units, MaybeText
  <1>3. TypeOK'
    BY <1>2 DEF IInv, TypeOK, Units
  <1>4. MaxIters \in Nat /\ MaxIters' = MaxIters
    BY MaxItersType DEF IInv, TypeOK, MaxIters
  <1>5. BestInv' /\ UnitInv'
    BY <1>2 DEF IInv, BestInv, UnitInv, BestIs
  <1>6. SpentInv'
    BY <1>4, ModuleAssumption DEF IInv, SpentInv, TypeOK
  <1>7. ResultWarranted'
    BY <1>4, ModuleAssumption DEF IInv, TypeOK, ResultWarranted, GradedByItsText,
       RepairedWithinCeiling, CallsBounded
  <1>8. QED
    BY <1>3, <1>5, <1>6, <1>7 DEF IInv

LEMMA UseSeedKeepsIInv ==
  ASSUME IInv, UseSeed
  PROVE  IInv'
  <1>1. job.seed \in Texts
    BY DEF IInv, TypeOK, UseSeed, MaybeText
  <1>2. spent' \in [calls: Nat, tokens: Nat] /\ spent'.calls <= Chunks
    BY ModuleAssumption DEF IInv, TypeOK, SpentInv, UseSeed
  <1>3. QED
    BY <1>1, <1>2, RefinedKeepsIInv DEF UseSeed

LEMMA TranslateKeepsIInv ==
  ASSUME IInv, NEW t \in Texts, Translate(t)
  PROVE  IInv'
  <1>1. spent.calls = 0 /\ spent.tokens \in Nat
    BY DEF IInv, TypeOK, SpentInv, Translate
  <1>2. t.tokens + (IF Chunks = 1 THEN CTokens ELSE 0) \in Nat
    BY TextFacts, ModuleAssumption
  <1>3. spent' \in [calls: Nat, tokens: Nat] /\ spent'.calls <= Chunks
    BY <1>1, <1>2, TextFacts, ModuleAssumption DEF Translate
  <1>4. QED
    BY <1>3, RefinedKeepsIInv DEF Translate

\* One more call keeps the meter a meter.
LEMMA OneMoreCallFacts ==
  ASSUME TypeOK, OneMoreCall
  PROVE  spent' \in [calls: Nat, tokens: Nat] /\ spent'.calls = spent.calls + 1
  BY DEF TypeOK, OneMoreCall

LEMMA RetranslateStubKeepsIInv ==
  ASSUME IInv, NEW r \in MaybeText, RetranslateStub(r)
  PROVE  IInv'
  <1>1. spent' \in [calls: Nat, tokens: Nat] /\ spent'.calls = spent.calls + 1
    BY OneMoreCallFacts DEF IInv, RetranslateStub
  <1>2. unit' \in Units /\ unit'.rust \in Texts
    BY DEF IInv, TypeOK, UnitInv, RetranslateStub, Units, MaybeText
  <1>3. /\ pc = "stub" /\ pc' = "validate"
        /\ UNCHANGED <<job, best, ceiling, iter, reclosed>>
    BY DEF RetranslateStub
  <1>4. MaxIters \in Nat /\ MaxIters' = MaxIters
    BY <1>3, MaxItersType DEF IInv, TypeOK, MaxIters
  <1>5. TypeOK'
    BY <1>1, <1>2, <1>3 DEF IInv, TypeOK, Units
  <1>6. BestInv' /\ UnitInv'
    BY <1>2, <1>3 DEF IInv, BestInv, UnitInv, BestIs
  <1>7. SpentInv'
    BY <1>1, <1>3, <1>4, ModuleAssumption DEF IInv, SpentInv, TypeOK
  <1>8. ResultWarranted'
    BY <1>1, <1>3, <1>4, ModuleAssumption DEF IInv, TypeOK, SpentInv, ResultWarranted,
       GradedByItsText, RepairedWithinCeiling, CallsBounded
  <1>9. QED
    BY <1>5, <1>6, <1>7, <1>8 DEF IInv

\* A verdict on a text, before the loop: it passed, it is hopeless, or the loop
\* starts from it.
LEMMA JudgedKeepsIInv ==
  ASSUME IInv, pc \in {"validate", "hopeless"}, NEW t \in Texts,
         unit' \in Units, unit'.rust = t, unit'.score = t.score,
         spent' \in [calls: Nat, tokens: Nat], spent'.calls <= Chunks + 2,
         UNCHANGED <<job, iter, reclosed>>,
         \/ pc' = "braces" /\ t.compiles /\ UNCHANGED <<best, ceiling>>
         \/ pc' = "hopeless" /\ spent'.calls <= Chunks + 1 /\ UNCHANGED <<best, ceiling>>
         \/ EnterLoop(t)
  PROVE  IInv'
  <1>1. /\ best' \in Bests /\ ceiling' \in Nat
        /\ pc' \in {"braces", "hopeless", "loop"}
        /\ pc' # "loop" => best'.text = None
        /\ pc' = "braces" => t.compiles
        /\ pc' = "hopeless" => spent'.calls <= Chunks + 1
        /\ pc' = "loop" => best' = BestIs(t) /\ best'.text = t /\ t.astUnsafe <= ceiling'
    BY EnterLoopFacts DEF IInv, TypeOK, BestInv, Bests
  <1>2. MaxIters \in Nat /\ MaxIters' = MaxIters
    BY MaxItersType DEF IInv, TypeOK, MaxIters
  <1>3. TypeOK'
    BY <1>1 DEF IInv, TypeOK, Units, Bests
  <1>4. BestInv'
    BY <1>1, TextFacts DEF BestInv, BestIs
  <1>5. UnitInv'
    BY <1>1 DEF IInv, UnitInv
  <1>6. iter = 1 /\ iter' = 1
    BY DEF IInv, SpentInv
  <1>7. SpentInv'
    BY <1>1, <1>2, <1>6, ModuleAssumption DEF SpentInv
  <1>8. ResultWarranted'
    <2>1. GradedByItsText' /\ RepairedWithinCeiling'
      BY <1>1 DEF GradedByItsText, RepairedWithinCeiling
    <2>2. CallsBounded'
      BY <1>2, ModuleAssumption DEF CallsBounded
    <2>3. QED
      BY <2>1, <2>2 DEF ResultWarranted
  <1>9. QED
    BY <1>3, <1>4, <1>5, <1>7, <1>8 DEF IInv

LEMMA ValidateKeepsIInv ==
  ASSUME IInv, Validate
  PROVE  IInv'
  <1>1. PICK t \in Texts : t = unit.rust
    BY DEF IInv, UnitInv, Validate
  <1>2. /\ unit' = V!Apply(t, unit.state, job.harness, job.max)
        /\ pc = "validate" /\ UNCHANGED <<job, iter, spent, reclosed>>
        /\ \/ V!Passed(t, job.harness) /\ pc' = "braces" /\ UNCHANGED <<best, ceiling>>
           \/ pc' = "hopeless" /\ UNCHANGED <<best, ceiling>>
           \/ EnterLoop(t)
    BY <1>1 DEF Validate
  <1>3. unit.state \in V!MigrationState /\ job.harness \in BOOLEAN /\ job.max \in Nat
    BY DEF IInv, TypeOK
  <1>4. unit' \in Units /\ unit'.rust = t /\ unit'.score = t.score
    BY <1>2, <1>3, ApplyFacts
  <1>5. V!Passed(t, job.harness) => t.compiles
    BY <1>3, VerdictType
  <1>6. spent' \in [calls: Nat, tokens: Nat] /\ spent'.calls <= Chunks + 1
    BY <1>2, ModuleAssumption DEF IInv, TypeOK, SpentInv
  <1>7. spent'.calls <= Chunks + 2
    BY <1>6, ModuleAssumption
  <1>8. QED
    BY <1>2, <1>4, <1>5, <1>6, <1>7, JudgedKeepsIInv

LEMMA RetranslateHopelessKeepsIInv ==
  ASSUME IInv, NEW r \in MaybeText, RetranslateHopeless(r)
  PROVE  IInv'
  <1>1. spent' \in [calls: Nat, tokens: Nat] /\ spent'.calls = spent.calls + 1
    BY OneMoreCallFacts DEF IInv, RetranslateHopeless
  <1>2. spent'.calls <= Chunks + 2
    BY <1>1, ModuleAssumption DEF IInv, TypeOK, SpentInv, RetranslateHopeless
  <1>3. pc = "hopeless" /\ UNCHANGED <<job, iter, reclosed>>
    BY DEF RetranslateHopeless
  <1>4. CASE r # None /\ r.substance
    <2>1. r \in Texts
      BY <1>4 DEF MaybeText
    <2>2. unit.state \in V!MigrationState /\ job.harness \in BOOLEAN /\ job.max \in Nat
      BY DEF IInv, TypeOK
    <2>3. unit' = V!Apply(r, unit.state, job.harness, job.max)
      BY <1>4 DEF RetranslateHopeless
    <2>4. unit' \in Units /\ unit'.rust = r /\ unit'.score = r.score
      BY <2>1, <2>2, <2>3, ApplyFacts
    <2>5. \/ pc' = "braces" /\ r.compiles /\ UNCHANGED <<best, ceiling>>
          \/ EnterLoop(r)
      BY <1>4, <2>1, <2>2, VerdictType DEF RetranslateHopeless
    <2>6. QED
      BY <1>1, <1>2, <1>3, <2>1, <2>4, <2>5, JudgedKeepsIInv
  <1>5. CASE ~(r # None /\ r.substance)
    <2>1. PICK t \in Texts : t = unit.rust
      BY <1>3 DEF IInv, UnitInv
    <2>2. unit' = unit /\ EnterLoop(t)
      BY <1>5, <2>1 DEF RetranslateHopeless
    <2>3. unit' \in Units /\ unit'.rust = t /\ unit'.score = t.score
      BY <1>3, <2>1, <2>2 DEF IInv, TypeOK, UnitInv, Units
    <2>4. QED
      BY <1>1, <1>2, <1>3, <2>2, <2>3, JudgedKeepsIInv
  <1>6. QED
    BY <1>4, <1>5

-----------------------------------------------------------------------------
(***************************************************************************)
(* The repair loop.                                                        *)
(***************************************************************************)
\* The loop ends: the best version becomes the unit's text, with its grade.
LEMMA GraduatedKeepsIInv ==
  ASSUME IInv, pc = "loop", unit' = Graduated, pc' = "braces",
         UNCHANGED <<job, best, ceiling, iter, spent, reclosed>>
  PROVE  IInv'
  <1>1. PICK b \in Texts : b = best.text
    BY DEF IInv, TypeOK, BestInv, MaybeText
  <1>2. best = BestIs(b) /\ b.astUnsafe <= ceiling
    BY <1>1, TextFacts DEF IInv, BestInv
  <1>3. best.compiles = b.compiles /\ best.score = b.score /\ b.compiles \in BOOLEAN
    BY <1>2, TextFacts DEF BestIs
  <1>4. /\ unit' \in Units /\ unit'.rust = b /\ unit'.score = b.score
        /\ unit'.state.tag \in {"Validated", "CompilesUnsafe", "CompilesLowScore"} => b.compiles
    <2>1. PICK tag : tag = V!GraduatedTag(best.compiles, unit.unsafe, best.score,
                                          GradeThreshold, unit.errors)
      OBVIOUS
    <2>2. /\ V!In(tag) \in V!MigrationState
          /\ tag \in {"Validated", "CompilesUnsafe", "CompilesLowScore"} => b.compiles
      BY <1>3, <2>1, GraduatedTagFacts
    <2>3. unit' = [unit EXCEPT !.rust = best.text, !.score = best.score, !.state = V!In(tag)]
      BY <2>1 DEF Graduated
    <2>4. V!In(tag).tag = tag
      BY DEF V!In
    <2>5. QED
      BY <1>1, <1>3, <2>2, <2>3, <2>4, TextFacts DEF IInv, TypeOK, Units, MaybeText
  <1>5. MaxIters \in Nat /\ MaxIters' = MaxIters
    BY MaxItersType DEF IInv, TypeOK, MaxIters
  <1>6. TypeOK'
    BY <1>4 DEF IInv, TypeOK, Units
  <1>7. BestInv' /\ UnitInv'
    BY <1>4 DEF IInv, BestInv, UnitInv, BestIs
  <1>8. SpentInv'
    BY <1>5, ModuleAssumption DEF IInv, SpentInv, TypeOK
  <1>9. ResultWarranted'
    BY <1>2, <1>4, <1>5, ModuleAssumption DEF IInv, TypeOK, SpentInv, ResultWarranted,
       GradedByItsText, RepairedWithinCeiling, CallsBounded
  <1>10. QED
    BY <1>6, <1>7, <1>8, <1>9 DEF IInv

\* What a counted repair leaves of the meter.
LEMMA CountRepairFacts ==
  ASSUME IInv, pc = "loop", NEW t \in Texts, CountRepair(t)
  PROVE  spent' \in [calls: Nat, tokens: Nat] /\ spent'.calls = spent.calls + 1
  <1>1. PICK u \in Texts : u = unit.rust
    BY DEF IInv, UnitInv
  <1>2. u.tokens \in Nat /\ t.tokens \in Nat
    BY TextFacts
  <1>3. spent' = [calls |-> spent.calls + 1, tokens |-> spent.tokens + u.tokens + t.tokens]
    BY <1>1 DEF CountRepair
  <1>4. QED
    BY <1>2, <1>3 DEF IInv, TypeOK

LEMMA RejectRepairKeepsIInv ==
  ASSUME IInv, NEW t \in Texts, RejectRepair(t)
  PROVE  IInv'
  <1>1. /\ pc = "loop" /\ iter <= MaxIters /\ iter' = iter + 1
        /\ UNCHANGED <<pc, job, unit, best, ceiling, reclosed>>
    BY DEF RejectRepair, InLoop
  <1>2. spent' \in [calls: Nat, tokens: Nat] /\ spent'.calls = spent.calls + 1
    BY <1>1, CountRepairFacts DEF RejectRepair
  <1>3. MaxIters \in Nat /\ MaxIters' = MaxIters
    BY <1>1, MaxItersType DEF IInv, TypeOK, MaxIters
  <1>4. TypeOK'
    BY <1>1, <1>2 DEF IInv, TypeOK
  <1>5. BestInv' /\ UnitInv'
    BY <1>1 DEF IInv, BestInv, UnitInv, BestIs
  <1>6. SpentInv'
    BY <1>1, <1>2, <1>3, ModuleAssumption DEF IInv, SpentInv, TypeOK
  <1>7. ResultWarranted'
    BY <1>1, <1>2, <1>3, ModuleAssumption DEF IInv, TypeOK, SpentInv, ResultWarranted,
       GradedByItsText, RepairedWithinCeiling, CallsBounded
  <1>8. QED
    BY <1>4, <1>5, <1>6, <1>7 DEF IInv

LEMMA ApplyRepairKeepsIInv ==
  ASSUME IInv, NEW t \in Texts, ApplyRepair(t)
  PROVE  IInv'
  <1>1. /\ pc = "loop" /\ iter <= MaxIters /\ iter \in Nat /\ t.astUnsafe <= ceiling
        /\ UNCHANGED <<job, ceiling, reclosed>>
    BY DEF ApplyRepair, InLoop, Acceptable, IInv, TypeOK
  <1>2. spent' \in [calls: Nat, tokens: Nat] /\ spent'.calls = spent.calls + 1
    BY <1>1, CountRepairFacts DEF ApplyRepair
  <1>3. MaxIters \in Nat /\ MaxIters' = MaxIters
    BY <1>1, MaxItersType DEF IInv, TypeOK, MaxIters
  <1>4. unit' \in Units /\ unit'.rust = t /\ unit'.score = t.score
    <2>1. V!Repairing(iter) \in V!MigrationState
      BY <1>1 DEF V!Repairing, V!MigrationState, V!Tags
    <2>2. QED
      BY <1>3, <2>1, ApplyFacts DEF ApplyRepair, IInv, TypeOK
  <1>5. \/ pc' = "braces" /\ iter' = iter /\ t.compiles
        \/ pc' \in {"loop", "aborted"} /\ iter' = iter + 1
    BY VerdictType DEF ApplyRepair, NextIter, IInv, TypeOK
  <1>6. best' = best \/ (best' = BestIs(t) /\ t.unsafe <= ceiling)
    BY DEF ApplyRepair
  <1>7. /\ best' \in Bests /\ best'.text # None
        /\ best' = BestIs(best'.text) /\ best'.text.astUnsafe <= ceiling
    <2>1. CASE best' = best
      BY <1>1, <2>1 DEF IInv, TypeOK, BestInv, Bests
    <2>2. CASE best' = BestIs(t) /\ t.unsafe <= ceiling
      BY <1>1, <2>2, TextFacts DEF BestIs, Bests, MaybeText
    <2>3. QED
      BY <1>6, <2>1, <2>2
  <1>8. TypeOK'
    BY <1>1, <1>2, <1>4, <1>5, <1>7 DEF IInv, TypeOK, Units, Bests
  <1>9. BestInv'
    BY <1>1, <1>5, <1>7 DEF BestInv, BestIs
  <1>10. UnitInv'
    BY <1>1, <1>4, <1>5 DEF IInv, UnitInv
  <1>11. SpentInv'
    BY <1>1, <1>2, <1>3, <1>5, ModuleAssumption DEF IInv, SpentInv, TypeOK
  <1>12. ResultWarranted'
    BY <1>1, <1>2, <1>3, <1>4, <1>5, ModuleAssumption DEF IInv, TypeOK, SpentInv,
       ResultWarranted, GradedByItsText, RepairedWithinCeiling, CallsBounded
  <1>13. QED
    BY <1>8, <1>9, <1>10, <1>11, <1>12 DEF IInv

-----------------------------------------------------------------------------
(***************************************************************************)
(* The last look at the braces, and the ends.                              *)
(***************************************************************************)
\* P32: another text takes the unit's place, at the cost of at most one call.
LEMMA ReclosedKeepsIInv ==
  ASSUME IInv, pc = "braces", pc' = "done", reclosed' = TRUE, NEW r \in Texts,
         unit' \in Units, unit'.rust = r,
         OneMoreCall \/ UNCHANGED spent,
         UNCHANGED <<job, best, ceiling, iter>>
  PROVE  IInv'
  <1>1. spent' \in [calls: Nat, tokens: Nat] /\ spent'.calls <= spent.calls + 1
    BY OneMoreCallFacts DEF IInv, TypeOK
  <1>2. MaxIters \in Nat /\ MaxIters' = MaxIters
    BY MaxItersType DEF IInv, TypeOK, MaxIters
  <1>3. TypeOK'
    BY <1>1 DEF IInv, TypeOK, Units
  <1>4. BestInv' /\ UnitInv'
    BY DEF IInv, BestInv, UnitInv, BestIs
  <1>5. SpentInv'
    BY <1>2 DEF IInv, SpentInv
  <1>6. ResultWarranted'
    BY <1>1, <1>2, ModuleAssumption DEF IInv, TypeOK, SpentInv, ResultWarranted,
       GradedByItsText, RepairedWithinCeiling, CallsBounded
  <1>7. QED
    BY <1>3, <1>4, <1>5, <1>6 DEF IInv

LEMMA RetranslateOpenKeepsIInv ==
  ASSUME IInv, NEW r \in Texts, RetranslateOpen(r)
  PROVE  IInv'
  <1>1. unit' \in Units /\ unit'.rust = r
    BY DEF IInv, TypeOK, RetranslateOpen, Units, MaybeText
  <1>2. QED
    BY <1>1, ReclosedKeepsIInv DEF RetranslateOpen

LEMMA CutOpenKeepsIInv ==
  ASSUME IInv, NEW cut \in Texts, CutOpen(cut)
  PROVE  IInv'
  <1>1. unit' \in Units /\ unit'.rust = cut
    <2>1. unit \in Units /\ unit.errors + 1 \in Nat /\ cut \in MaybeText
      BY DEF IInv, TypeOK, Units, MaybeText
    <2>2. unit' = [unit EXCEPT !.rust = cut, !.errors = unit.errors + 1]
      BY DEF CutOpen
    <2>3. QED
      BY <2>1, <2>2 DEF Units
  <1>2. QED
    BY <1>1, ReclosedKeepsIInv DEF CutOpen

\* A step that only moves to an end, or nowhere, keeps what was graded.
LEMMA EndKeepsIInv ==
  ASSUME IInv, UNCHANGED <<job, unit, best, ceiling, iter, spent, reclosed>>,
         \/ pc' \in {"failed", "aborted"} /\ ~reclosed
         \/ pc = "braces" /\ pc' = "done"
         \/ pc' = pc
  PROVE  IInv'
  <1>1. MaxIters' = MaxIters
    BY DEF MaxIters
  <1>2. TypeOK'
    BY DEF IInv, TypeOK
  <1>3. BestInv' /\ UnitInv'
    BY DEF IInv, BestInv, UnitInv, BestIs
  <1>4. SpentInv'
    BY <1>1 DEF IInv, SpentInv
  <1>5. ResultWarranted'
    BY <1>1 DEF IInv, ResultWarranted, GradedByItsText, RepairedWithinCeiling, CallsBounded
  <1>6. QED
    BY <1>2, <1>3, <1>4, <1>5 DEF IInv

LEMMA NextKeepsIInv == IInv /\ [Next]_vars => IInv'
  <1> SUFFICES ASSUME IInv, [Next]_vars PROVE IInv'
    OBVIOUS
  <1>1. CASE UseSeed
    BY <1>1, UseSeedKeepsIInv
  <1>2. CASE TranslationFails
    BY <1>2, EndKeepsIInv DEF TranslationFails, IInv, UnitInv
  <1>3. CASE \E t \in Texts : Translate(t)
    BY <1>3, TranslateKeepsIInv
  <1>4. CASE \E r \in MaybeText : RetranslateStub(r)
    BY <1>4, RetranslateStubKeepsIInv
  <1>5. CASE Validate
    BY <1>5, ValidateKeepsIInv
  <1>6. CASE \E r \in MaybeText : RetranslateHopeless(r)
    BY <1>6, RetranslateHopelessKeepsIInv
  <1>7. CASE LeaveLoop
    BY <1>7, GraduatedKeepsIInv DEF LeaveLoop
  <1>8. CASE RepairFails
    BY <1>8, GraduatedKeepsIInv DEF RepairFails, InLoop
  <1>9. CASE \E t \in Texts : RejectRepair(t)
    BY <1>9, RejectRepairKeepsIInv
  <1>10. CASE \E t \in Texts : ApplyRepair(t)
    BY <1>10, ApplyRepairKeepsIInv
  <1>11. CASE Balanced
    BY <1>11, EndKeepsIInv DEF Balanced
  <1>12. CASE \E r \in Texts : RetranslateOpen(r)
    BY <1>12, RetranslateOpenKeepsIInv
  <1>13. CASE \E cut \in Texts : CutOpen(cut)
    BY <1>13, CutOpenKeepsIInv
  <1>14. CASE ToolFails
    BY <1>14, EndKeepsIInv DEF ToolFails, InLoop, IInv, UnitInv
  <1>15. CASE UNCHANGED vars
    BY <1>15, EndKeepsIInv DEF vars
  <1>16. QED
    BY <1>1, <1>2, <1>3, <1>4, <1>5, <1>6, <1>7, <1>8, <1>9, <1>10, <1>11, <1>12,
       <1>13, <1>14, <1>15 DEF Next, Finished

-----------------------------------------------------------------------------
(***************************************************************************)
(* The theorems.                                                           *)
(***************************************************************************)
\* The inductive invariant holds: what is known of the unit, of the best version
\* and of the calls at each place of migrate_single_module.
THEOREM Invariance == Spec => []IInv
  <1>1. Init => IInv
    BY InitIInv
  <1>2. IInv /\ [Next]_vars => IInv'
    BY NextKeepsIInv
  <1>3. QED
    BY <1>1, <1>2, PTL DEF Spec

\* The variables of migrate_single_module keep their types.
THEOREM TypeCorrect == Spec => []TypeOK
  <1>1. IInv => TypeOK
    BY DEF IInv
  <1>2. QED
    BY <1>1, Invariance, PTL

\* What migrate_single_module hands to its wave: the grade and the score are of
\* the very text that is handed over, the text is within the unsafe ceiling, and
\* the calls are bounded, whatever the agents answer and whatever fails.
THEOREM ResultIsWarranted == Spec => []ResultWarranted
  <1>1. IInv => ResultWarranted
    BY DEF IInv
  <1>2. QED
    BY <1>1, Invariance, PTL

=============================================================================
