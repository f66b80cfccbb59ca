------------------------- MODULE FilePipeline_proofs -------------------------
(***************************************************************************)
(* Proofs about FilePipeline, for every set of files, of texts and of      *)
(* calls a stage may report, every budget and any number of sessions.      *)
(***************************************************************************)
EXTENDS FilePipeline, TLAPS

-----------------------------------------------------------------------------
(***************************************************************************)
(* Lemmas about the operators.                                             *)
(***************************************************************************)

\* What a text of the instance is known to satisfy.
LEMMA TextFacts ==
  ASSUME NEW t \in Texts
  PROVE  /\ t.compiles \in BOOLEAN /\ t.substance \in BOOLEAN
         /\ t.errors \in Nat /\ t.unsafe \in Nat /\ t.score \in 0..100
         /\ t.mismatches \in Nat
         /\ ~t.substance => t.score <= StubScoreCap
         /\ t # None
  BY PipelineAssumption DEF Text, StubsScoreLow

\* A text that passes validation may be delivered as validated.
LEMMA PassedIsWarranted ==
  ASSUME NEW t \in Texts, NEW h \in BOOLEAN, Passed(t, h)
  PROVE  Promise!Warranted(t, "Validated")
  <1>1. t.compiles /\ (t.score >= MinScore \/ t.score >= 80)
    BY TextFacts, MinScoreAssumption DEF Passed, RequiredScore
  <1>2. MinScore > 20 => t.substance
    BY <1>1, TextFacts, MinScoreAssumption DEF StubScoreCap
  <1>3. QED
    BY <1>1, <1>2 DEF Promise!Warranted, Promise!StubScoreCap

\* FallbackUnsafe promises nothing.
LEMMA FallbackIsWarranted ==
  ASSUME NEW t
  PROVE  Promise!Warranted(t, "FallbackUnsafe")
  BY DEF Promise!Warranted

\* A verdict leads to a state of the machine; it says Validated only of a text that
\* passed, and gives up only a unit that was being repaired.
LEMMA StateAfterFacts ==
  ASSUME NEW s \in MigrationState, NEW passed \in BOOLEAN, NEW max \in Nat,
         NEW a, a = StateAfter(s, passed, max)
  PROVE  /\ a \in MigrationState
         /\ passed => a.tag = "Validated"
         /\ ~passed => a.tag \in {"Repairing", "FallbackUnsafe"}
         /\ ~passed /\ s.tag # "Repairing" => a.tag = "Repairing"
  BY DEF StateAfter, MigrationState, In, Repairing, Tags

LEMMA PassedType ==
  ASSUME NEW t \in Texts, NEW h \in BOOLEAN
  PROVE  Passed(t, h) \in BOOLEAN
  BY TextFacts DEF Passed

\* What a verdict makes of the unit: its text, and a state that it may be delivered
\* under or that says that there is no answer yet.
LEMMA ApplyFacts ==
  ASSUME NEW t \in Texts, NEW s \in MigrationState, NEW h \in BOOLEAN, NEW max \in Nat,
         NEW v, v = Apply(t, s, h, max)
  PROVE  /\ v.state \in MigrationState /\ v.score = t.score /\ v.unsafe = t.unsafe
         /\ v.state.tag = "Repairing" \/ Promise!Warranted(t, v.state.tag)
         /\ s.tag # "Repairing" => v.state.tag = (IF Passed(t, h) THEN "Validated" ELSE "Repairing")
  <1>1. PICK passed \in BOOLEAN : passed = Passed(t, h)
    BY PassedType
  <1>2. v.state = StateAfter(s, passed, max) /\ v.score = t.score /\ v.unsafe = t.unsafe
    BY <1>1 DEF Apply
  <1>3. /\ v.state \in MigrationState
        /\ passed => v.state.tag = "Validated"
        /\ ~passed => v.state.tag \in {"Repairing", "FallbackUnsafe"}
        /\ ~passed /\ s.tag # "Repairing" => v.state.tag = "Repairing"
    BY <1>2, StateAfterFacts
  <1>4. v.state.tag = "Repairing" \/ Promise!Warranted(t, v.state.tag)
    BY <1>1, <1>3, PassedIsWarranted, FallbackIsWarranted
  <1>5. QED
    BY <1>1, <1>2, <1>3, <1>4

\* A state without an iteration is one of the machine's.
LEMMA InType ==
  ASSUME NEW tag \in Tags
  PROVE  In(tag) \in MigrationState /\ In(tag).tag = tag
  BY DEF In, MigrationState

\* The same of a verdict of the synchronous pipeline, by its own minimum score.
LEMMA DefaultPassedIsWarranted ==
  ASSUME NEW t \in Texts, NEW h \in BOOLEAN, Default!Passed(t, h)
  PROVE  Default!Warranted(t, "Validated")
  <1>1. t.compiles /\ t.score >= 60
    BY TextFacts DEF Default!Passed, Default!RequiredScore, ValidateMinScore
  <1>2. t.substance
    BY <1>1, TextFacts DEF StubScoreCap
  <1>3. QED
    BY <1>1, <1>2 DEF Default!Warranted, ValidateMinScore

LEMMA SyncVerdictFacts ==
  ASSUME NEW t \in Texts, NEW s \in {In("Refined"), In("C2RustDone")}, harness \in BOOLEAN,
         NEW v, v = SyncVerdict(t, s)
  PROVE  /\ v.state \in MigrationState /\ v.score = t.score /\ v.unsafe = t.unsafe
         /\ v.state.tag = "Repairing" \/ Default!Warranted(t, v.state.tag)
  <1>1. s.tag # "Repairing"
    BY DEF In
  <1>2. CASE Default!Passed(t, harness)
    <2>1. v.state = In("Validated") /\ v.score = t.score /\ v.unsafe = t.unsafe
      BY <1>2 DEF SyncVerdict, Default!Apply, Default!StateAfter, Default!In, In
    <2>2. QED
      BY <1>2, <2>1, InType, DefaultPassedIsWarranted DEF Tags
  <1>3. CASE ~Default!Passed(t, harness)
    <2>1. v.state = Repairing(1) /\ v.score = t.score /\ v.unsafe = t.unsafe
      BY <1>1, <1>3 DEF SyncVerdict, Default!Apply, Default!StateAfter, Default!Repairing, Repairing
    <2>2. QED
      BY <2>1 DEF Repairing, MigrationState, Tags
  <1>4. QED
    BY <1>2, <1>3

\* The unit with a verdict on one of the texts.
LEMMA JudgedFacts ==
  ASSUME TypeInv, NEW t \in Texts, NEW u, u = Judged(t)
  PROVE  /\ u \in Units /\ u.rust = t /\ u.route = unit.route
         /\ u.state.tag = "Repairing" \/ Promise!Warranted(t, u.state.tag)
         /\ unit.state.tag # "Repairing" =>
              u.state.tag = (IF Passed(t, harness) THEN "Validated" ELSE "Repairing")
  <1>1. unit \in Units /\ unit.state \in MigrationState /\ harness \in BOOLEAN
    BY DEF TypeInv, Units
  <1>2. PICK v : v = Apply(t, unit.state, harness, MaxIters)
    OBVIOUS
  <1>3. /\ v.state \in MigrationState /\ v.score = t.score /\ v.unsafe = t.unsafe
        /\ v.state.tag = "Repairing" \/ Promise!Warranted(t, v.state.tag)
        /\ unit.state.tag # "Repairing" =>
             v.state.tag = (IF Passed(t, harness) THEN "Validated" ELSE "Repairing")
    BY <1>1, <1>2, ApplyFacts, PipelineAssumption
  <1>4. u = [unit EXCEPT !.rust = t, !.state = v.state, !.score = v.score, !.unsafe = v.unsafe]
    BY <1>2 DEF Judged
  <1>5. u \in Units
    BY <1>1, <1>3, <1>4, TextFacts DEF Units, MaybeText
  <1>6. u.rust = t /\ u.route = unit.route /\ u.state = v.state
    BY <1>1, <1>4 DEF Units
  <1>7. QED
    BY <1>3, <1>5, <1>6

LEMMA NoUnitType == NoUnit \in Units /\ NoUnit.state.tag = "Extracted" /\ NoUnit.route = ""
  BY InType DEF NoUnit, Units, MaybeText, Routes, Tags

\* Nothing is spent yet: that is within every budget.
LEMMA NothingIsWithinCalls == WithinCalls(0)
  BY BudgetAssumption DEF WithinCalls, HardCallLimit

LEMMA NothingPaid ==
  ASSUME NEW n \in Nat
  PROVE  n - 0 = n
  OBVIOUS

\* The verdict on what may be delivered looks at the text, the state and the way.
LEMMA DeliverableByFields ==
  ASSUME NEW u, NEW v, Deliverable(u), v.rust = u.rust, v.state = u.state, v.route = u.route
  PROVE  Deliverable(v)
  BY DEF Deliverable

-----------------------------------------------------------------------------
(***************************************************************************)
(* The inductive invariant.                                                *)
(***************************************************************************)
LEMMA InitIInv == Init => IInv
  <1> SUFFICES ASSUME Init PROVE IInv
    OBVIOUS
  <1>1. TypeInv
    <2>1. unit \in Units /\ first \in MaybeText
      BY NoUnitType DEF Init, MaybeText
    <2>2. cache \in [Sources -> MaybeText]
      BY DEF Init, MaybeText
    <2>3. DOMAIN project \subseteq Files
      BY DEF Init, NoProject
    <2>4. pc \in Between /\ queue \subseteq Files /\ file \in Files \union {None}
      BY DEF Init, Between
    <2>5. calls \in Nat /\ paid \in Nat /\ paid <= calls
      <3>1. calls = 0 /\ paid = 0
        BY DEF Init
      <3>2. QED
        BY <3>1
    <2>6. harness \in BOOLEAN
      BY DEF Init
    <2>7. QED
      BY <2>1, <2>2, <2>3, <2>4, <2>5, <2>6 DEF TypeInv
  <1>2. UnitInv
    BY DEF Init, UnitInv, ByConfig, Between, Unjudged, WithText, Judgment
  <1>3. SpentInv
    BY DEF Init, SpentInv
  <1>4. DeliveredIsWarranted
    BY DEF Init, DeliveredIsWarranted, NoProject
  <1>5. CacheHoldsValidated
    BY DEF Init, CacheHoldsValidated
  <1>6. CheckedCallsWithinBudget
    BY NothingIsWithinCalls DEF Init, CheckedCallsWithinBudget
  <1>7. QED
    BY <1>1, <1>2, <1>3, <1>4, <1>5, <1>6 DEF IInv

\* A step that leaves the project, or empties it, and the cache alone.
LEMMA WorkKeepsIInv ==
  ASSUME IInv, TypeInv', UnitInv', SpentInv', CheckedCallsWithinBudget',
         project' = project \/ project' = NoProject, UNCHANGED shared
  PROVE  IInv'
  <1>1. DeliveredIsWarranted'
    BY DEF IInv, DeliveredIsWarranted, NoProject
  <1>2. CacheHoldsValidated'
    BY DEF IInv, CacheHoldsValidated, shared
  <1>3. QED
    BY <1>1, <1>2 DEF IInv

\* Without a file being migrated there is nothing to be said of the unit.
LEMMA RestKeepsIInv ==
  ASSUME IInv, pc' \in Between, queue' \subseteq Files,
         UNCHANGED file \/ file' = None, harness' \in BOOLEAN,
         unit' = NoUnit, first' \in MaybeText, calls' = 0, paid' = 0,
         project' = project \/ project' = NoProject, UNCHANGED shared
  PROVE  IInv'
  <1>1. TypeInv'
    <2>1. unit' \in Units /\ cache' \in [Sources -> MaybeText]
      BY NoUnitType DEF IInv, TypeInv, shared
    <2>2. DOMAIN project' \subseteq Files
      BY DEF IInv, TypeInv, NoProject
    <2>3. QED
      BY <2>1, <2>2 DEF IInv, TypeInv
  <1>2. UnitInv'
    BY DEF UnitInv, ByConfig, Between, Unjudged, WithText, Judgment
  <1>3. SpentInv'
    BY DEF SpentInv, Between
  <1>4. CheckedCallsWithinBudget'
    <2>1. calls' - paid' = 0
      OBVIOUS
    <2>2. WithinCalls(calls' - paid')
      BY <2>1, NothingIsWithinCalls
    <2>3. QED
      BY <2>2 DEF CheckedCallsWithinBudget
  <1>5. QED
    BY <1>1, <1>2, <1>3, <1>4, WorkKeepsIInv

LEMMA SessionKeepsIInv ==
  ASSUME IInv, NEW sync, NEW client, Session(sync, client)
  PROVE  IInv'
  <1>1. /\ pc = "idle" /\ pc' = "next" /\ queue' = Files /\ project' = NoProject
        /\ UNCHANGED <<file, harness, unit, first, calls, paid, cache, torn>>
    BY DEF Session, spending, shared
  <1>2. unit' = NoUnit /\ calls' = 0 /\ paid' = 0 /\ first' \in MaybeText /\ harness' \in BOOLEAN
    BY <1>1 DEF IInv, TypeInv, UnitInv, SpentInv, Between
  <1>3. QED
    BY <1>1, <1>2, RestKeepsIInv DEF Between, shared

LEMMA AllMigratedKeepsIInv ==
  ASSUME IInv, AllMigrated
  PROVE  IInv'
  <1>1. /\ pc = "next" /\ pc' = "returned"
        /\ UNCHANGED <<queue, file, harness, unit, first, calls, paid, project, cache, torn>>
    BY DEF AllMigrated, rest, spending, shared
  <1>2. /\ unit' = NoUnit /\ calls' = 0 /\ paid' = 0 /\ first' \in MaybeText
        /\ harness' \in BOOLEAN /\ queue' \subseteq Files
    BY <1>1 DEF IInv, TypeInv, UnitInv, SpentInv, Between
  <1>3. QED
    BY <1>1, <1>2, RestKeepsIInv DEF Between, shared

LEMMA ReturnKeepsIInv ==
  ASSUME IInv, Return
  PROVE  IInv'
  <1>1. /\ pc' = "idle" /\ queue' = {} /\ UNCHANGED shared
        /\ project' = project \/ project' = NoProject
        /\ file' = None /\ harness' = FALSE /\ unit' = NoUnit /\ first' = None
        /\ calls' = 0 /\ paid' = 0
    BY DEF Return, Cleared
  <1>2. QED
    BY <1>1, RestKeepsIInv DEF Between, MaybeText

\* A file is taken: its stages begin, with nothing spent.
LEMMA TakeKeepsIInv ==
  ASSUME IInv, NEW f \in Files, Take(f)
  PROVE  IInv'
  <1>1. /\ pc = "next" /\ queue' = queue \ {f} /\ file' = f /\ harness' \in BOOLEAN
        /\ pc' \in {"failed", "analyze", "sync"}
        /\ UNCHANGED <<unit, first, calls, paid, project, cache, torn>>
    BY DEF Take, Without, FirstStage, spending, shared
  <1>2. unit = NoUnit /\ calls = 0 /\ paid = 0
    BY <1>1 DEF IInv, UnitInv, SpentInv, Between
  <1>3. TypeInv'
    BY <1>1 DEF IInv, TypeInv, Unjudged
  <1>4. UnitInv'
    BY <1>1, <1>2, NoUnitType DEF UnitInv, ByConfig, Between, Unjudged, WithText, Judgment
  <1>5. SpentInv'
    BY <1>1, <1>2, NothingIsWithinCalls DEF SpentInv, Between
  <1>6. CheckedCallsWithinBudget'
    BY <1>1, <1>2, NothingIsWithinCalls DEF CheckedCallsWithinBudget
  <1>7. QED
    BY <1>1, <1>3, <1>4, <1>5, <1>6, WorkKeepsIInv DEF shared

\* A unit of these stages has not come by the synchronous pipeline.
LEMMA ByConfigRoute ==
  ASSUME IInv, pc \in ByConfig
  PROVE  unit.route # "sync"
  BY DEF IInv, UnitInv

-----------------------------------------------------------------------------
(***************************************************************************)
(* The stages up to the first verdict.                                     *)
(***************************************************************************)
\* A stage of a file that is still without a verdict: what it must keep.
LEMMA StageKeepsIInv ==
  ASSUME IInv, file \in Files, UNCHANGED <<rest, project, shared>>,
         first' \in MaybeText, unit' \in Units, calls' \in Nat, paid' \in Nat, paid' <= calls',
         pc' \in {"failed", "sync"} \union Unjudged,
         pc' \in Unjudged => unit'.state.tag \in {"Extracted", "Analyzed", "Refined"},
         pc' \in WithText => unit'.rust \in Texts,
         pc' \in Unjudged => unit'.route # "sync",
         pc' \in {"analyze", "lookup", "modular"} => paid' = 0 /\ WithinCalls(calls'),
         pc' \in {"complete", "validate"} => WithinCalls(calls' - paid')
  PROVE  IInv'
  <1>1. UNCHANGED <<queue, file, harness, project, cache, torn>>
    BY DEF rest, shared
  <1>2. TypeInv'
    BY <1>1 DEF IInv, TypeInv
  <1>3. UnitInv'
    BY <1>1 DEF UnitInv, ByConfig, Between, Unjudged, WithText, Judgment
  <1>4. SpentInv'
    BY DEF SpentInv, Between, Unjudged
  <1>5. CheckedCallsWithinBudget'
    <2>1. ASSUME pc' \in {"analyze", "lookup"} PROVE WithinCalls(calls' - paid')
      <3>1. paid' = 0 /\ WithinCalls(calls')
        BY <2>1
      <3>2. calls' - paid' = calls'
        BY <3>1, NothingPaid
      <3>3. QED
        BY <3>1, <3>2
    <2>2. pc' \in {"analyze", "lookup", "complete", "validate"} => WithinCalls(calls' - paid')
      BY <2>1
    <2>3. QED
      BY <2>2 DEF CheckedCallsWithinBudget, Unjudged
  <1>6. QED
    BY <1>1, <1>2, <1>3, <1>4, <1>5, WorkKeepsIInv

\* Giving up, or going on without a model, says nothing of the unit.
LEMMA GiveUpKeepsIInv ==
  ASSUME IInv, file \in Files, pc' \in {"failed", "sync"},
         UNCHANGED <<rest, unit, first, spending, project, shared>>
  PROVE  IInv'
  BY StageKeepsIInv DEF IInv, TypeInv, spending, Unjudged, WithText

LEMMA AnalyzeKeepsIInv ==
  ASSUME IInv, Analyze
  PROVE  IInv'
  <1>1. /\ pc = "analyze" /\ UNCHANGED <<rest, first, project, shared>>
        /\ unit' = [unit EXCEPT !.state = In("Analyzed")]
        /\ calls' = calls + 1 /\ paid' = 0
        /\ (pc' = "lookup" /\ WithinCalls(calls + 1)) \/ pc' = "failed"
    BY DEF Analyze
  <1>2. unit' \in Units /\ unit'.state.tag = "Analyzed" /\ unit'.route # "sync"
    BY <1>1, InType, ByConfigRoute DEF ByConfig, Unjudged, IInv, TypeInv, Units, Tags
  <1>3. file \in Files /\ calls \in Nat /\ first \in MaybeText
    BY <1>1 DEF IInv, UnitInv, TypeInv, Between
  <1>4. QED
    BY <1>1, <1>2, <1>3, StageKeepsIInv DEF Unjudged, WithText

\* A text that has come to the unit, from whichever source.
LEMMA RefineFacts ==
  ASSUME TypeInv, NEW t \in Texts, NEW route \in Routes, NEW u, u = Refine(t, route)
  PROVE  u \in Units /\ u.rust = t /\ u.state.tag = "Refined"
  BY InType DEF TypeInv, Units, MaybeText, Refine, Tags

LEMMA RefineRoute ==
  ASSUME TypeInv, NEW t, NEW route
  PROVE  Refine(t, route).route = route
  BY DEF TypeInv, Units, Refine

LEMMA LookupKeepsIInv ==
  ASSUME IInv, Lookup
  PROVE  IInv'
  <1>1. pc = "lookup" /\ UNCHANGED <<rest, first, spending, project, shared>>
    BY DEF Lookup
  <1>2. /\ file \in Files /\ first \in MaybeText /\ unit \in Units /\ calls \in Nat
        /\ paid = 0 /\ WithinCalls(calls)
        /\ unit.state.tag \in {"Extracted", "Analyzed", "Refined"}
        /\ calls' = calls /\ paid' = paid /\ first' = first /\ unit.route # "sync"
    BY <1>1, ByConfigRoute DEF ByConfig, IInv, UnitInv, TypeInv, SpentInv, Between, Unjudged, spending
  <1>3. PICK t \in MaybeText : t = cache[SourceOf[file]]
    BY <1>2 DEF IInv, TypeInv, Sources
  <1>4. CASE t # None
    <2>1. t \in Texts /\ unit' = Refine(t, "cached") /\ pc' = "complete"
      BY <1>3, <1>4 DEF Lookup, MaybeText
    <2>2. /\ unit' \in Units /\ unit'.rust = t /\ unit'.state.tag = "Refined"
          /\ unit'.route # "sync"
      <3>1. unit' \in Units /\ unit'.rust = t /\ unit'.state.tag = "Refined"
        BY <2>1, RefineFacts DEF IInv, Routes
      <3>2. unit'.route = "cached"
        BY <2>1, RefineRoute DEF IInv
      <3>3. QED
        BY <3>1, <3>2
    <2>3. WithinCalls(calls' - paid')
      <3>1. calls' - paid' = calls
        BY <1>2
      <3>2. QED
        BY <3>1, <1>2
    <2>4. QED
      BY <1>1, <1>2, <2>1, <2>2, <2>3, StageKeepsIInv DEF Unjudged, WithText
  <1>5. CASE t = None
    <2>1. pc' \in {"modular", "translate"} /\ unit' = unit
      BY <1>3, <1>5 DEF Lookup
    <2>2. QED
      BY <1>1, <1>2, <2>1, StageKeepsIInv DEF Unjudged, WithText
  <1>6. QED
    BY <1>4, <1>5

LEMMA ModularKeepsIInv ==
  ASSUME IInv, Modular
  PROVE  IInv'
  <1>1. pc = "modular" /\ UNCHANGED <<rest, first, project, shared>>
    BY DEF Modular
  <1>2. /\ file \in Files /\ first \in MaybeText /\ unit \in Units /\ calls \in Nat
        /\ paid = 0 /\ WithinCalls(calls)
        /\ unit.state.tag \in {"Extracted", "Analyzed", "Refined"} /\ first' = first
        /\ unit.route # "sync"
    BY <1>1, ByConfigRoute DEF ByConfig, IInv, UnitInv, TypeInv, SpentInv, Between, Unjudged
  <1>3. CASE pc' \in {"translate", "failed"} /\ UNCHANGED <<unit, spending>>
    BY <1>1, <1>2, <1>3, StageKeepsIInv DEF Unjudged, WithText, spending
  <1>4. ASSUME pc' = "complete", NEW t \in Texts, NEW n \in ModularCalls,
               unit' = Refine(t, "modular"), calls' = calls + n, paid' = n
        PROVE  IInv'
    <2>1. /\ unit' \in Units /\ unit'.rust = t /\ unit'.state.tag = "Refined"
          /\ unit'.route # "sync"
      <3>1. unit' \in Units /\ unit'.rust = t /\ unit'.state.tag = "Refined"
        BY <1>4, RefineFacts DEF IInv, Routes
      <3>2. unit'.route = "modular"
        BY <1>4, RefineRoute DEF IInv
      <3>3. QED
        BY <3>1, <3>2
    <2>2. n \in Nat
      BY PipelineAssumption
    <2>3. WithinCalls(calls' - paid')
      <3>1. calls' - paid' = calls
        BY <1>2, <1>4, <2>2
      <3>2. QED
        BY <3>1, <1>2
    <2>4. calls' \in Nat /\ paid' \in Nat /\ paid' <= calls'
      BY <1>2, <1>4, <2>2
    <2>5. QED
      BY <1>1, <1>2, <1>4, <2>1, <2>3, <2>4, StageKeepsIInv DEF Unjudged, WithText
  <1>5. QED
    BY <1>3, <1>4 DEF Modular

LEMMA TranslateKeepsIInv ==
  ASSUME IInv, Translate
  PROVE  IInv'
  <1>1. pc = "translate" /\ pc' = "substance" /\ UNCHANGED <<rest, first, spending, project, shared>>
    BY DEF Translate
  <1>2. PICK t \in Texts : unit' = [unit EXCEPT !.rust = t, !.route = "translated"]
    BY DEF Translate
  <1>3. /\ unit' \in Units /\ unit'.rust = t /\ unit'.route # "sync"
        /\ unit'.state.tag \in {"Extracted", "Analyzed", "Refined"}
    BY <1>1, <1>2 DEF IInv, TypeInv, UnitInv, Units, MaybeText, Routes, Unjudged
  <1>4. file \in Files
    BY <1>1 DEF IInv, UnitInv, ByConfig, Between
  <1>5. QED
    BY <1>1, <1>3, <1>4, StageKeepsIInv DEF IInv, TypeInv, Unjudged, WithText, spending

\* The gates keep a text of the instance, and its state.
LEMMA SubstanceGateKeepsIInv ==
  ASSUME IInv, SubstanceGate
  PROVE  IInv'
  <1>1. pc = "substance" /\ pc' = "unsafe" /\ UNCHANGED <<rest, first, paid, project, shared>>
    BY DEF SubstanceGate, Retranslation
  <1>2. /\ file \in Files /\ unit.rust \in Texts /\ unit \in Units /\ first \in MaybeText
        /\ unit.state.tag \in {"Extracted", "Analyzed", "Refined"}
        /\ calls \in Nat /\ paid \in Nat /\ paid <= calls /\ unit.route # "sync"
    BY <1>1, ByConfigRoute DEF ByConfig, IInv, TypeInv, UnitInv, ByConfig, Between, Unjudged, WithText
  <1>3. calls' \in Nat /\ paid' \in Nat /\ paid' <= calls'
    BY <1>1, <1>2 DEF SubstanceGate, Retranslation
  <1>4. unit' = unit \/ \E t \in Texts \union {unit.rust} : unit' = [unit EXCEPT !.rust = t]
    BY DEF SubstanceGate, Retranslation
  <1>5. unit' \in Units /\ unit'.rust \in Texts /\ unit'.state = unit.state /\ unit'.route = unit.route
    BY <1>2, <1>4 DEF Units, MaybeText
  <1>6. QED
    BY <1>1, <1>2, <1>3, <1>5, StageKeepsIInv DEF Unjudged, WithText

LEMMA UnsafeGateKeepsIInv ==
  ASSUME IInv, UnsafeGate
  PROVE  IInv'
  <1>1. pc = "unsafe" /\ pc' = "translated" /\ UNCHANGED <<rest, first, paid, project, shared>>
    BY DEF UnsafeGate, Retranslation
  <1>2. /\ file \in Files /\ unit.rust \in Texts /\ unit \in Units /\ first \in MaybeText
        /\ unit.state.tag \in {"Extracted", "Analyzed", "Refined"}
        /\ calls \in Nat /\ paid \in Nat /\ paid <= calls /\ unit.route # "sync"
    BY <1>1, ByConfigRoute DEF ByConfig, IInv, TypeInv, UnitInv, ByConfig, Between, Unjudged, WithText
  <1>3. calls' \in Nat /\ paid' \in Nat /\ paid' <= calls'
    BY <1>1, <1>2 DEF UnsafeGate, Retranslation
  <1>4. unit' = unit \/ \E t \in Texts \union {unit.rust} : unit' = [unit EXCEPT !.rust = t]
    BY DEF UnsafeGate, Retranslation
  <1>5. unit' \in Units /\ unit'.rust \in Texts /\ unit'.state = unit.state /\ unit'.route = unit.route
    BY <1>2, <1>4 DEF Units, MaybeText
  <1>6. QED
    BY <1>1, <1>2, <1>3, <1>5, StageKeepsIInv DEF Unjudged, WithText

LEMMA FinishTranslationKeepsIInv ==
  ASSUME IInv, FinishTranslation
  PROVE  IInv'
  <1>1. /\ pc = "translated" /\ UNCHANGED <<rest, first, project, shared>>
        /\ unit' = [unit EXCEPT !.state = In("Refined")]
        /\ calls' = calls + 1 /\ paid' = 0
        /\ (pc' = "complete" /\ WithinCalls(calls + 1)) \/ pc' = "failed"
    BY DEF FinishTranslation
  <1>2. /\ file \in Files /\ unit.rust \in Texts /\ unit \in Units /\ first \in MaybeText
        /\ calls \in Nat /\ unit.route # "sync"
    BY <1>1, ByConfigRoute DEF ByConfig, Unjudged, IInv, TypeInv, UnitInv, ByConfig, Between, WithText
  <1>3. unit' \in Units /\ unit'.rust \in Texts /\ unit'.state.tag = "Refined"
        /\ unit'.route # "sync"
    BY <1>1, <1>2, InType DEF Units, Tags
  <1>4. calls' \in Nat /\ calls' - paid' = calls + 1
    BY <1>1, <1>2
  <1>5. QED
    BY <1>1, <1>2, <1>3, <1>4, StageKeepsIInv DEF Unjudged, WithText

\* Calls that no check follows leave what the last check saw as it was.
LEMMA PaidFacts ==
  ASSUME NEW c \in Nat, NEW p \in Nat, p <= c, NEW n \in Nat
  PROVE  /\ c + n \in Nat /\ p + n \in Nat /\ p + n <= c + n
         /\ (c + n) - (p + n) = c - p
  OBVIOUS

LEMMA CompleteKeepsIInv ==
  ASSUME IInv, Complete
  PROVE  IInv'
  <1>1. pc = "complete" /\ pc' = "validate" /\ UNCHANGED <<rest, first, project, shared>>
    BY DEF Complete
  <1>2. /\ file \in Files /\ unit.rust \in Texts /\ unit \in Units /\ first \in MaybeText
        /\ unit.state.tag \in {"Extracted", "Analyzed", "Refined"}
        /\ calls \in Nat /\ paid \in Nat /\ paid <= calls /\ WithinCalls(calls - paid)
        /\ unit.route # "sync"
    BY <1>1, ByConfigRoute DEF ByConfig, IInv, TypeInv, UnitInv, ByConfig, Between, Unjudged, WithText, CheckedCallsWithinBudget
  <1>3. CASE UNCHANGED <<unit, spending>>
    BY <1>1, <1>2, <1>3, StageKeepsIInv DEF Unjudged, WithText, spending
  <1>4. ASSUME NEW t \in Texts, NEW n \in 0 .. MaxCompletionPasses,
               unit' = [unit EXCEPT !.rust = t], calls' = calls + n, paid' = paid + n
        PROVE  IInv'
    <2>1. unit' \in Units /\ unit'.rust \in Texts /\ unit'.state = unit.state /\ unit'.route = unit.route
      BY <1>2, <1>4 DEF Units, MaybeText
    <2>2. n \in Nat
      BY DEF MaxCompletionPasses
    <2>3. calls' \in Nat /\ paid' \in Nat /\ paid' <= calls' /\ calls' - paid' = calls - paid
      BY <1>2, <1>4, <2>2, PaidFacts
    <2>4. QED
      BY <1>1, <1>2, <2>1, <2>3, StageKeepsIInv DEF Unjudged, WithText
  <1>5. QED
    BY <1>3, <1>4 DEF Complete

-----------------------------------------------------------------------------
(***************************************************************************)
(* From the first verdict to the project.                                  *)
(***************************************************************************)
LEMMA VerdictKeepsIInv ==
  ASSUME IInv, file \in Files, UNCHANGED <<rest, project, shared>>,
         first' \in MaybeText, unit' \in Units,
         calls' \in Nat, paid' \in Nat, paid' <= calls', WithinCalls(calls' - paid'),
         pc' \in {"hybrid", "loop"} \union Judgment,
         pc' \in {"hybrid", "loop"} => unit'.state.tag = "Repairing",
         pc' \in Judgment => Deliverable(unit'),
         pc' \in ByConfig => unit'.route # "sync"
  PROVE  IInv'
  <1>1. UNCHANGED <<queue, file, harness, project, cache, torn>>
    BY DEF rest, shared
  <1>2. TypeInv'
    BY <1>1 DEF IInv, TypeInv
  <1>3. UnitInv'
    BY <1>1 DEF UnitInv, ByConfig, Between, Unjudged, WithText, Judgment
  <1>4. SpentInv'
    BY DEF SpentInv, Between, Judgment
  <1>5. CheckedCallsWithinBudget'
    BY DEF CheckedCallsWithinBudget
  <1>6. QED
    BY <1>1, <1>2, <1>3, <1>4, <1>5, WorkKeepsIInv

LEMMA ValidateKeepsIInv ==
  ASSUME IInv, Validate
  PROVE  IInv'
  <1>1. pc = "validate" /\ UNCHANGED <<rest, spending, project, shared>>
    BY DEF Validate
  <1>2. /\ file \in Files /\ unit.rust \in Texts
        /\ unit.state.tag \in {"Extracted", "Analyzed", "Refined"}
        /\ calls \in Nat /\ paid \in Nat /\ paid <= calls /\ WithinCalls(calls - paid)
        /\ calls' = calls /\ paid' = paid /\ unit.route # "sync"
    BY <1>1, ByConfigRoute DEF ByConfig, IInv, TypeInv, UnitInv, ByConfig, Between, Unjudged, WithText, CheckedCallsWithinBudget,
       spending
  <1>3. PICK t \in Texts : t = unit.rust
    BY <1>2
  <1>4. /\ unit' = Judged(t) /\ first' = t
        /\ pc' = IF Passed(t, harness) THEN "tests"
                 ELSE IF Size[file] = "large" THEN "hybrid" ELSE "loop"
    BY <1>3 DEF Validate
  <1>5. /\ unit' \in Units /\ unit'.rust = t /\ unit'.route # "sync"
        /\ unit'.state.tag = "Repairing" \/ Promise!Warranted(t, unit'.state.tag)
        /\ unit'.state.tag = (IF Passed(t, harness) THEN "Validated" ELSE "Repairing")
    BY <1>2, <1>4, JudgedFacts DEF IInv
  <1>6. pc' = "tests" => Deliverable(unit')
    BY <1>4, <1>5, TextFacts DEF Deliverable
  <1>7. pc' # "tests" => unit'.state.tag = "Repairing"
    BY <1>4, <1>5
  <1>8. pc' \in {"tests", "hybrid", "loop"}
    BY <1>4
  <1>9. first' \in MaybeText
    BY <1>4 DEF MaybeText
  <1>10. QED
    BY <1>1, <1>2, <1>5, <1>6, <1>7, <1>8, <1>9, VerdictKeepsIInv DEF ByConfig, Judgment

LEMMA HybridKeepsIInv ==
  ASSUME IInv, Hybrid
  PROVE  IInv'
  <1>1. pc = "hybrid" /\ pc' = "tests" /\ UNCHANGED <<rest, first, project, shared>>
    BY DEF Hybrid
  <1>2. /\ file \in Files /\ unit.state.tag = "Repairing" /\ unit \in Units /\ first \in MaybeText
        /\ calls \in Nat /\ paid \in Nat /\ paid <= calls /\ WithinCalls(calls - paid)
    BY <1>1 DEF IInv, TypeInv, UnitInv, ByConfig, Between, CheckedCallsWithinBudget
  <1>3. PICK t \in Texts, n \in 0 .. MaxSurgical :
          /\ unit' = [IF t.compiles THEN Judged(t) ELSE [unit EXCEPT !.rust = t]
                      EXCEPT !.route = "hybrid"]
          /\ calls' = calls + n /\ paid' = paid + n
    BY DEF Hybrid
  <1>4. PICK u : u = IF t.compiles THEN Judged(t) ELSE [unit EXCEPT !.rust = t]
    OBVIOUS
  <1>5. /\ u \in Units /\ u.rust = t
        /\ u.state.tag = "Repairing" \/ Promise!Warranted(t, u.state.tag)
    <2>1. CASE t.compiles
      BY <1>4, <2>1, JudgedFacts DEF IInv
    <2>2. CASE ~t.compiles
      BY <1>2, <1>4, <2>2 DEF Units, MaybeText
    <2>3. QED
      BY <2>1, <2>2
  <1>6. unit' = [u EXCEPT !.route = "hybrid"]
    BY <1>3, <1>4
  <1>7. unit' \in Units /\ Deliverable(unit') /\ unit'.route # "sync"
    <2>1. /\ unit' \in Units /\ unit'.rust = t /\ unit'.state = u.state
          /\ unit'.route = "hybrid"
      BY <1>5, <1>6 DEF Units, Routes
    <2>2. QED
      BY <1>5, <2>1, TextFacts DEF Deliverable
  <1>8. n \in Nat
    BY DEF MaxSurgical
  <1>9. calls' \in Nat /\ paid' \in Nat /\ paid' <= calls' /\ calls' - paid' = calls - paid
    BY <1>2, <1>3, <1>8, PaidFacts
  <1>10. QED
    BY <1>1, <1>2, <1>7, <1>9, VerdictKeepsIInv DEF ByConfig, Judgment

LEMMA RepairKeepsIInv ==
  ASSUME IInv, Repair
  PROVE  IInv'
  <1>1. pc = "loop" /\ pc' = "tests" /\ UNCHANGED <<rest, first, project, shared>>
    BY DEF Repair
  <1>2. /\ file \in Files /\ unit \in Units /\ first \in MaybeText
        /\ calls \in Nat /\ paid \in Nat /\ paid <= calls /\ WithinCalls(calls - paid)
        /\ unit.route # "sync"
    BY <1>1, ByConfigRoute DEF ByConfig, IInv, TypeInv, UnitInv, ByConfig, Between, CheckedCallsWithinBudget
  <1>3. PICK t \in Texts, tag \in Tags, n \in 0 .. MaxIters :
          /\ Promise!Warranted(t, tag)
          /\ unit' = [unit EXCEPT !.rust = t, !.state = In(tag), !.score = t.score,
                                  !.unsafe = t.unsafe]
          /\ calls' = calls + n /\ paid' = paid + n
    BY DEF Repair
  <1>4. unit' \in Units /\ unit'.rust = t /\ unit'.state = In(tag) /\ unit'.route = unit.route
    BY <1>2, <1>3, InType, TextFacts DEF Units, MaybeText
  <1>5. Deliverable(unit')
    BY <1>2, <1>3, <1>4, InType, TextFacts DEF Deliverable
  <1>6. n \in Nat
    BY PipelineAssumption
  <1>7. calls' \in Nat /\ paid' \in Nat /\ paid' <= calls' /\ calls' - paid' = calls - paid
    BY <1>2, <1>3, <1>6, PaidFacts
  <1>8. QED
    BY <1>1, <1>2, <1>4, <1>5, <1>7, VerdictKeepsIInv DEF ByConfig, Judgment

LEMMA GenerateTestsKeepsIInv ==
  ASSUME IInv, GenerateTests
  PROVE  IInv'
  <1>1. pc = "tests" /\ pc' = "store" /\ UNCHANGED <<rest, first, project, shared>>
    BY DEF GenerateTests
  <1>2. /\ file \in Files /\ unit \in Units /\ Deliverable(unit) /\ first \in MaybeText
        /\ calls \in Nat /\ paid \in Nat /\ paid <= calls /\ WithinCalls(calls - paid)
        /\ unit.route # "sync"
    BY <1>1, ByConfigRoute DEF ByConfig, IInv, TypeInv, UnitInv, ByConfig, Between, Judgment, CheckedCallsWithinBudget
  <1>3. CASE UNCHANGED <<unit, spending>>
    BY <1>1, <1>2, <1>3, VerdictKeepsIInv DEF ByConfig, Judgment, spending
  <1>4. CASE unit' = [unit EXCEPT !.tests = unit.rust] /\ calls' = calls + 1 /\ paid' = paid + 1
    <2>1. /\ unit' \in Units /\ unit'.rust = unit.rust /\ unit'.state = unit.state
          /\ unit'.route = unit.route
      BY <1>2, <1>4 DEF Units
    <2>2. Deliverable(unit')
      BY <1>2, <2>1, DeliverableByFields
    <2>3. calls' \in Nat /\ paid' \in Nat /\ paid' <= calls' /\ calls' - paid' = calls - paid
      BY <1>2, <1>4, PaidFacts
    <2>4. QED
      BY <1>1, <1>2, <2>1, <2>2, <2>3, VerdictKeepsIInv DEF ByConfig, Judgment
  <1>5. QED
    BY <1>3, <1>4 DEF GenerateTests

LEMMA FuzzKeepsIInv ==
  ASSUME IInv, Fuzz
  PROVE  IInv'
  <1>1. pc = "fuzz" /\ pc' = "finish" /\ UNCHANGED <<rest, first, spending, project, shared>>
    BY DEF Fuzz
  <1>2. /\ file \in Files /\ unit \in Units /\ Deliverable(unit) /\ first \in MaybeText
        /\ calls \in Nat /\ paid \in Nat /\ paid <= calls /\ WithinCalls(calls - paid)
        /\ unit.route # "sync"
    BY <1>1, ByConfigRoute DEF ByConfig, IInv, TypeInv, UnitInv, ByConfig, Between, Judgment, CheckedCallsWithinBudget
  <1>3. unit' = unit \/ unit' = [unit EXCEPT !.fuzzed = unit.rust]
    BY DEF Fuzz
  <1>4. /\ unit' \in Units /\ unit'.rust = unit.rust /\ unit'.state = unit.state
        /\ unit'.route = unit.route
    BY <1>2, <1>3 DEF Units
  <1>5. Deliverable(unit')
    BY <1>2, <1>4, DeliverableByFields
  <1>6. QED
    BY <1>1, <1>2, <1>4, <1>5, VerdictKeepsIInv DEF ByConfig, Judgment, spending

\* The synchronous pipeline: what it validates passed, the rest is short of an
\* answer and says so.
LEMMA MigrateSyncKeepsIInv ==
  ASSUME IInv, MigrateSync
  PROVE  IInv'
  <1>1. /\ pc = "sync" /\ pc' = "finish" /\ calls' = 0 /\ paid' = 0
        /\ UNCHANGED <<rest, first, project, shared>>
    BY DEF MigrateSync
  <1>2. file \in Files /\ first \in MaybeText /\ harness \in BOOLEAN
    BY <1>1 DEF IInv, TypeInv, UnitInv, ByConfig, Between
  <1>3. unit' \in Units /\ Deliverable(unit')
    <2>1. CASE unit' = [NoUnit EXCEPT !.route = "sync"]
      <3>1. unit' \in Units /\ unit'.route = "sync" /\ unit'.state.tag = "Extracted"
        BY <2>1, NoUnitType DEF Units, Routes
      <3>2. QED
        BY <3>1 DEF Deliverable
    <2>2. ASSUME NEW t \in Texts, NEW state \in {In("Refined"), In("C2RustDone")},
                 NEW v, v = SyncVerdict(t, state),
                 unit' = [NoUnit EXCEPT !.rust = t, !.state = v.state, !.score = v.score,
                                        !.unsafe = v.unsafe, !.route = "sync"]
          PROVE  unit' \in Units /\ Deliverable(unit')
      <3>1. /\ v.state \in MigrationState /\ v.score = t.score /\ v.unsafe = t.unsafe
            /\ v.state.tag = "Repairing" \/ Default!Warranted(t, v.state.tag)
        BY <1>2, <2>2, SyncVerdictFacts
      <3>2. unit' \in Units /\ unit'.rust = t /\ unit'.state = v.state /\ unit'.route = "sync"
        BY <2>2, <3>1, NoUnitType, TextFacts DEF Units, MaybeText, Routes
      <3>3. QED
        BY <3>1, <3>2, TextFacts DEF Deliverable
    <2>3. QED
      BY <2>1, <2>2 DEF MigrateSync
  <1>4. calls' - paid' = 0
    BY <1>1
  <1>5. QED
    BY <1>1, <1>2, <1>3, <1>4, NothingIsWithinCalls, VerdictKeepsIInv DEF ByConfig, Unjudged, Judgment

\* cache::put is given a validated text only.
LEMMA StoreKeepsIInv ==
  ASSUME IInv, Store
  PROVE  IInv'
  <1>1. /\ pc = "store" /\ pc' = "fuzz"
        /\ UNCHANGED <<queue, file, harness, unit, first, calls, paid, project>>
    BY DEF Store, rest, spending
  <1>2. /\ file \in Files /\ unit \in Units /\ Deliverable(unit) /\ WithinCalls(calls - paid)
        /\ cache \in [Sources -> MaybeText] /\ unit.route # "sync"
    BY <1>1, ByConfigRoute DEF IInv, TypeInv, UnitInv, ByConfig, Between, Judgment, CheckedCallsWithinBudget
  <1>3. PICK s \in Sources : s = SourceOf[file]
    BY <1>2 DEF Sources
  <1>4. CASE unit.state.tag # "Validated"
    <2>1. UNCHANGED shared
      BY <1>4 DEF Store
    <2>2. UNCHANGED rest
      BY DEF Store
    <2>3. QED
      BY <1>1, <1>2, <2>1, <2>2, VerdictKeepsIInv DEF ByConfig, IInv, TypeInv, Judgment
  <1>5. CASE unit.state.tag = "Validated"
    <2>1. cache' = [cache EXCEPT ![s] = unit.rust] /\ torn' = torn \ {s}
      BY <1>3, <1>5 DEF Store
    <2>2. Promise!Warranted(unit.rust, "Validated")
      BY <1>2, <1>5 DEF Deliverable
    <2>3. cache' \in [Sources -> MaybeText]
      BY <1>2, <2>1 DEF Units
    <2>4. TypeInv'
      BY <1>1, <2>3 DEF IInv, TypeInv, Judgment
    <2>5. UnitInv'
      BY <1>1, <1>2 DEF UnitInv, ByConfig, Between, Unjudged, WithText, Judgment
    <2>6. SpentInv'
      BY <1>1 DEF SpentInv, Between
    <2>7. DeliveredIsWarranted'
      BY <1>1 DEF IInv, DeliveredIsWarranted
    <2>8. CacheHoldsValidated'
      <3> SUFFICES ASSUME NEW q \in Sources, cache'[q] # None, q \notin torn'
                   PROVE  Promise!Warranted(cache'[q], "Validated")
        BY DEF CacheHoldsValidated
      <3>1. CASE q = s
        BY <1>2, <2>1, <2>2, <3>1
      <3>2. CASE q # s
        <4>1. cache'[q] = cache[q] /\ q \notin torn
          BY <1>2, <2>1, <3>2
        <4>2. QED
          BY <4>1 DEF IInv, CacheHoldsValidated
      <3>3. QED
        BY <3>1, <3>2
    <2>9. CheckedCallsWithinBudget'
      BY <1>1, <1>2 DEF CheckedCallsWithinBudget
    <2>10. QED
      BY <2>4, <2>5, <2>6, <2>7, <2>8, <2>9 DEF IInv
  <1>6. QED
    BY <1>4, <1>5

\* The unit is put into the project, and nothing is left of the file.
LEMMA FinishKeepsIInv ==
  ASSUME IInv, Finish
  PROVE  IInv'
  <1>1. /\ pc = "finish" /\ pc' = "next" /\ UNCHANGED <<queue, cache, torn>>
        /\ file' = None /\ harness' = FALSE /\ unit' = NoUnit /\ first' = None
        /\ calls' = 0 /\ paid' = 0
        /\ project' = [f \in DOMAIN project \union {file} |->
                         IF f = file THEN unit ELSE project[f]]
    BY DEF Finish, Cleared, shared
  <1>2. file \in Files /\ Deliverable(unit)
    BY <1>1 DEF IInv, UnitInv, ByConfig, Between, Judgment
  <1>3. TypeInv'
    <2>1. unit' \in Units /\ first' \in MaybeText
      BY <1>1, NoUnitType DEF MaybeText
    <2>2. DOMAIN project' \subseteq Files
      BY <1>1, <1>2 DEF IInv, TypeInv
    <2>3. calls' \in Nat /\ paid' \in Nat /\ paid' <= calls'
      BY <1>1
    <2>4. harness' \in BOOLEAN
      BY <1>1
    <2>5. QED
      BY <1>1, <2>1, <2>2, <2>3, <2>4 DEF IInv, TypeInv, Between
  <1>4. UnitInv'
    BY <1>1 DEF UnitInv, ByConfig, Between, Unjudged, WithText, Judgment
  <1>5. SpentInv'
    BY <1>1 DEF SpentInv
  <1>6. DeliveredIsWarranted'
    <2> SUFFICES ASSUME NEW f \in DOMAIN project'
                 PROVE  Deliverable(project'[f])
      BY DEF DeliveredIsWarranted
    <2>1. CASE f = file
      BY <1>1, <1>2, <2>1
    <2>2. CASE f # file
      BY <1>1, <2>2 DEF IInv, DeliveredIsWarranted
    <2>3. QED
      BY <2>1, <2>2
  <1>7. CacheHoldsValidated'
    BY <1>1 DEF IInv, CacheHoldsValidated
  <1>8. CheckedCallsWithinBudget'
    <2>1. calls' - paid' = 0
      BY <1>1
    <2>2. QED
      BY <2>1, NothingIsWithinCalls DEF CheckedCallsWithinBudget
  <1>9. QED
    BY <1>3, <1>4, <1>5, <1>6, <1>7, <1>8 DEF IInv

LEMMA StageFailsKeepsIInv ==
  ASSUME IInv, StageFails
  PROVE  IInv'
  <1>1. file \in Files
    BY DEF IInv, UnitInv, ByConfig, Between, StageFails
  <1>2. QED
    BY <1>1, GiveUpKeepsIInv DEF StageFails

\* The process stops: the cache is left, and of it an entry that was being written.
LEMMA CrashKeepsIInv ==
  ASSUME IInv, Crash
  PROVE  IInv'
  <1>1. /\ pc' = "idle" /\ queue' = {} /\ project' = NoProject
        /\ file' = None /\ harness' = FALSE /\ unit' = NoUnit /\ first' = None
        /\ calls' = 0 /\ paid' = 0
    BY DEF Crash, Cleared
  <1>2. CASE UNCHANGED shared
    BY <1>1, <1>2, RestKeepsIInv DEF Between, MaybeText
  <1>3. ASSUME NEW left \in {None, Cut}, pc = "store",
               cache' = [cache EXCEPT ![SourceOf[file]] = left],
               torn' = torn \union {SourceOf[file]}
        PROVE  IInv'
    <2>1. left \in MaybeText
      BY PipelineAssumption DEF MaybeText
    <2>2. cache' \in [Sources -> MaybeText]
      BY <1>3, <2>1 DEF IInv, TypeInv
    <2>3. TypeInv'
      <3>1. unit' \in Units /\ first' \in MaybeText
        BY <1>1, NoUnitType DEF MaybeText
      <3>2. DOMAIN project' \subseteq Files
        BY <1>1 DEF NoProject
      <3>3. calls' \in Nat /\ paid' \in Nat /\ paid' <= calls'
        BY <1>1
      <3>4. harness' \in BOOLEAN
        BY <1>1
      <3>5. QED
        BY <1>1, <2>2, <3>1, <3>2, <3>3, <3>4 DEF TypeInv, Between
    <2>4. UnitInv'
      BY <1>1 DEF UnitInv, ByConfig, Between, Unjudged, WithText, Judgment
    <2>5. SpentInv'
      BY <1>1 DEF SpentInv
    <2>6. DeliveredIsWarranted'
      BY <1>1 DEF DeliveredIsWarranted, NoProject
    <2>7. CacheHoldsValidated'
      <3> SUFFICES ASSUME NEW q \in Sources, cache'[q] # None, q \notin torn'
                   PROVE  Promise!Warranted(cache'[q], "Validated")
        BY DEF CacheHoldsValidated
      <3>1. cache'[q] = cache[q] /\ q \notin torn
        BY <1>3 DEF IInv, TypeInv
      <3>2. QED
        BY <3>1 DEF IInv, CacheHoldsValidated
    <2>8. CheckedCallsWithinBudget'
      <3>1. calls' - paid' = 0
        BY <1>1
      <3>2. QED
        BY <3>1, NothingIsWithinCalls DEF CheckedCallsWithinBudget
    <2>9. QED
      BY <2>3, <2>4, <2>5, <2>6, <2>7, <2>8 DEF IInv
  <1>4. QED
    BY <1>2, <1>3 DEF Crash

LEMMA StutterKeepsIInv ==
  ASSUME IInv, UNCHANGED vars
  PROVE  IInv'
  <1>1. TypeInv'
    BY DEF vars, IInv, TypeInv
  <1>2. UnitInv'
    BY DEF vars, IInv, UnitInv
  <1>3. SpentInv'
    BY DEF vars, IInv, SpentInv
  <1>4. CheckedCallsWithinBudget'
    BY DEF vars, IInv, CheckedCallsWithinBudget
  <1>5. QED
    BY <1>1, <1>2, <1>3, <1>4, WorkKeepsIInv DEF vars, shared

LEMMA StepKeepsIInv ==
  ASSUME IInv, Step
  PROVE  IInv'
  <1>1. CASE NextFile \/ NextListed
    <2>1. PICK f \in queue : Take(f)
      BY <1>1 DEF NextFile, NextListed
    <2>2. f \in Files
      BY DEF IInv, TypeInv
    <2>3. QED
      BY <2>1, <2>2, TakeKeepsIInv
  <1>2. CASE AllMigrated
    BY <1>2, AllMigratedKeepsIInv
  <1>3. CASE MigrateSync
    BY <1>3, MigrateSyncKeepsIInv
  <1>4. CASE AnalysisFails \/ TranslationFails
    <2>1. file \in Files /\ pc' = "sync" /\ UNCHANGED <<rest, unit, first, spending, project, shared>>
      BY <1>4 DEF AnalysisFails, TranslationFails, IInv, UnitInv, ByConfig, Between
    <2>2. QED
      BY <2>1, GiveUpKeepsIInv
  <1>5. CASE Analyze
    BY <1>5, AnalyzeKeepsIInv
  <1>6. CASE Lookup
    BY <1>6, LookupKeepsIInv
  <1>7. CASE Modular
    BY <1>7, ModularKeepsIInv
  <1>8. CASE Translate
    BY <1>8, TranslateKeepsIInv
  <1>9. CASE SubstanceGate
    BY <1>9, SubstanceGateKeepsIInv
  <1>10. CASE UnsafeGate
    BY <1>10, UnsafeGateKeepsIInv
  <1>11. CASE FinishTranslation
    BY <1>11, FinishTranslationKeepsIInv
  <1>12. CASE Complete
    BY <1>12, CompleteKeepsIInv
  <1>13. CASE Validate
    BY <1>13, ValidateKeepsIInv
  <1>14. CASE Hybrid
    BY <1>14, HybridKeepsIInv
  <1>15. CASE Repair
    BY <1>15, RepairKeepsIInv
  <1>16. CASE GenerateTests
    BY <1>16, GenerateTestsKeepsIInv
  <1>17. CASE Store
    BY <1>17, StoreKeepsIInv
  <1>18. CASE Fuzz
    BY <1>18, FuzzKeepsIInv
  <1>19. CASE Finish
    BY <1>19, FinishKeepsIInv
  <1>20. CASE StageFails
    BY <1>20, StageFailsKeepsIInv
  <1>21. CASE Return
    BY <1>21, ReturnKeepsIInv
  <1>22. QED
    BY <1>1, <1>2, <1>3, <1>4, <1>5, <1>6, <1>7, <1>8, <1>9, <1>10, <1>11, <1>12,
       <1>13, <1>14, <1>15, <1>16, <1>17, <1>18, <1>19, <1>20, <1>21 DEF Step

LEMMA NextKeepsIInv == IInv /\ [Next]_vars => IInv'
  <1> SUFFICES ASSUME IInv, [Next]_vars PROVE IInv'
    OBVIOUS
  <1>1. CASE Begin \/ BeginSync
    BY <1>1, SessionKeepsIInv DEF Begin, BeginSync
  <1>2. CASE Step
    BY <1>2, StepKeepsIInv
  <1>3. CASE Crash
    BY <1>3, CrashKeepsIInv
  <1>4. CASE UNCHANGED vars
    BY <1>4, StutterKeepsIInv
  <1>5. QED
    BY <1>1, <1>2, <1>3, <1>4 DEF Next

-----------------------------------------------------------------------------
(***************************************************************************)
(* The theorems.                                                           *)
(***************************************************************************)
\* The inductive invariant holds: what is known of the unit, of the calls, of the
\* project and of the cache at each stage of migrate_file.  What is judged without a
\* model is judged by the minimum of validate (60), whatever the configured one.
THEOREM Invariance == Spec => []IInv
  <1>1. Init => IInv
    BY InitIInv
  <1>2. IInv /\ [Next]_vars => IInv'
    BY NextKeepsIInv
  <1>3. QED
    BY <1>1, <1>2, PTL DEF Spec

\* The variables of the pipeline keep their types.
THEOREM TypeCorrect == Spec => []TypeOK
  <1>1. IInv => TypeOK
    BY DEF IInv, TypeInv, TypeOK, Units, MaybeText
  <1>2. QED
    BY <1>1, Invariance, PTL

\* Every unit that migrate_directory puts into its project has a state that its
\* text warrants, whichever stages it came through: by the configured minimum score
\* from the cache, chunks, modules, repair and hybrid repair, by a minimum of 60 from
\* the synchronous pipeline.
THEOREM DeliveryIsWarranted == Spec => []DeliveredIsWarranted
  <1>1. IInv => DeliveredIsWarranted
    BY DEF IInv
  <1>2. QED
    BY <1>1, Invariance, PTL

\* However many sessions fail or are stopped, the translation cache holds texts
\* that may be delivered as validated, but for entries whose write was cut short.
THEOREM CacheIsValidated == Spec => []CacheHoldsValidated
  <1>1. IInv => CacheHoldsValidated
    BY DEF IInv
  <1>2. QED
    BY <1>1, Invariance, PTL

\* What a file has cost before the last check_budget is within the hard limit.
THEOREM SpendingIsChecked == Spec => []CheckedCallsWithinBudget
  <1>1. IInv => CheckedCallsWithinBudget
    BY DEF IInv
  <1>2. QED
    BY <1>1, Invariance, PTL

=============================================================================
