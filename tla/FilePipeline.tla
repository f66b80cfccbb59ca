---------------------------- MODULE FilePipeline ----------------------------
(***************************************************************************)
(* Migration of the files of a directory, each through all stages of       *)
(* migrate_file (noricum-core/src/orchestrator.rs), one file after the     *)
(* other, with the translation cache they share.  Sessions follow each     *)
(* other; one may stop anywhere, and only the cache is left of it.         *)
(*                                                                         *)
(* Stages that have a module of their own are taken by what they promise:  *)
(* the repair loop by Delivery, which RepairLoop is proved to implement;   *)
(* the modules' migration and the hybrid repair by the texts they can give *)
(* (ModularMigration, AssembledRepair).                                    *)
(***************************************************************************)
EXTENDS Validation, Budget, FiniteSets

CONSTANTS
  Texts,         \* what agents, c2rust and the rules may produce
  Cut,           \* what a write that was cut short leaves of a text
  Incomplete,    \* texts with less than 80% of the functions of the C file
  Files, SourceOf, Size,   \* of each file its content, and "small", "medium" or "large"
  Rank,          \* place of a file's name among the sorted function names
  MaxSessions,   \* bound of this model
  ModularCalls,  \* calls a modular migration may report
  MaxIters       \* calls the repair loop may make

ASSUME PipelineAssumption ==
  /\ Texts \subseteq Text /\ Cut \in Texts /\ Incomplete \subseteq Texts /\ None \notin Texts
  /\ Rank \in [Files -> Nat] /\ Size \in [Files -> {"small", "medium", "large", "huge"}]
  /\ ModularCalls \subseteq Nat /\ MaxIters \in Nat

MaxCompletionPasses == 5
MaxSurgical == 5
UnsafeGateLimit == 5

VARIABLES
  pc,
  session,    \* number, kind, and whether it has a client of a model
  queue,      \* files still to be migrated
  file,       \* the file being migrated
  harness,    \* whether there is a test to compare it with
  unit,       \* the FunctionUnit
  first,      \* the text of the first validation
  calls,      \* metrics.llm_calls
  paid,       \* of these, the ones that no check_budget follows
  project,    \* units of the files migrated in this session
  cache,      \* text stored for a C source
  torn        \* history: sources whose entry was cut short

vars == <<pc, session, queue, file, harness, unit, first, calls, paid, project, cache, torn>>
spending == <<calls, paid>>
shared == <<cache, torn>>
rest == <<session, queue, file, harness>>

NoUnit == [rust |-> None, state |-> In("Extracted"), score |-> 0, unsafe |-> 0, route |-> "",
           tests |-> None, fuzzed |-> None]
NoProject == [f \in {} |-> NoUnit]
Sources == {SourceOf[f] : f \in Files}

Promise == INSTANCE Delivery WITH phase <- "working", text <- None, tag <- "Pending"

\* The synchronous pipeline calls validate, which has a minimum score of its own.
ValidateMinScore == 60

Default == INSTANCE Delivery WITH MinScore <- ValidateMinScore,
                                  phase <- "working", text <- None, tag <- "Pending"

\* A file's own variables are gone when it is done with.
Cleared ==
  /\ file' = None /\ harness' = FALSE /\ unit' = NoUnit /\ first' = None
  /\ calls' = 0 /\ paid' = 0

Init ==
  /\ pc = "idle" /\ session = [n |-> 0, sync |-> FALSE, client |-> FALSE]
  /\ queue = {} /\ file = None /\ harness = FALSE /\ unit = NoUnit /\ first = None
  /\ calls = 0 /\ paid = 0 /\ project = NoProject
  /\ cache = [s \in Sources |-> None] /\ torn = {}

-----------------------------------------------------------------------------
Session(sync, client) ==
  /\ pc = "idle" /\ session.n < MaxSessions
  /\ session' = [n |-> session.n + 1, sync |-> sync, client |-> client]
  /\ queue' = Files /\ project' = NoProject
  /\ pc' = "next"
  /\ UNCHANGED <<file, harness, unit, first, spending, shared>>

\* migrate_directory is called, with or without a client of a model.
Begin == \E client \in BOOLEAN : Session(FALSE, client)

\* migrate_directory_sync is called.
BeginSync == Session(TRUE, FALSE)

\* Slip: the file stays in the list.
WithoutNone(f) == queue
Without(f) == queue \ {f}

\* The way of a file: one that is too large ends the session, without a client it
\* is migrated by rules only.
FirstStage(f) ==
  IF Size[f] = "huge" THEN "failed" ELSE IF session.client THEN "analyze" ELSE "sync"

Take(f) ==
  /\ pc = "next" /\ f \in queue
  /\ queue' = Without(f) /\ file' = f
  /\ harness' \in BOOLEAN
  /\ pc' = FirstStage(f)
  /\ UNCHANGED <<session, unit, first, spending, project, shared>>

\* The next file by rank, of an asynchronous session.
NextFile ==
  ~session.sync /\ \E f \in queue : (\A g \in queue : Rank[f] <= Rank[g]) /\ Take(f)

\* The next file as the directory lists them.
NextListed == session.sync /\ \E f \in queue : Take(f)

AllMigrated ==
  /\ pc = "next" /\ queue = {}
  /\ pc' = "returned"
  /\ UNCHANGED <<rest, unit, first, spending, project, shared>>

\* Slip: a text that compiles is taken for validated.
SyncVerdictLoose(t, state) ==
  [Default!Apply(t, state, harness, 3) EXCEPT
     !.state = IF t.compiles THEN In("Validated") ELSE @]

\* validate and apply_validation: the configured minimum is not looked at.
SyncVerdict(t, state) == Default!Apply(t, state, harness, 3)

\* migrate_file_sync starts from an empty unit: the calls made so far are not
\* reported.  A text by rules wins over one of c2rust; without either the unit is
\* left as extracted.
MigrateSync ==
  /\ pc = "sync"
  /\ \/ unit' = [NoUnit EXCEPT !.route = "sync"]
     \/ \E t \in Texts, state \in {In("Refined"), In("C2RustDone")} :
          LET v == SyncVerdict(t, state)
          IN unit' = [NoUnit EXCEPT !.rust = t, !.state = v.state, !.score = v.score,
                                    !.unsafe = v.unsafe, !.route = "sync"]
  /\ calls' = 0 /\ paid' = 0
  /\ pc' = "finish"
  /\ UNCHANGED <<rest, first, project, shared>>

-----------------------------------------------------------------------------
\* Stages 2 to 4.  What the preprocessor, the router and c2rust give is for prompts
\* only, every way from here brings a text of its own; a failing analysis gives up
\* the models.
AnalysisFails ==
  /\ pc = "analyze"
  /\ pc' = "sync"
  /\ UNCHANGED <<rest, unit, first, spending, project, shared>>

Analyze ==
  /\ pc = "analyze"
  /\ unit' = [unit EXCEPT !.state = In("Analyzed")]
  /\ calls' = calls + 1 /\ paid' = 0
  /\ pc' = IF WithinCalls(calls + 1) THEN "lookup" ELSE "failed"
  /\ UNCHANGED <<rest, first, project, shared>>

Refine(t, route) == [unit EXCEPT !.rust = t, !.state = In("Refined"), !.route = route]

\* A cached text goes to validation like a new one.
Lookup ==
  /\ pc = "lookup"
  /\ LET t == cache[SourceOf[file]]
     IN IF t # None THEN unit' = Refine(t, "cached") /\ pc' = "complete"
        ELSE /\ pc' = IF Size[file] = "large" THEN "modular" ELSE "translate"
             /\ UNCHANGED unit
  /\ UNCHANGED <<rest, first, spending, project, shared>>

\* The calls of the modules are added after the fact, and not compared with the
\* budget here.
Modular ==
  /\ pc = "modular"
  /\ \/ /\ \E t \in Texts, n \in ModularCalls :
             unit' = Refine(t, "modular") /\ calls' = calls + n /\ paid' = n
        /\ pc' = "complete"
     \/ pc' \in {"translate", "failed"} /\ UNCHANGED <<unit, spending>>
  /\ UNCHANGED <<rest, first, project, shared>>

TranslationFails ==
  /\ pc = "translate"
  /\ pc' = "sync"
  /\ UNCHANGED <<rest, unit, first, spending, project, shared>>

\* Stage 5, in chunks or in one piece: the call is counted at the end.
Translate ==
  /\ pc = "translate"
  /\ \E t \in Texts : unit' = [unit EXCEPT !.rust = t, !.route = "translated"]
  /\ pc' = "substance"
  /\ UNCHANGED <<rest, first, spending, project, shared>>

\* P6 and the gate on unsafe blocks: one more translation, which is counted
\* whether it succeeds or not, and kept if it is better in that respect.
Retranslation(bad(_), better(_, _), next) ==
  /\ IF bad(unit.rust)
     THEN /\ \E t \in Texts \union {unit.rust} :
               unit' = IF better(t, unit.rust) THEN [unit EXCEPT !.rust = t] ELSE unit
          /\ calls' = calls + 1
     ELSE UNCHANGED <<unit, calls>>
  /\ pc' = next
  /\ UNCHANGED <<rest, first, paid, project, shared>>

SubstanceGate ==
  pc = "substance" /\ Retranslation(LAMBDA t : ~t.substance, LAMBDA t, u : t.substance, "unsafe")

UnsafeGate ==
  pc = "unsafe" /\ Retranslation(LAMBDA t : t.astUnsafe > UnsafeGateLimit,
                                 LAMBDA t, u : t.astUnsafe < u.astUnsafe, "translated")

\* Slip: the budget is looked at before the call is counted.
FinishTranslationEarly ==
  /\ pc = "translated"
  /\ unit' = [unit EXCEPT !.state = In("Refined")]
  /\ calls' = calls + 1 /\ paid' = 0
  /\ pc' = IF WithinCalls(calls) THEN "complete" ELSE "failed"
  /\ UNCHANGED <<rest, first, project, shared>>

FinishTranslation ==
  /\ pc = "translated"
  /\ unit' = [unit EXCEPT !.state = In("Refined")]
  /\ calls' = calls + 1 /\ paid' = 0
  /\ pc' = IF WithinCalls(calls + 1) THEN "complete" ELSE "failed"
  /\ UNCHANGED <<rest, first, project, shared>>

\* P34: completion passes, for a cached text or one of modules as well.  When they
\* fail the text stays and their calls are not counted.
Complete ==
  /\ pc = "complete"
  /\ IF unit.rust \in Incomplete
     THEN \E t \in Texts, n \in 0 .. MaxCompletionPasses :
            \/ /\ unit' = [unit EXCEPT !.rust = t]
               /\ calls' = calls + n /\ paid' = paid + n
            \/ UNCHANGED <<unit, spending>>
     ELSE UNCHANGED <<unit, spending>>
  /\ pc' = "validate"
  /\ UNCHANGED <<rest, first, project, shared>>

\* The unit with the verdict on its text.
Judged(t) ==
  LET v == Apply(t, unit.state, harness, MaxIters)
  IN [unit EXCEPT !.rust = t, !.state = v.state, !.score = v.score, !.unsafe = v.unsafe]

\* Stage 6.
Validate ==
  /\ pc = "validate"
  /\ unit' = Judged(unit.rust) /\ first' = unit.rust
  /\ pc' = IF Passed(unit.rust, harness) THEN "tests"
           ELSE IF Size[file] = "large" THEN "hybrid" ELSE "loop"
  /\ UNCHANGED <<rest, spending, project, shared>>

\* P30: the rules and the surgical repairs leave a text that compiles and is
\* judged, or one that does not and is not (P34b).
Hybrid ==
  /\ pc = "hybrid"
  /\ \E t \in Texts, n \in 0 .. MaxSurgical :
       /\ unit' = [IF t.compiles THEN Judged(t) ELSE [unit EXCEPT !.rust = t]
                   EXCEPT !.route = "hybrid"]
       /\ calls' = calls + n /\ paid' = paid + n
  /\ pc' = "tests"
  /\ UNCHANGED <<rest, first, project, shared>>

\* Stages 7 and 8, as RepairLoop promises: a text and a state it warrants.
Repair ==
  /\ pc = "loop"
  /\ \E t \in Texts, tag \in Tags, n \in 0 .. MaxIters :
       /\ Promise!Warranted(t, tag)
       /\ unit' = [unit EXCEPT !.rust = t, !.state = In(tag), !.score = t.score,
                               !.unsafe = t.unsafe]
       /\ calls' = calls + n /\ paid' = paid + n
  /\ pc' = "tests"
  /\ UNCHANGED <<rest, first, project, shared>>

\* Stage 9: a failure is of no consequence.
GenerateTests ==
  /\ pc = "tests"
  /\ \/ /\ unit.state.tag = "Validated"
        /\ unit' = [unit EXCEPT !.tests = unit.rust] /\ calls' = calls + 1 /\ paid' = paid + 1
     \/ UNCHANGED <<unit, spending>>
  /\ pc' = "store"
  /\ UNCHANGED <<rest, first, project, shared>>

\* Slip: what was validated first is stored.
StoreFirst ==
  /\ pc = "store"
  /\ IF unit.state.tag = "Validated"
     THEN cache' = [cache EXCEPT ![SourceOf[file]] = first]
     ELSE UNCHANGED cache
  /\ torn' = torn \ {SourceOf[file]}
  /\ pc' = "fuzz"
  /\ UNCHANGED <<rest, unit, first, spending, project>>

\* cache::put, of a validated text.
Store ==
  /\ pc = "store"
  /\ IF unit.state.tag = "Validated"
     THEN /\ cache' = [cache EXCEPT ![SourceOf[file]] = unit.rust]
          /\ torn' = torn \ {SourceOf[file]}
     ELSE UNCHANGED shared
  /\ pc' = "fuzz"
  /\ UNCHANGED <<rest, unit, first, spending, project>>

\* What the fuzz test finds is written into the feedback of a unit that nobody
\* repairs any more, and the cache keeps the text.
Fuzz ==
  /\ pc = "fuzz"
  /\ unit' = IF unit.state.tag = "Validated" THEN [unit EXCEPT !.fuzzed = unit.rust] ELSE unit
  /\ pc' = "finish"
  /\ UNCHANGED <<rest, first, spending, project, shared>>

Finish ==
  /\ pc = "finish"
  /\ project' = [f \in DOMAIN project \union {file} |->
                   IF f = file THEN unit ELSE project[f]]
  /\ pc' = "next"
  /\ Cleared /\ UNCHANGED <<session, queue, shared>>

\* rustc, a model selection or a repair beyond the budget: the error goes to the
\* caller, who drops what the session has migrated.
StageFails ==
  /\ pc \in {"analyze", "translate", "complete", "validate", "hybrid", "loop", "tests", "sync"}
  /\ pc' = "failed"
  /\ UNCHANGED <<rest, unit, first, spending, project, shared>>

Return ==
  /\ pc \in {"returned", "failed"}
  /\ pc' = "idle" /\ queue' = {}
  /\ project' = IF pc = "failed" THEN NoProject ELSE project
  /\ Cleared /\ UNCHANGED <<session, shared>>

\* The process stops; in the middle of put the entry is cut short, or empty, which
\* get takes for none.
Crash ==
  /\ pc \notin {"idle", "returned", "failed"}
  /\ pc' = "idle"
  /\ \/ /\ pc = "store" /\ unit.state.tag = "Validated"
        /\ \E left \in {None, Cut} :
             /\ cache' = [cache EXCEPT ![SourceOf[file]] = left]
             /\ torn' = torn \union {SourceOf[file]}
     \/ UNCHANGED shared
  /\ project' = NoProject /\ queue' = {}
  /\ Cleared /\ UNCHANGED session

Step ==
  \/ NextFile \/ NextListed \/ AllMigrated \/ MigrateSync
  \/ AnalysisFails \/ Analyze \/ Lookup \/ Modular
  \/ TranslationFails \/ Translate \/ SubstanceGate \/ UnsafeGate \/ FinishTranslation
  \/ Complete \/ Validate \/ Hybrid \/ Repair
  \/ GenerateTests \/ Store \/ Fuzz \/ Finish \/ StageFails \/ Return

Next == Begin \/ BeginSync \/ Step \/ Crash

\* One task works through the stages until it has an answer or is stopped.
Spec == Init /\ [][Next]_vars /\ WF_vars(Step)

-----------------------------------------------------------------------------
\* Types of the variables.
TypeOK ==
  /\ queue \subseteq Files /\ file \in Files \union {None}
  /\ unit.rust \in Texts \union {None} /\ unit.state \in MigrationState
  /\ calls \in Nat /\ paid \in Nat
  /\ DOMAIN project \subseteq Files
  /\ cache \in [Sources -> Texts \union {None}]

\* What may be put into the project.
Deliverable(u) ==
  \/ /\ u.rust # None
     /\ IF u.route = "sync" THEN Default!Warranted(u.rust, u.state.tag)
        ELSE Promise!Warranted(u.rust, u.state.tag)
  \/ u.route \in {"hybrid", "sync"} /\ u.state.tag \in {"Repairing", "Extracted"}

\* A unit of the project has a state its text warrants, whichever way it came: by the
\* configured minimum score, but for the synchronous pipeline, which knows 60 only,
\* the model having failed or not being there.  What the hybrid repair and that
\* pipeline leave may also be short of an answer (Repairing, Extracted).
DeliveredIsWarranted == \A f \in DOMAIN project : Deliverable(project[f])

\* Through crashes and failing sessions the cache holds texts that may be delivered
\* as validated, unless the last write of one was cut short.
CacheHoldsValidated ==
  \A s \in Sources : cache[s] # None /\ s \notin torn => Promise!Warranted(cache[s], "Validated")

\* Whatever a file has cost before a check is within the hard limit: only the calls
\* of modules, completion, repair and test generation come after the last check.
CheckedCallsWithinBudget ==
  pc \notin {"failed", "substance", "unsafe", "translated", "translate", "modular", "sync"}
  => WithinCalls(calls - paid)

\* Every session comes to an end, unless it is stopped.
Termination == [](pc = "next" => <>(pc \in {"idle", "returned", "failed"}))

(***************************************************************************)
(* The inductive invariant behind the properties, in named parts.          *)
(***************************************************************************)
\* Places before the first verdict, and of these the ones that have a text.
Unjudged == {"analyze", "lookup", "modular", "translate", "substance", "unsafe",
             "translated", "complete", "validate"}
WithText == {"substance", "unsafe", "translated", "complete", "validate"}
Judgment == {"tests", "store", "fuzz", "finish"}
Between == {"idle", "next", "returned"}

\* Places of the stages that go by the configured minimum score.
ByConfig == Unjudged \union {"hybrid", "loop", "tests", "store", "fuzz"}

\* Types, of the fields of a unit as well.
Routes == {"", "sync", "cached", "modular", "translated", "hybrid"}
MaybeText == Texts \union {None}
Units == [rust: MaybeText, state: MigrationState, score: 0..100, unsafe: Nat,
          route: Routes, tests: MaybeText, fuzzed: MaybeText]

TypeInv ==
  /\ pc \in Between \union Unjudged \union {"sync", "hybrid", "loop", "failed"} \union Judgment
  /\ queue \subseteq Files /\ file \in Files \union {None} /\ harness \in BOOLEAN
  /\ unit \in Units /\ first \in MaybeText
  /\ calls \in Nat /\ paid \in Nat /\ paid <= calls
  /\ DOMAIN project \subseteq Files
  /\ cache \in [Sources -> MaybeText]

\* What is known of the unit at each place: nobody judges it before validation,
\* and what was judged may be delivered.
UnitInv ==
  /\ pc \notin Between \union {"failed"} => file \in Files
  /\ pc \in Between => unit = NoUnit
  /\ pc \in Unjudged => unit.state.tag \in {"Extracted", "Analyzed", "Refined"}
  /\ pc \in WithText => unit.rust \in Texts
  /\ pc \in {"hybrid", "loop"} => unit.state.tag = "Repairing"
  /\ pc \in Judgment => Deliverable(unit)
  /\ pc \in ByConfig => unit.route # "sync"

\* Where nothing is paid after a check yet.
SpentInv ==
  /\ pc \in Between => calls = 0 /\ paid = 0
  /\ pc \in {"analyze", "lookup", "modular"} => paid = 0 /\ WithinCalls(calls)

IInv ==
  /\ TypeInv /\ UnitInv /\ SpentInv
  /\ DeliveredIsWarranted /\ CacheHoldsValidated /\ CheckedCallsWithinBudget

=============================================================================
