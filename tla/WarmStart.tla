----------------------------- MODULE WarmStart ------------------------------
(***************************************************************************)
(* Runs of a modular migration over time, and what they leave on disk for  *)
(* each other (noricum-core/src/warmstart.rs, artifacts.rs and the warm    *)
(* start of orchestrator.rs).  A run writes the first Rust text of each    *)
(* module to a file of its own, then a manifest with the state each module *)
(* ended in, and at the very end a summary of the migration.  Whether a    *)
(* write succeeds is not looked at, and a run may stop at any point, with  *)
(* an error or in a crash.  The next run may start from the directory of   *)
(* the run before it.                                                      *)
(*                                                                         *)
(* How a module's text is repaired and graded is ModuleMigration; here a   *)
(* repair is any text that replaces the best one, graded with the figures  *)
(* of any last attempt.  P32 is left out.                                  *)
(***************************************************************************)
EXTENDS Validation

CONSTANTS
  FileModules, Texts,
  Absent,
  Cut,      \* what a write that failed in the middle leaves of a text
  MaxRuns

ASSUME WarmStartAssumption ==
  /\ Texts \subseteq Text /\ Absent \notin Texts /\ Cut \notin Texts /\ Absent # Cut
  /\ MaxRuns \in Nat \ {0}

VARIABLES
  phase,
  run,      \* number of this run, in a chain of runs each started from the one before
  warm,     \* warm_store: the directory started from, Absent if its manifest is not loaded
  disk,     \* the directory of this run
  result,   \* what the modules of this run ended with
  graded    \* what the last run of the chain that graded a module found good enough to skip

runVars == <<phase, run, warm, disk, result, graded>>

Content == Texts \union {Cut}
MaybeText == Content \union {Absent}
EntryTags == Tags \union {"TranslationFailed"}

\* ModuleArtifact; the scores of texts are at most 100.
Entry == [tag: EntryTags, score: 0..100, compiles: BOOLEAN]
\* The text a run began a module with, and the score it gave the text it ended with.
Grade == [text: Content, score: 0..100]

\* How a module ended: with its text and its entry, if it has them.
Ending == [text: MaybeText, entry: Entry \union {Absent}, skipped: BOOLEAN]

ASSUME AbsentAssumption == Absent \notin Grade /\ Absent \notin Ending

Nothing == [m \in FileModules |-> Absent]

\* A directory: the module files, and manifest.json, which is not there, or holds
\* the entries of the modules ("v2"), or the summary.
EmptyDir == [files |-> Nothing, manifest |-> "none", entries |-> Nothing]

ChainInit ==
  /\ phase = "modules"
  /\ run = 1
  /\ warm = Absent
  /\ disk = EmptyDir
  /\ result = Nothing
  /\ graded = Nothing

-----------------------------------------------------------------------------
Previous(m) == IF warm = Absent THEN Absent ELSE warm.entries[m]

\* Slip: what compiles with a high score is skipped, whatever its state.
WarmActionByScore(e) ==
  IF e.compiles /\ e.score >= 70 THEN "Skip"
  ELSE IF e.tag = "NearlyCompiles" /\ e.score >= 50 THEN "SeedRepair"
  ELSE IF e.compiles /\ e.score >= 40 THEN "SeedRepair"
  ELSE "Retranslate"

\* warm_start_action
WarmAction(e) ==
  IF e.tag \in {"Validated", "CompilesUnsafe"} /\ e.score >= 70 THEN "Skip"
  ELSE IF e.tag = "NearlyCompiles" /\ e.score >= 50 THEN "SeedRepair"
  ELSE IF e.compiles /\ e.score >= 40 THEN "SeedRepair"
  ELSE "Retranslate"

\* What warm start does with module m: without its file it is translated.
Treatment(m) ==
  IF Previous(m) = Absent \/ warm.files[m] = Absent THEN "Retranslate"
  ELSE WarmAction(Previous(m))

\* save_translation_module: fs::write may fail before or after it has begun, and
\* no caller looks at its result.
SaveFile(m, t) == \E file \in {t, Cut, Absent} : disk' = [disk EXCEPT !.files[m] = file]

\* manifest.json is written in the same way, over the one that is there; one that
\* was cut is as good as none.
WriteManifest(kind, entries) ==
  disk' \in {disk,
            [disk EXCEPT !.manifest = "none", !.entries = Nothing],
            [disk EXCEPT !.manifest = kind, !.entries = entries]}

\* Module m ends with text t and entry e, or without an entry.
Ends(m, t, e, skipped) ==
  result' = [result EXCEPT ![m] = [text |-> t, entry |-> e, skipped |-> skipped]]

Ready(m) == phase = "modules" /\ result[m] = Absent

\* What a skipped module is recorded as, whatever state it had.
AsValidated(e) == [tag |-> "Validated", score |-> e.score, compiles |-> TRUE]

\* The file of the module is reused, under the recorded score.
Skip(m) ==
  /\ Ready(m)
  /\ Treatment(m) = "Skip"
  /\ SaveFile(m, warm.files[m])
  /\ Ends(m, warm.files[m], AsValidated(Previous(m)), TRUE)
  /\ UNCHANGED <<phase, run, warm, graded>>

\* Module m begins with text t, which is saved and is found to be v; f is what
\* validation and repair make of it, last the last attempt.  The file is not written again.
Migrate(m, t, v, f, last) ==
  /\ Ready(m)
  /\ SaveFile(m, t)
  /\ f = v \/ (~Passed(v, FALSE) /\ (f.score > v.score \/ (f.compiles /\ ~v.compiles)))
  /\ LET passed == Passed(f, FALSE)
         tag == IF passed THEN "Validated"
                ELSE GraduatedTag(f.compiles, last.unsafe, f.score, 80, last.errors)
     IN /\ Ends(m, f, [tag |-> tag, score |-> f.score,
                       compiles |-> tag = "Validated" \/ last.errors = 0], FALSE)
        /\ graded' = [graded EXCEPT ![m] =
                        IF tag \in {"Validated", "CompilesUnsafe"} /\ f.score >= 70
                        THEN [text |-> t, score |-> f.score] ELSE Absent]
  /\ UNCHANGED <<phase, run, warm>>

\* The file is the first text; what is left of one that was cut may be found to be anything.
SeedRepair(m, v, f, last) ==
  /\ Treatment(m) = "SeedRepair"
  /\ warm.files[m] \in {v, Cut}
  /\ Migrate(m, warm.files[m], v, f, last)

Translate(m, t, f, last) ==
  /\ Treatment(m) = "Retranslate"
  /\ Migrate(m, t, t, f, last)

\* The translation fails: an entry, but no text.
TranslationFails(m) ==
  /\ Ready(m)
  /\ Treatment(m) = "Retranslate"
  /\ Ends(m, Absent, [tag |-> "TranslationFailed", score |-> 0, compiles |-> FALSE], FALSE)
  /\ UNCHANGED <<phase, run, warm, disk, graded>>

\* The module's wave is cut for the budget, or it ends in an error after its first
\* text t: no entry.
NoResult(m, t) ==
  /\ Ready(m)
  /\ \/ t = Absent
     \/ Treatment(m) = "Retranslate" /\ t \in Texts
     \/ Treatment(m) = "SeedRepair" /\ t = warm.files[m]
  /\ IF t = Absent THEN disk' = disk ELSE SaveFile(m, t)
  /\ Ends(m, Absent, Absent, FALSE)
  /\ UNCHANGED <<phase, run, warm, graded>>

\* migrate_file_modular ends, and with it its variables.
Leave == warm' = Absent /\ result' = Nothing

\* All modules have ended, one at least with a text: save_manifest_v2.
SaveManifestV2 ==
  /\ phase = "modules"
  /\ \A m \in FileModules : result[m] # Absent
  /\ \E m \in FileModules : result[m].text # Absent
  /\ WriteManifest("v2", [m \in FileModules |-> result[m].entry])
  /\ phase' = "stages"
  /\ Leave
  /\ UNCHANGED <<run, graded>>

\* Without any text the file is translated in chunks instead.
FallBack ==
  /\ phase = "modules"
  /\ \A m \in FileModules : result[m] # Absent /\ result[m].text = Absent
  /\ phase' = "stages"
  /\ Leave
  /\ UNCHANGED <<run, disk, graded>>

\* The stages after the modules are done: save_manifest, to the same file.
Complete ==
  /\ phase = "stages"
  /\ WriteManifest("summary", Nothing)
  /\ phase' = "over"
  /\ UNCHANGED <<run, warm, result, graded>>

\* An error ends the run, or the process is killed.
Stop ==
  /\ phase \in {"modules", "stages"}
  /\ phase' = "over"
  /\ Leave
  /\ UNCHANGED <<run, disk, graded>>

\* Of a directory, only the files of modules with an entry are ever opened.
LookedAt(dir) ==
  [dir EXCEPT !.files = [m \in FileModules |->
                           IF dir.entries[m] = Absent THEN Absent ELSE dir.files[m]]]

\* The next run, started from the directory of this one (one that is started from
\* nothing begins a chain of its own, in ChainInit).  load_manifest fails on a summary
\* and on a manifest that was cut, and the run goes on without warm start, as
\* if it were the first.
StartFromThis ==
  /\ phase = "over"
  /\ run < MaxRuns
  /\ run' = run + 1
  /\ phase' = "modules"
  /\ IF disk.manifest = "v2"
     THEN warm' = LookedAt(disk) /\ graded' = graded
     ELSE warm' = Absent /\ graded' = Nothing
  /\ disk' = EmptyDir
  /\ result' = Nothing

ChainNext ==
  \/ \E m \in FileModules :
       \/ Skip(m)
       \/ \E v, f, last \in Texts : SeedRepair(m, v, f, last)
       \/ \E t, f, last \in Texts : Translate(m, t, f, last)
       \/ TranslationFails(m)
       \/ \E t \in MaybeText : NoResult(m, t)
  \/ SaveManifestV2
  \/ FallBack
  \/ Complete
  \/ Stop
  \/ StartFromThis

ChainSpec == ChainInit /\ [][ChainNext]_runVars

-----------------------------------------------------------------------------
(***************************************************************************)
(* Properties.                                                             *)
(***************************************************************************)
\* Only a manifest of the modules has entries.
Dir ==
  {d \in [files: [FileModules -> MaybeText], manifest: {"none", "v2", "summary"},
          entries: [FileModules -> Entry \union {Absent}]] :
     d.manifest # "v2" => d.entries = Nothing}

\* Types of the variables.
ChainTypeOK ==
  /\ phase \in {"modules", "stages", "over"}
  /\ run \in 1 .. MaxRuns
  /\ warm = Absent \/ warm \in Dir
  /\ disk \in Dir
  /\ result \in [FileModules -> Ending \union {Absent}]
  /\ graded \in [FileModules -> Grade \union {Absent}]

\* Entry e asks for a skip only if the run that last graded module m did, with this
\* score, and a file next to it holds the text that run began with, unless its write failed.
Belong(m, e, file) ==
  e # Absent /\ WarmAction(e) = "Skip" =>
    /\ graded[m] # Absent /\ e.score = graded[m].score
    /\ file \in {graded[m].text, Cut, Absent}

\* However many runs start from each other, a module is skipped only if the last run that
\* worked on it gave it this score and a state good enough to skip, and what is delivered
\* for it is the text that run began with (the score is of the text it ended with), or
\* what a failed write has left of that.
SkippedAsGraded ==
  \A m \in FileModules : result[m] # Absent /\ result[m].skipped =>
    /\ result[m].entry.score >= 70 /\ result[m].text # Absent
    /\ Belong(m, result[m].entry, result[m].text)

\* Wherever a run stops and whichever of its writes fail, no entry of the manifest is
\* left next to the file of another run, or asks for a skip that was not earned.
EntriesMatchFiles == \A m \in FileModules : Belong(m, disk.entries[m], disk.files[m])

\* What one run left on disk, wherever it stopped, the next can go by.
DirectoryIsReliable == SkippedAsGraded /\ EntriesMatchFiles

=============================================================================
