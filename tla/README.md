# Noricum in TLA+

Noricum migrates C files to Rust with language models. A pipeline analyses a C
file, has it translated, validates the translation (rustc, unsafe counters, a
score, a differential test against the C program) and repairs it until it passes
or the repairs run out; large files are split into modules that are migrated
concurrently, in waves, under a common budget. Around it are a command line, an
HTTP API, an MCP server, a benchmark and stores of what was learned. This
directory models the control of that program in TLA+, checks the models with TLC,
and proves the main results with TLAPS for every value of the constants.

Paths below are relative to `crates/`. `orch` is
`noricum-core/src/orchestrator.rs`.

## 1. Inventory

### The modelled parts

| part | state it keeps | operations | what makes it correct |
|---|---|---|---|
| Stages of `migrate_file`, `migrate_directory` and the cache (orch 320-1960, 2966-3060) | the `FunctionUnit`, metrics, files left to do, a cache file for each C source | look up, translate, gates, complete, validate, repair, test, store | a unit claims no state its text does not warrant; the cache holds what may be served, through crashes; checked costs stay within the limit |
| Stages 6-8, the repair loop (orch 1262-1768) | the unit, four `best_*` variables, the loop's counters | validate, repair, refuse, re-translate on a stall, restore, grade | the delivered figures are those of the delivered text; unsafe code does not creep in; it ends within its budget |
| Validation, states, budgets (`noricum-validation`, `noricum-ir`, `budget.rs`) | none | verdict, next state, graduation; `check_budget`, `budget_phase`, `compute_adaptive_budget` | see the users |
| First translation (`translation.rs`, `ast.rs`, `ensemble_translation.rs`, `providers.rs`) | chunks, outputs so far, signatures and types they gave, attempts | split, ask, ask again, merge, complete; choose a client, a model, a winner | no function lost or there twice; later requests know the earlier answers; the client has the model; the winner is unbeaten |
| Order of migration (`dependency.rs`) | degrees, queue, waves | `module_waves`, `module_order`, `topological_sort` | each node once, callers first as far as cycles allow, and what a cycle holds back as each form has it; concurrent modules independent |
| One module (`migrate_single_module`, orch 2340-2960) | as Stages 6-8, and a result | translate, seed, re-translate, repair, grade, close braces | graded by its own text; bounded calls; ends |
| The waves (`migrate_file_modular`, orch 1968-2331) | outputs, metrics, phase | run a wave, merge, degrade, assemble | no output lost or taken twice; budgets decide between waves |
| Contract, assembly, rules, hybrid repair (`type_contract.rs`, `assembly.rs`, `repair_rules.rs`, `surgical_repair.rs`, orch 496-641) | a text of lines, the errors of an earlier text | ask for a contract, deduplicate, fifteen rules, extract and splice a function | no type twice, no function lost, nothing whole cut, no other function touched |
| Warm start (`warmstart.rs`, `artifacts.rs`) | files and a manifest on disk | save, load, skip, seed | what is reused was earned, and entry and file are of one run, wherever a run stops and whatever fails to be written |
| Comparison tests (`diff_test.rs`, `fuzz_test.rs`, `multi_input_test.rs`, `harness_gen.rs`) | processes, pipes, threads, a clock; results so far | compile, run, poll, kill, reap, compare, report | whole outputs or a timeout; a pass means agreement; every input accounted for; it ends |
| Specification mining (`spec_mining.rs`) | traces, assertions, tallies | wrap, run, parse, generate, validate | a right translation passes, a wrong one fails, as far as JSON and the test program let them |
| CRUST-Bench (`crust_bench.rs`) | files of a project, build and test results, counters | translate, build, test, repair twice over | the report is true of the files, as far as their tests compile |
| MCP server, HTTP API (`server.rs`, `api.rs`) | windows of requests, slots, one request or several | admit, dispatch, check, work, answer | the API keeps to its limit in every window, the MCP server to twice its own in a minute; what can be read is answered |
| Repair patterns, translation memory (`repair_pattern_store.rs`, `translation_memory.rs`) | lists in memory and a file each | merge, offer, record, evict, rank, save, load | what was learned survives; the best stay |
| Crate builder and crate repair (`crate_builder.rs`, `module_migration.rs`) | the files of a crate | write modules, types and lib.rs; check, apply rules, ask | a repair that succeeds leaves a crate that compiles |

### How the parts interact

`migrate_directory` orders the files and calls `migrate_file` for each.
`migrate_file` runs as one async task. It looks into the cache, calls agents (a
provider answers with text or an error), tools (rustc; a differential test is two
executions by `run_exe`) and the validator, which turns what the tools say into a
state. For a large file it first calls `migrate_file_modular`: a type contract is
asked for, `module_waves` orders the modules, the modules of a wave run
concurrently on a snapshot of the outputs so far, their results are merged when
all have ended, and the texts are assembled and written as a crate. An assembled
text is repaired by rules and function by function, any other by the loop. A run
leaves files that the next one may start from, and a cache. The servers call
`migrate_file` for each request; the benchmark calls the model itself.

### The rest of the repository

Each is a component in `PROJECT.json`, with its reason.

| part | why it is not modelled |
|---|---|
| Rule-based translation, preprocessor, semantic patterns, documentation, reports | text in, text out, without state |
| Wording of prompts, analysis, review | a choice among their results |
| Clients of providers, rustc, cargo, c2rust | outside the program |
| Incremental migration, mixed builds | called by nothing; plain files |
| Audit trail, other artifacts | written, read back by nothing |
| Difficulty router, RAG patterns | a number or words for a prompt |
| Command line, spike, fixtures, sites | arguments, output and data |

### Behaviours that are hard to test

They are listed, at their lines, under `hazards` in `PROJECT.json`. The classes:

* several paths through one loop, each of which must count its iteration, look
  at the budget or not, and keep best version and unit in step;
* figures of one text combined with those of another (best version, last
  attempt, text replaced after it was graded, errors of a text that has changed);
* stages that skip what other stages rely on (hybrid repair and graduation,
  the cache and fuzzing, success of modules and the budget);
* concurrent modules or candidates that end in any order, fail in two ways, and
  are metered after the fact;
* Kahn's algorithm on cyclic graphs;
* a run that stops anywhere, and the next one that starts from what it left;
* a child process, two readers and a clock, any of which may be last;
* text edited by line while lines move, and by name while names repeat;
* windows of time with refused requests, and a clock that is set back.

## 2. Modules

| module | models | composed of |
|---|---|---|
| `Budget` | `budget.rs` | |
| `Validation` | verdict, `MigrationState`, `apply_validation_with_max`, `graduated_state` | |
| `Delivery` | abstract: what `migrate_file` promises its caller | `Validation` |
| `RepairLoop` | Stages 6-8 | `Validation`, `Budget`; implements `Delivery` |
| `FilePipeline` | `migrate_file`, `migrate_directory`, their synchronous forms, the cache | `Validation`, `Budget`; takes the repair loop by `Delivery` |
| `CFile` | splitting of C files into chunks and modules | |
| `Providers` | clients and models; strategies, trigger and outcome of an ensemble | |
| `FirstText` | `translate_chunked`, completion, ensembles | `CFile`, `Providers`, `SourceLines` |
| `Schedule` | abstract: an order of migration | |
| `DependencyGraph` | `topological_sort`, `module_order`, `module_waves` and the graphs they run on | implements `Schedule` |
| `ModuleMigration` | `migrate_single_module` | `Budget`, an instance of `Validation` with the lower threshold P24 |
| `ModularMigration` | `migrate_file_modular` | `Budget`, and an instance of it with the adaptive limit |
| `SourceLines` | Rust text as lines: kind, name, braces | |
| `Assembly` | `assembly.rs` | `SourceLines` |
| `RepairRules` | `repair_rules.rs` | `SourceLines` |
| `AssembledRepair` | from the contract (`type_contract.rs`) to the hybrid repair (`surgical_repair.rs`) | `SourceLines`, `Assembly`, `RepairRules` |
| `WarmStart` | `warmstart.rs`, module artifacts, chains of runs | `Validation` |
| `ProcessRun` | `run_exe` | |
| `Harness` | `harness_gen.rs` | |
| `Comparison` | differential, multi-input and fuzz tests | `ProcessRun`, `Harness` |
| `SpecMining` | `spec_mining.rs` | `Comparison` |
| `CrustBench` | `crust_bench.rs` | |
| `Mcp`, `Api` | the two servers | |
| `Learned` | pattern store and translation memory | |
| `CrateOutput` | crate builder, module repair in a crate | |
| `Services` | one of the last five at a time | the last five |
| `*_proofs` | theorems about the module (`Comparison_proofs`: also about `ProcessRun` and `SpecMining`; `ModularMigration_proofs`: also about `WarmStart`; `FirstText_proofs`: also about `CFile` and `Providers`, and about `AssembledRepair` with its parts; `Services_proofs`: about its parts) | `TLAPS` |
| `MC*` | the instances for TLC (`DependencyGraph` needs none) | |

**Texts.** Where a loop decides on what tools say of it, a Rust text is a record
of that: whether it compiles, its errors, its unsafe blocks by each of the two
counters, its score, the hints the scorer would give, whether it is more than a
stub, how its differential test ends, and its size. `Validation!Text` states the
constraints the tools guarantee between these (a text that compiles has no
errors; `GateCountsNoMore`: the gate's counter never counts more than the
validator's; `StubsScoreLow`: the score of a stub is at most 20; `HintCounts`: a
text gets no hints, or up to three under a heading). Where code edits text, a text is
a sequence of lines (`SourceLines`), a line a record of its kind, the name it has,
and the braces it opens and closes, in strings (`quoted`) or not. Agents are an
environment that returns any text of a set, or fails.

**Time and order.** A request to the API reads the clock before it takes the lock
(`ReadClock`, `Check`), so a later request may be counted first; what the limiter
holds of a client is a set of requests, each with its time (`stamp`). The MCP
server's windows are judged by `admitted`: the calls let through in the last ticks,
for each number of ticks up to those a minute may lie across (one more than it has,
when it begins within one). The texts of a memory are ranked by `Rank`, the number
of texts a stable sort puts before one; the traces of a run are the lines of its
stderr, by their place (`Traces`).

**State.** `unit`, `best`, `loop`, `spent` of `RepairLoop` group the local
variables of the function: `unit` the fields of the `FunctionUnit` the loop
touches, `best` the four `best_*` variables, `loop` the counters, `spent` the
metrics. The other modules group theirs likewise. `pc` (`phase` in `WarmStart`, `stage` in `AssembledRepair`) is the place between two
awaits. Each action is one stretch of the function from one place to the next,
every assignment, early return and `continue` included; `PROJECT.json` maps each
definition to its lines.

**Promises instead of parts.** `FilePipeline` contains the repair loop as one
action: any text and state that `Delivery!Warranted` allows. That is what
`RepairLoop` is proved to implement. Modular migration and hybrid repair enter
it as the texts and calls they may give.

**Slips.** An operator introduced as a slip stands before the one it is a
plausible mistake of. No specification uses it: replacing the right operator by
it shows what a property notices.

## 3. Runs

Each run says in its `.cfg` which properties it checks.

| run | states | what it shows, and its bounds |
|---|---|---|
| `repair_loop` | 79,408 | Seven texts: every kind the loop's decisions tell apart (passes; idiomatic and wrong; low score; unsafe seen by both counters; unsafe seen by one; does not compile; stub). Four iterations: two equal counts are a stall, the re-translation takes the third, one is left after it. Five calls (hard limit six) of which three are spent, eight tokens: the token budget runs out on some paths and not on others. |
| `module_migration` | 11,194 | Eight texts, with a hopeless one (101 errors), a truncated one and one that only looks truncated (a `'{'` literal); with and without repairs, seed and test. |
| `modular_migration` | 7,930 | Three modules in all 13 ordered partitions into waves; results whose calls sum to below 80, 80-94, 95-99 and 100 and more of a limit of 100, both kinds of failure, tokens within and beyond. |
| `dependency_graph` | 35,655 | All 4,096 call graphs of four functions, cyclic ones included, put into four modules in every way, in waves and in the order of a queue; and as functions of a directory that share its files in every way. |
| `dependencies_first` | - | A disagreement: section 4. |
| `warm_start` | 454,744 | Chains of three runs (what the third reads has been read and written before) of two modules (symmetric), stopping anywhere; every write of a module file or a manifest succeeds, fails or is cut. |
| `assembled_repair` | 225,430 | Two modules built of nine kinds of items (functions whole, wrong and cut off, a struct with a derive, an impl with a method of a function's name, an import, code for Windows, old syntax), five replies for the contract, four for whichever function is asked for (so a right, a wrong and a renamed one). A text has as many defects as it takes for two rules to meet. |
| `file_pipeline` | 206,237 | Two sessions (the second reads what the first left) over a large and a medium file with the same content (they share a place in the cache), five texts, each stage failing or not, a stop anywhere; two calls allowed. A minimum score of 75 is configured, and one text scores 70: enough for the synchronous path, which knows 60 only, and for no other. |
| `first_text` | 133,540 | Four C files, one for each way (one request, structural chunks, plain chunks, modules), whole, empty and partial replies, each request failing or not; six configurations of provider and keys; four candidates, at once or in turn. |
| `comparison` | 3,659,493 | Pipes of one unit and outputs of two, longer than a pipe; a program that writes, ends, crashes or hangs; five kinds of C file, two pairs of texts, one at the tolerance and one beyond; lists of up to two inputs, four iterations of fuzzing; traces of up to three calls that nest to two, with texts that JSON cannot hold or reads as others; translations that are right, wrong or abort; declarations with arrays and function pointers. |
| `services` | 331,124 | Five parts that share no state, one at a time, so that their states add up. Projects of up to two files with five replies, one of which the tests do not compile against; an MCP limit of two in three ticks over seven ticks and two set-backs (twice the limit is reached); four requests of two clients in two ticks of the API; four changes to stores of at most two entries; three modules, two of them with colliding names, and two repairs. |
| `repairs_within_max` | - | A disagreement: section 4. |

Deadlock is checked except where the system really stops (`warm_start`, the five
runs after it): the last session, test, request or repair is over.

What the properties say:

* `repair_loop`. `ReportMatchesText`: the delivered figures are those of the
  delivered text. `CeilingKept`: only a stall re-translation passes the unsafe
  ceiling, and nothing delivered without validating does. `BudgetKept`: repair
  counts, calls and tokens stay in step with the loop and within their limits.
  `ImplementsDelivery`: the refinement. `Termination`.
* `module_migration`. `ResultWarranted`: graded by its own text, within its ceiling
  and its calls. Texts replaced by the brace check (P32) are excepted by the
  variable `reclosed`, because the code does not validate them. `Termination`.
* `modular_migration`. `RunAccountedFor`: missing modules, the word validated and
  the calls are what the modules gave. `BudgetDecidesBetweenWaves`: P34.
* `dependency_graph`. `ImplementsSchedule`: the sequence that each form returns has
  each node once and none before all its callers; nodes that a cycle holds back are
  the last wave (`module_waves`), follow by index (`module_order`), or make the order
  that of the alphabet for all nodes, those already ordered too (`topological_sort`). `LevelByLevel`: the queue pops the nodes in the order
  of the waves that `module_waves` would put them in.
* `warm_start`. `DirectoryIsReliable`: a module is skipped only on the score and with
  the state that the last run to work on it gave it, and its file is the text that run
  began with or what a failed write has left of that: never a text of another run. (The
  code writes the file once, before validation, and gives the entry the score of
  the text it ended with; and it looks at the result of no write. So a file may be
  missing, in which case the module is translated again, or cut, in which case it is
  delivered so.)
* `assembled_repair`. `TypesDefinedOnce`, `RulesKeepFunctions`,
  `NothingWholeIsCut`, `OthersUntouched`: each step leaves what it is not about.
* `file_pipeline`. `DeliveredIsWarranted`: whichever way a text came, its state is
  warranted; the hybrid and the synchronous way may leave a unit short of an
  answer, never with one it has not earned; the synchronous way is held to the fixed minimum of
  `validate`, all others to the configured one. `CacheHoldsValidated`: through crashes,
  but for the one write that was cut short. `CheckedCallsWithinBudget`,
  `Termination`.
* `first_text`. `EveryFunctionOnce`, `LaterChunksKnowTheEarlier`,
  `StubOnlyAfterTwo`, `ClientHasTheModel`, `WinnerIsUnbeaten`, `Termination`.
* `comparison`. `OutputsComplete`, `ChildReaped`: of every execution.
  `PassedMeansAgreed`, `EveryInputAccounted`: of the tests.
  `HarnessTriesEveryValue`: of declarations that are read as what they are.
  `RightTranslationMeetsSpecs`, `WrongTranslationCaught`: of mined specifications, the
  first unless the run printed a text or pointer that is read back as another, the
  second unless a test ends the program of the tests. `ComparisonTerminates`.
* `services`. `BenchReportIsTrue`, `AdmissionsLimited`, `MemoryKeepsTheBest`,
  `LearnedSurvives`, `RepairedCrateCompiles`, and `EveryCallAnswered`: benchmark,
  servers and crate repair come to an end of what they began: the benchmark with
  its report, or in the panic of a prompt that is cut inside a character; the MCP
  server with an answer to every line it could read. `AdmissionsLimited` is two
  statements: the limit of the API in every window, and twice the limit of the MCP
  server in every minute, which is what its fixed windows keep (section 4).

**Fairness.** `RepairLoop`, `ModuleMigration`, `FilePipeline` and `FirstText` have
weak fairness of their steps: one async task that does not stop between two
awaits (crashes are no part of it). It includes that a provider answers, with a
text or an error; the code sets no timeout on these calls, so this is an
assumption about the clients. `ProcessRun` and `Comparison` have weak fairness of
the parent, of the clock and of each reader thread (the operating system
schedules them), and none of the program, which may hang. In `Services` the
benchmark, a request that is being served, a free slot, the MCP server and its
clock go on; nothing is assumed of the model the MCP server waits for, whose
timeout is what ends the wait. The benchmark's `cargo` runs, which have no
timeout, are taken to end. The other modules state safety only.

**Bounds in the specifications.** `MaxRuns` and `MaxSessions` (runs and sessions
in a chain), `MaxOutput` (what a program writes), `MaxCalls` and `MaxDepth` of
`SpecMining` (calls of a traced program), `MaxClock`, `MaxSetBacks`, `MaxTicks`
(clocks), `MaxCalls` of `Api` (requests), `MaxLearned` (changes to stores) cap what
is unbounded in the code. All other counters are bounded by the code itself,
which is among the things checked.

## 4. Disagreements

### With a run

`repairs_within_max` checks "Maximum repair iterations" (crust_bench.rs:22, and
the prompt's "Repair iteration {iteration}/{max_iterations}", :453) against the
loop over failing tests (:876): each repair sets `iter = repair_iterations +
iter_offset` and then `repair_iterations = iter`, so that repairs are numbered 1,
3, 6, 10, 15. The prompt says "15/5", the temperature grows with it, the report
counts 15 repairs where five were made. (The number of repairs is right:
`BenchReportIsTrue` counts the prompts.)

`dependencies_first` checks "dependencies first" (dependency.rs:89, 204, 238; "Each
wave contains modules whose dependencies are all satisfied by previous waves", :271;
also orch 2964) against the three forms of Kahn's algorithm: `in_degree` counts the
callers of a node, so callers come before what they call, and a module is translated
without the Rust of the modules it calls. The unit tests (dependency.rs:437) ask for
callers first, so `Schedule` states the direction the code takes.

### Read in the code, without a run

Of `migrate_file` and the repair loop:

* "keep the version with the highest score" (orch 1395), "preserves the
  highest-quality translation" (1741): a text replaces the best one if it scores
  higher *or* newly compiles (1704), so the best may go from compiling at 70 to not
  compiling at 75 to compiling at 40.
* Validated is "All validation checks passed" (ir/lib.rs:25): `graduated_state`
  gives it on compilation, score and no unsafe, also to a text whose differential
  test failed; it is then cached as such.
* The graduated state is worked out with the errors of the last attempt (orch
  1744), so NearlyCompiles ("<=5 errors", ir/lib.rs:33) can be given to a best
  version with more. The differential test reported is that of the first text
  (1883, against ir/lib.rs:246).
* The unsafe ceiling is set by one counter (compiler.rs, orch 1387) and the gate
  uses another (ast.rs, orch 1642), which misses some unsafe functions.
* The call limit is not looked at after a failed or refused repair (1634), so a
  unit can be delivered beyond the 120% of budget.rs:66; a successful modular
  migration and the completion passes skip `check_budget` altogether. The sync
  fallback of a failed analysis loses the calls made.
* "Minimum idiomatic score (0-100) required to pass validation" (orch 59) is not asked
  of the synchronous path: `migrate_file_sync` calls `validate`, whose minimum is 60
  (orch 436, noricum-validation/lib.rs:56-59).
* Hybrid repair that does not resolve a file leaves it in Repairing (1351).
* The cache is written before fuzzing (1817), and in place: a cut text that still
  compiles may be served as far as validation lets it.
* Files above 800 lines count as chunked and get at least 8 iterations, so the
  reductions of `effective_repair_iterations` above 1,000 lines are never taken.
  Defaults are 2,000,000 tokens and 50 calls; the comments at orch 84 and 87 say
  500,000 and 20.
* `migrate_directory` looks for file names among function names, collects
  signatures that nobody reads, and ends at the first failing file.
* `task_routing`, "single entry point for all model selection" (providers.rs), is
  not used by the orchestrator, nor is `ensemble_enabled`.

Of modules:

* "Falls back to alphabetical order if cycles are detected" (dependency.rs:91):
  functions of one file are all given the calls of the whole file, which makes
  cycles the C code does not have; and one cycle gives up the order of all functions,
  those already ordered included (:158-163).
* "Only includes modules that compiled successfully" (assembly.rs:11): the text
  that P32 puts in place of one with an open brace is not validated and keeps the
  figures of the old one (orch 2917).
* "Validated modules are reused" (orch 98-99): at the end of a completed run its
  summary overwrites the manifest of the modules (1943), so warm start reuses
  nothing from it. A skipped module is delivered with its first text, as Validated
  whatever its state was (2384). Errors of writes are ignored (`let _ =`, 1943, 2315,
  2382, 2508, 2642): an entry may name a file that is missing, and the module is
  translated again, or one that was cut, and what is left is delivered as Validated.
  The file is the text a module began with, its score that of the text it ended with.
* `ModularResult::Success`, "All modules migrated successfully"
  (module_migration.rs:41), is returned with any one output. Without a
  differential test a module must score 80, although P24 says modules just need to
  compile (orch 2646).
* `split_into_modules` may give two modules the name "misc".

Of texts:

* R2 is to "remove the second definition of X while keeping the first"
  (repair_rules.rs:350), but takes a method of that name for the first (374).
  Rules use the lines of the text the first rule began with; R12 pops by the
  original place; R13 may undo its own mirrored renames.
* Assembly strips associated constants and types in a second impl of a type, drops
  a `use` with nested braces, and leaves the derive of what it drops. The contract
  skips the item after a one-line `fn` or `impl`.
* "Foundation context: chunk 0's output (types, data model) is passed to all subsequent
  chunks" (translation.rs:230): the filter trims a line and then looks for
  `"    pub "` at its beginning (:359, :370), so fields and variants on lines of their
  own are never passed. `LaterChunksKnowTheEarlier` speaks of the heads.
* Completion finds a C function by "name(" (translation.rs:964), which may be a
  call; it asks for the same first batch in every pass, and an error loses all
  passes.

Of programs under test:

* "Write stdin before reading stdout/stderr to avoid deadlock" (diff_test.rs:270):
  with an input larger than a pipe this order is what can deadlock, before the
  clock is started. No caller in the tree has such an input; termination is
  checked for inputs that fit, safety is proved for all.
* `compare stdout byte-by-byte` (diff_test.rs:5): output that is not UTF-8 is read
  as empty. `approximate_match` accepts NaN for any number (338).
* An execution that fails in a fuzz test is skipped (fuzz_test.rs:365, 372), so a
  test can pass without having compared anything. A seed that was not given is
  drawn twice, so the reported one is not the one used ("Random seed for
  reproducibility"); `timeout_secs` is not used.
* A generated harness that does not compile is reported as "Output mismatch"; its
  first line with `name(` may be a call. It "Returns `None` if the signature ... has
  unsupported types (void*, struct pointers, function pointers, etc.)"
  (harness_gen.rs:23-24): of `int apply(int (*cb)(int), int x)` the parameters are cut
  at the first `)` (:104) and read as one `int` (:140-161), so that the harness calls
  `apply(0)`. A parameter `int a[]` is read as an `int` too.
* Mined wrappers rename a prototype instead of a definition, print arguments after
  the call, and unsigned values with `%d`; texts are printed with a raw `%s` into JSON
  (spec_mining.rs:347-423) and parsed back (:471), so a backslash escape comes back as
  another text and NULL as "(null)", and a right translation may fail its assertion.
  The exit code of the test program is not looked at (:693-713): the tests printed
  before an abort are counted, and a translation that aborts may have none failed.
  A multi-input test ends at its first
  error.

Of services:

* The benchmark's list of failing binaries is never refreshed (crust_bench.rs:905),
  text before the first header of a reply goes into the next file, and `&errors[..8000]`
  (:458) and `&fail.output[..3000]` (:510) panic inside a character, which ends the run
  without a report. "Returns (all_pass, ...)" (:230): the exit status of
  `cargo test --no-run` is not looked at (:232-257), and `cargo build` builds no tests
  (:324), so that tests that no longer compile are left out of what has passed.
* The API counts no refused calls and forgets no client; the body limit of the
  extractor (2 MB) comes before the checks of key and size (10 MB); all migrations
  of a server share one audit file, which each of them truncates. The MCP server
  counts refused calls, blocks after its clock was set back until it has caught up,
  and answers a notification; its timeout bites only at an await. "Maximum MCP tool
  calls per minute" (server.rs:24, and the error text, :69) is 60, but the windows are
  fixed (:59-63), and a minute that lies across two of them may see 120: 59 calls
  late in one and 60 early in the next, with the one that opened the first. A line
  that is not UTF-8 ends the server without an answer (`let line = line?`, :94).
* "Oldest/lowest-scored entries are evicted" (translation_memory.rs): the lowest
  are. A pattern file that does not parse is an empty store, and the next save
  makes that final. Neither store is used by the orchestrator.
* `write_module` puts its header lines before those of the text it is given, and a
  second inner attribute is an error: a module that a rule has changed can never
  pass the recheck of `repair_module_in_crate`. Names that collide share a file.

## 5. Proofs

All proofs are checked to the last leaf, and none uses more of the constants than
the named assumptions of the modules: what a text is, that limits are naturals or
absent, that nodes are finitely many and have an order, that lines with one text
are one line. Each theorem is of the specification the run checks, and most have the same
shape: the property is not inductive by itself; an invariant, whose parts stand
named in the module or at the head of a part of its proofs, holds at first and
through every action; and it implies the property. TLC checked the invariants on
the runs' instances before they were proved.

**`RepairLoop_proofs`** (`IInv`): what makes the properties inductive is that the
four best-version variables always describe one text, with substance and within
the ceiling, or nothing (`BestInv`); that between iterations the unit holds the
verdict on its own text (`UnitInv`), so that a refused or failed repair leaves a
unit to go on with; that each path counts its iteration before it spends its next
call (`LoopInv`, `SpentInv`); and that the state given at the end is warranted
(`DeliveredInv`). From it: `TypeCorrect`, `ReportCorrect`, `CeilingRespected` (with
its halves `CeilingHeld` and `FallbackWithinCeiling`), `BudgetRespected`
(`StateInStep`, `TokensWithinBudget`, `CallsWithinIterations`), and
`Implementation`: every step of the loop is a step of `Delivery` or a stutter. That
theorem is what lets `FilePipeline` take the loop by its promise.

**`ModuleMigration_proofs`** (`IInv`): as for the loop, the best version is one text
within the ceiling from the entry into the loop on (`BestInv`) and the unit holds
the verdict on its own text (`UnitInv`). `SpentInv` says at each place how many
calls were made on the way to it: the three fresh translations are each behind a
place that is passed once. From it: `ResultIsWarranted`, for every limit, number
of chunks and score asked.

**`ModularMigration_proofs`** (`MergeInv`, `AssemblyInv`): outputs, the word
*validated* and the meter are at every wave what the modules merged so far gave,
and a run is assembled after its last wave or as its calls run out. The meter is a
sum over modules (`Total`, a recursive function): that the partial sums exist, are
naturals and add up over disjoint sets of modules is proved by induction on the
number of modules, from the well-foundedness of the naturals (`SetInduction`). From
it: `RunIsAccountedFor`, and the action property `BudgetDecides`.

The same module has the proofs about `WarmStart` (`ChainInv`), whose names do not meet
those of `ModularMigration`: a directory is read one run after it was written,
so what the next run relies on has to be said of three places at once: the
results in memory, the directory being written, and the one the run started from.
Each entry with a state good enough to skip has a score that was earned by the last
run to work on the module, and the file next to it is the text that run began with,
or what a failed write left of it. `EndsPreserves`
says once what every end of a module has to respect; the actions cite it. From
it: `ReliableDirectories`, for every number of modules and runs.

**`FilePipeline_proofs`** (`IInv`): nobody judges a text before validation, and what
was judged may be delivered (`UnitInv`); places where nothing is paid after a check
yet are named (`SpentInv`). A stop anywhere is a case like any action: it may cut
the write of the cache, and the next session finds a text that is no text. From
it: `DeliveryIsWarranted`, `CacheIsValidated`, `SpendingIsChecked`, for every number
of sessions and files, which may share a source.

**`DependencyGraph_proofs`** (`IInv`): while nodes are handed out, a degree is the
number of callers still to come (`InDegreeExact`). The step of the waves needs that
the callers still to come and those in the wave just taken are disjoint parts of
one finite set, so that the decrement is exact; the step of the queue, that the
nodes freed by its head are those whose last caller it is. So the queue holds what
is ready, each node once (`QueueIsReady`; that sorting a set keeps its elements is
proved from ranks), and of two nodes in line the one whose last caller was popped
first comes first (`FirstFreedFirst`). The steps that end a form are those of the
abstract one: with all nodes out it closes, and otherwise every node that is left has a
caller that is left, and the sequence goes on, or begins again, by rank. From it: `DegreesExact`, `Independence`,
`ScheduleImplemented` and `LevelAfterLevel`, for every set of nodes and every
graph. `Level` is a recursive function: that it exists and rises along the order
is proved by induction on the order, from the well-foundedness of the naturals.

**`Comparison_proofs`.** Of `ProcessRun`: every unit written is in the pipe or with
the reader (`Conserved`), a reader ends only after the program and with an empty
pipe (`ReadersInv`), and the parent's place tells what it has seen (`ParentInv`); so
outputs are complete, a result is the program's own, and no child is left, for
every size of pipe, input and output. On top of it, of all tests, fuzz campaigns
and mined specifications (`TestingInv`): while the Rust program is next or runs,
what is held of the C program is what it did (`PairInv`); inputs run and inputs left
are the inputs planned (`AccountInv`); a trace line about a pure function is of a call
that was made, with what JSON leaves of its argument and result, and a call that began
a line left one that can be read (`LinesInv`); what is reported of specifications is the result of tests of the
traces (`SpecsInv`). From it: `PassingIsAgreement` (the comparisons, exact and with a
tolerance, find the lines that differ), `InputsAccounted`, `HarnessIsThorough` (a
harness makes as many calls as the longest list of values has, and the shorter
lists start again), `RightIsRight` and `WrongIsCaught`.

**`Services_proofs`**: the parts share no state, so each has an invariant that the
steps of the others leave alone. `BenchInv`: a verdict is about the files on disk,
because each reply that is written is followed by the command that judges it; from
it `BenchReportTrue`. `CrateInv`: success is the last thing a repair says, of the
sources as they are; from it `CrateRepairTrue`. `ApiInv`: the requests that the
limiter has forgotten are a window old, whoever made it forget them, because the
clock was read before the lock; `McpInv`: what was let through since the window
began is counted in it, what was let through before is at most the limit, and a
window is over only in a tick without a call; from both `LimitsOfServers` (for the MCP
server twice its limit in any minute, which TLC finds reached). `MemoryInv`: each entry has the best score taught under its
signature, and a signature is only missing where the store is full of entries that
are no worse, in the process and in the file; it needs that the stable sort, which
is defined by ranks, is a permutation by score; from it `MemoryBest`. `PatternInv`:
what was learned is in the process's list, or in the file and in nothing that
replaced it. The list is merged from the seeds and the file one pattern at a
time, a recursive function, of which each step is shown to keep what the list has
and to add what it is given; from it `NothingLearnedIsLost`.

**`FirstText_proofs`.** `RoutingInv`: exactly while one is asked there is a request,
and its client and model were chosen from the configuration as it still is; that two
functions with different tests choose alike is a lemma for every configuration. From it
`RequestsReachTheirModel`. `EnsembleInv`: every awaited candidate is graded, and a
winner was selected from those awaited. A stable sort is represented by what it
begins with, so that it has one is shown by induction on the number of candidates;
the rounds of a tournament by a recursive function: each is half as long, and has
for each of those before it one that is as good; so the last has length one. From it
`WinnersAreUnbeaten`. `ChunkInv`: at each place of the loop over the chunks the
outputs are as many as the chunks before it, the first is the foundation, and the
signatures are those of all outputs of code; and the first chunk is never a table,
because of what the functions that split a file return (`ChosenChunksOK`). From it
`LaterChunksAreTold` and, with the request that is under way, `StubsAreAskedForTwice`.
`OnceInv` says of the parts of a file that they divide its functions (`PartsDivide`):
each function is at one place of one part, and nothing else is there. Each way of
dividing is built of selections, groups and joins, and each of these keeps it
(`DividedJoin`, `DividedFlat`, `ItemsAtOnce`, `GroupsDivide`), from the groups of
`chunk_c_source` up to `SplitDivides` and `StructuralDivides`; from it
`EachFunctionInOnePart`. It rests on `FirstTextAssumption`: two functions of a file
stand at different bytes of it (`CFunction`), and the prefixes by which modules are
made are the keys of a sorted map into which every function was put.

The same module has the proof about `AssembledRepair`, whose recursive passes over
lines it treats like those above. `RepairInv`: the contract, the assembled text and
the texts of the modules are sequences, which the assembly and each of the fifteen
rules keeps (`AssembledIsASeq`, `RuleIsASeq`); and while a function is asked for, what
was kept of it is its name and its extent in the text as it still is, although
extraction is by line and the splice by name (`Located`). The end of a function is on
its first line or below it and inside the text (`ClosingBraceIsInside`), and putting a
sequence in the place of a part of another leaves what is before and behind it
(`Replaced`). From it `RepairsStayInside`, for all modules, contracts, errors and answers
(`AssembledRepairAssumption`: these are texts).

The recursive functions of the proved modules (`Total`, `Level`, the merge of
patterns, the rounds, groups and selections of `FirstText`, the passes over lines,
modules and rules of `AssembledRepair`) are each shown to exist
and then followed step by step (`ChainExists`, `ChainSteps`), by an induction over a
set of numbers that is proved from the well-foundedness of the naturals
(`SetInduction`), because the library's own theorem takes an operator.

**Model-checked only.**

* Liveness under fairness (`Termination`, `ComparisonTerminates`,
  `EveryCallAnswered`), which is beyond the prover used here.
* `TypesDefinedOnce`, `RulesKeepFunctions`, `NothingWholeIsCut` of `AssembledRepair`.
  They hold of texts made of whole items, such as the modules of the run, and not of
  every sequence of lines: a line that closes two blocks at once inside a range that
  is taken out, or a head without a body before another function, breaks them in
  the model as in the code, which looks for the end of an item by counting. To
  prove them one would have to say what a whole item is and that fifteen rules, one
  after the other, leave items whole; that is a grammar the code does not have.

## 6. What the models leave out

* Wording, prompts, logging, artifacts nobody reads.
* The content of texts, beyond what is measured of them or the kinds of their
  lines. That the measures are right (that rustc's error lines are counted well,
  that the score means anything) is not modelled; in `AssembledRepair`, rustc is an
  operator on lines that reports the defects the rules know.
* Overflow: the quantities stay far below their widths (calls times 100 in
  `budget_phase` is the nearest), so integers are unbounded.
* Where one module takes another by what it promises (section 2), the composition
  is not checked beyond that promise; `ModuleMigration` takes a chunked translation
  as one reply, `WarmStart` leaves P32 out.
* Which messages a stored repair pattern matches, by substring or regular expression, is
  a relation given to `Learned` (`Matching`). The clock of the MCP server is set back but
  not forward, which would open a window early. A test that is written against a file
  compiles or not by the file's text alone.
* In `ProcessRun`: output that is not UTF-8, a program that closes its outputs
  early, processes the program starts, an error of `try_wait` itself.
* Concurrent runs of two command lines over one cache, one run directory (named by
  the second) or one benchmark directory.

**Not modelled.** The parts in the last table of section 1. Rule-based translation,
the preprocessor, the semantic patterns, documentation and reports rewrite or
count text without state: a model of them would be the program once more. The
remaining stores (audit trail, artifacts, incremental state) are read by no
modelled part.

## 7. Plan

Done, in this order: `Validation`, `Budget`, `RepairLoop` with `Delivery` and its
proofs; `DependencyGraph` with `Schedule` and its proofs;
`ModuleMigration`, `ModularMigration`, `WarmStart` and its proofs; `ProcessRun` and
its proofs; `FilePipeline`; `AssembledRepair` with contract, assembly, rules and
surgical repair; `FirstText` with splitting, providers and ensembles; `Comparison` with
harnesses, and `SpecMining`; `Services`.

Proved since: the properties of `ModuleMigration`, `ModularMigration`,
`FilePipeline`, `Comparison`, `SpecMining`, `Services` and the queue form of Kahn's
algorithm; all safety properties of `FirstText`; of `AssembledRepair` that surgical
repairs stay inside their function.

What is left are the other three invariants of `AssembledRepair` (section 5), which
need a grammar of items first.
