------------------------------ MODULE Services ------------------------------
(***************************************************************************)
(* Five parts that do not meet, run one at a time: the benchmark, the two  *)
(* servers, what is learned, the crate.                                    *)
(***************************************************************************)
EXTENDS CrustBench, Mcp, Api, Learned, CrateOutput

VARIABLE part

serviceVars == <<part, benchVars, mcpVars, apiVars, learnedVars, crateVars>>

Init ==
  part = "none" /\ BenchInit /\ McpInit /\ ApiInit /\ LearnedInit /\ CrateInit

Choose ==
  /\ part = "none"
  /\ part' \in {"bench", "mcp", "api", "patterns", "memory", "crate"}
  /\ UNCHANGED <<benchVars, mcpVars, apiVars, learnedVars, crateVars>>

\* An action of one part.
InBench(A)   == part = "bench" /\ A /\ UNCHANGED <<part, mcpVars, apiVars, learnedVars, crateVars>>
InMcp(A)     == part = "mcp" /\ A /\ UNCHANGED <<part, benchVars, apiVars, learnedVars, crateVars>>
InApi(A)     == part = "api" /\ A /\ UNCHANGED <<part, benchVars, mcpVars, learnedVars, crateVars>>
InLearned(A) == A /\ UNCHANGED <<part, benchVars, mcpVars, apiVars, crateVars>>
InCrate(A)   == part = "crate" /\ A /\ UNCHANGED <<part, benchVars, mcpVars, apiVars, learnedVars>>

Next ==
  \/ Choose
  \/ InBench(BenchNext)
  \/ InMcp(McpNext)
  \/ InApi(ApiNext)
  \/ part = "patterns" /\ InLearned(PatternNext)
  \/ part = "memory" /\ InLearned(MemoryNext)
  \/ InCrate(CrateNext)

\* A prompt of the benchmark is answered or fails; so does a migration the API
\* runs, by the Termination of FilePipeline.  The MCP server waits for a model
\* only until its timeout, so nothing is assumed of ModelEnds.
Fairness ==
  /\ WF_serviceVars(InBench(BenchStep))
  /\ WF_serviceVars(InMcp(McpServes))
  /\ WF_serviceVars(InMcp(Tick))
  /\ \A c \in Calls : WF_serviceVars(InApi(Serve(c)))
  /\ \A r \in Routes : WF_serviceVars(InApi(TakeSlot(r)))
  /\ WF_serviceVars(InCrate(RepairStep))

Spec == Init /\ [][Next]_serviceVars /\ Fairness

-----------------------------------------------------------------------------
(***************************************************************************)
(* Properties.                                                             *)
(***************************************************************************)
\* What it means that the tests have passed: all of them, or, where some no longer
\* compile against the files, those of some file.
TestsHold(d) == IF Unfit(d) = {} THEN Failing(d) = {} ELSE Files \ Failing(d) # {}

\* What the benchmark reports of a project is true of the files it leaves, though
\* every repair may undo what an earlier one mended: "compiled" of files that
\* build, "passed" of files that pass.  Where a test no longer compiles against the
\* files, which nobody looks at (crust_bench.rs:232-257), "passed" says only that
\* some file passes its tests.  And a project costs one prompt a file (one at least)
\* and the repairs it is allowed.
BenchReportIsTrue ==
  step = "score" =>
    /\ compiled => Builds(disk)
    /\ passed => compiled /\ TestsHold(disk)
    /\ llmCalls <= Len(project.files) + MaxRepairs + (IF project.files = <<>> THEN 1 ELSE 0)

\* Requests of a client that were let through, however they ended.
LetThrough(i) ==
  {c \in Calls : /\ calls[c].client = i
                 /\ where[c] \in {"handler", "working"}
                    \/ (where[c] = "answered" /\ status[c] # 429)}

\* At no time has a client of the API had more than max_rpm requests let through
\* that read the clock in the last window, in whatever order they got the lock, and
\* one that is refused had as many.  The MCP server says of its limit that it is the
\* most in a minute (server.rs:23, 69), and does not keep to it: its windows are
\* fixed, and in a minute that lies across two of them it lets through up to twice
\* as many, but no more, even when the system clock is set back.  (A clock that is
\* set forward opens a window early; the model does not have it.)
AdmissionsLimited ==
  /\ \A i \in Clients :
       Cardinality({c \in LetThrough(i) : now - stamp[c] < Window}) <= max_rpm
  /\ \A c \in Calls : status[c] = 429 =>
       Cardinality({d \in LetThrough(calls[c].client) : stamp[c] - stamp[d] < Window}) >= max_rpm
  /\ admitted[Minute + 1] <= 2 * MCP_MAX_CALLS_PER_MINUTE

\* Of every signature ever added the memory has the best translation, or it is
\* full of translations that are no worse; no signature is there twice.  Entries
\* are replaced, dropped, saved and loaded in between.
MemoryKeepsTheBest ==
  /\ Len(entries) <= MAX_ENTRIES
  /\ \A j, k \in DOMAIN entries : entries[j].sig.hash = entries[k].sig.hash => j = k
  /\ \A h \in DOMAIN taught :
       \/ \E k \in DOMAIN entries : entries[k].sig.hash = h /\ entries[k].score = taught[h]
       \/ /\ Len(entries) = MAX_ENTRIES
          /\ \A k \in DOMAIN entries : entries[k].score >= taught[h]

\* The counts of a pattern, by which it is offered or not, are those of the seeds
\* and of all that was learned since, in this process and in the ones whose file
\* was written whole.
LearnedSurvives ==
  /\ {patterns[k].key : k \in DOMAIN patterns} = DOMAIN tally
  /\ Len(patterns) = Cardinality(DOMAIN tally)
  /\ \A k \in DOMAIN patterns :
       [won |-> patterns[k].won, lost |-> patterns[k].lost] = tally[patterns[k].key]

\* A repair of a module that reports success leaves a crate that compiles, all of
\* it, and a repair never leaves the module more unsafe blocks than it had or was
\* allowed.
RepairedCrateCompiles ==
  /\ succeeded => check_crate_compiles(sources)
  /\ cstep \in {"check", "checked", "ask", "end"} => sources[module].body.unsafe <= ceiling

\* Every line that the MCP server can read as text is answered, whatever the model
\* does.  (One that is not UTF-8 ends the server, server.rs:94.)  Every request to the API is answered; a benchmark ends,
\* with its report unless a prompt was cut inside a character (crust_bench.rs:458,
\* 510), and so does a repair.
EveryCallAnswered ==
  /\ (mcpStep \in {"dispatch", "tool", "model"}) ~> (mcpStep = "reply")
  /\ \A c \in Calls : (where[c] = "waiting") ~> (where[c] = "answered")
  /\ (step = "next") ~> (step \in {"reported", "panicked"})
  /\ (cstep = "check") ~> (cstep = "end")

\* "Maximum repair iterations" (crust_bench.rs): the number of the repair that a
\* prompt names, a temperature is computed from and the report counts.
RepairsWithinMax == repairIterations <= MaxRepairs

=============================================================================
