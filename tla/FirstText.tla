------------------------------ MODULE FirstText ------------------------------
(***************************************************************************)
(* How a file gets its first Rust text: by one request, chunk by chunk     *)
(* (translate_chunked), by modules, or, after failed repairs, from an      *)
(* ensemble of candidates; and the passes that ask for the functions that  *)
(* are missing (noricum-agents/src/translation.rs, ensemble_translation.rs *)
(* and stages 5 and 5.5 of noricum-core/src/orchestrator.rs).              *)
(***************************************************************************)
EXTENDS CFile, Providers, TLC

Rust == INSTANCE SourceLines

CONSTANTS
  Confs,         \* configurations: preferred provider, keys, difficulty, data model
  CFiles,        \* C files that may be given
  PrefixOrder,   \* prefixes of their functions in alphabetical order
  Replies(_),    \* texts a model may give for a sequence of C items
  BodyLines,     \* lines a "code" line of a Rust text stands for
  Candidates,    \* provider and price of each candidate of an ensemble
  MaxCost,       \* max_ensemble_cost_usd
  Grades         \* what a candidate may turn out to be

ASSUME FirstTextAssumption ==
  /\ Confs \subseteq [primary : AProvider, keys : SUBSET {"anthropic", "deepseek"},
                     difficulty : Difficulties, dataModel : BOOLEAN]
  /\ BodyLines \in Nat /\ MaxCost \in Nat
  /\ \A c \in CFiles : c \in Seq(ToSet(c))
  \* Two functions of a file stand at two places of it (CFunction has its bytes).
  /\ \A c \in CFiles : \A i, j \in DOMAIN c : c[i].kind = "fn" /\ c[i] = c[j] => i = j
  \* The prefixes are the keys of a sorted map that every function was put into.
  /\ PrefixOrder \in Seq(ToSet(PrefixOrder))
  /\ \A i, j \in DOMAIN PrefixOrder : PrefixOrder[i] = PrefixOrder[j] => i = j
  /\ \A c \in CFiles : \A f \in ToSet(Functions(c)) : f.prefix \in ToSet(PrefixOrder)
  /\ Candidates \in Seq([provider : AProvider, price : Nat])
  /\ Grades \subseteq [compiles : BOOLEAN, score : Nat, unsafe : Nat]

MediumFileLoc == 800
VeryLargeFileLoc == 2000
MassiveFileLoc == 5000
Retries == 3             \* RETRY_DELAYS
MaxPasses == 5
MaxBatch == 400

VARIABLES
  pc,
  conf,        \* provider configuration, difficulty, and what the analysis says
  cfile,       \* the C file
  parts,       \* chunks, or modules
  at,          \* the chunk being translated
  ask,         \* the request under way
  kept,        \* a chunk's first answer while a second one is asked for
  outputs,     \* text of each chunk
  foundation,  \* text of the first chunk, whose types later chunks are given
  sigs,        \* names whose Rust signatures later chunks are given
  agreed,      \* functions with an agreed signature
  text,        \* the Rust text
  draft,       \* the text as the completion passes extend it
  passes,
  tasks,       \* candidates of an ensemble: "running", "failed" or what came of it
  cands,       \* those that were awaited
  waited,      \* how many were awaited
  won,         \* strategy and winner
  unit         \* what the ensemble is to improve

vars == <<pc, conf, cfile, parts, at, ask, kept, outputs, foundation, sigs, agreed, text, draft,
          passes, tasks, cands, waited, won, unit>>
chunking == <<parts, at, kept, outputs, foundation, sigs, agreed>>
ensemble == <<tasks, cands, waited, won, unit>>
given == <<conf, cfile>>

NoAsk == [kind |-> "none", items |-> <<>>, attempt |-> 0]
NoConf == [primary |-> "none", keys |-> {}, difficulty |-> "easy", dataModel |-> FALSE]
NoWinner == [strategy |-> "none", candidate |-> NoCandidate]

-----------------------------------------------------------------------------
(***************************************************************************)
(* Rust texts                                                              *)
(***************************************************************************)
FnNames(t) == {l.name : l \in {x \in ToSet(t) : Rust!StartsFn(x)}}

\* The lines of the foundation that a later request quotes.  The pattern for members
\* wants indentation of a line that was trimmed, so fields and variants that have a
\* line of their own are never among them.
TypeLines(t) == {l \in ToSet(t) : l.kind \in {"struct", "alias", "const", "impl", "end"}}

\* The types and constants that a text defines.
TypeNames(t) == {l.name : l \in {x \in ToSet(t) : x.kind \in {"struct", "alias", "const"}}}

\* extract_rust_signatures
Signatures(t) == FnNames(t)

\* extract_rust_code: the inside of the first pair of fences, if it is closed.
Extracted(t) ==
  LET fences == {i \in DOMAIN t : t[i].kind = "fence"}
  IN IF Cardinality(fences) < 2 THEN t
     ELSE SubSeq(t, Min(fences) + 1, Min(fences \ {Min(fences)}) - 1)

RustLines(t) == FoldLeft(LAMBDA n, l : n + (IF l.kind = "code" THEN BodyLines ELSE 1), 0, t)

\* count_empty_fns_quick: the first of the next four lines that is no brace decides,
\* be it the next function's.
LooksEmpty(t, i) ==
  LET next == {j \in i + 1 .. i + 4 : j \in DOMAIN t /\ t[j].kind # "end"}
  IN \/ next = {} \/ t[Min(next)].kind = "todo"
     \/ t[i].open = 1 /\ t[i].close = 1
EmptyFns(t) == Cardinality({i \in DOMAIN t : Rust!StartsFn(t[i]) /\ LooksEmpty(t, i)})

\* count_total_fns_quick
TotalFns(t) == Cardinality({i \in DOMAIN t : Rust!StartsFn(t[i])})

IsStub(items, t) ==
  \/ CLines(items) > 10 /\ RustLines(t) < CLines(items) \div 4
  \/ TotalFns(t) > 2 /\ 10 * EmptyFns(t) > 3 * TotalFns(t)

\* Imports of all chunks first, each once, then the rest of each.
Combined(texts) ==
  LET Uses(t) == SelectSeq(t, LAMBDA l : l.kind = "use")
      Others(t) == SelectSeq(t, LAMBDA l : l.kind # "use")
      AddNew(s, l) == IF l \in ToSet(s) THEN s ELSE Append(s, l)
  IN FoldLeft(AddNew, <<>>, FlattenSeq([i \in DOMAIN texts |-> Uses(texts[i])]))
     \o FlattenSeq([i \in DOMAIN texts |-> Others(texts[i])])

\* find_missing_c_functions; a name and its snake_case are one name here.
Missing(t) == SelectSeq(Functions(cfile), LAMBDA f : f.name \notin FnNames(t))

\* The functions a pass asks for: from the first that is missing, up to MaxBatch lines.
Batch(t) ==
  LET m == Missing(t)
      fits == {n \in 1 .. Len(m) : n = 1 \/ CLines(SubSeq(m, 1, n)) <= MaxBatch}
      full == {n \in 1 .. Len(m) : n \notin fits}
  IN SubSeq(m, 1, IF full = {} THEN Len(m) ELSE Min(full) - 1)

\* The text sent for a function: what follows the first mention of its name, be it a
\* prototype or a call, up to the end of the next block.
SentFor(c, f) ==
  LET mentions == {i \in DOMAIN c : c[i].name = f.name \/ f.name \in c[i].calls}
      i == Min(mentions)
      blocks == {j \in i .. Len(c) : c[j].kind \in {"fn", "type", "table"}}
  IN IF c[i].kind = "proto" THEN (IF blocks = {} THEN <<>> ELSE <<c[Min(blocks)]>>) ELSE <<c[i]>>

\* What is appended: no import that is there, no head of a type that is there.
Additions(t, new) ==
  SelectSeq(new, LAMBDA l : ~(l.kind \in {"use", "struct"} /\ l \in ToSet(t)))

-----------------------------------------------------------------------------
Init ==
  /\ pc = "start"
  /\ conf = NoConf /\ cfile = <<>>
  /\ parts = <<>> /\ at = 0 /\ ask = NoAsk /\ kept = <<>> /\ outputs = <<>>
  /\ foundation = <<>> /\ sigs = {} /\ agreed = {}
  /\ text = <<>> /\ draft = <<>> /\ passes = 0
  /\ tasks = <<>> /\ cands = <<>> /\ waited = 0 /\ won = NoWinner
  /\ unit = [state |-> "none", iter |-> 0, compiles |-> FALSE, score |-> 0, rust |-> 0]

\* Tables are transcribed: without types and signatures.
Request(kind, items, temp) ==
  [kind |-> kind, items |-> items, attempt |-> 0, temp |-> temp,
   client |-> CreateClient(conf), model |-> SelectModel(conf, conf.difficulty, "translation").model,
   types |-> IF kind # "data" /\ at > 1 THEN TypeLines(foundation) ELSE {},
   sigs |-> IF kind # "data" THEN sigs ELSE {}, agreed |-> IF kind # "data" THEN agreed ELSE {}]

ChunkTarget(c) ==
  IF CLines(c) > MassiveFileLoc THEN 600 ELSE IF CLines(c) > VeryLargeFileLoc THEN 500 ELSE 400

ChosenChunks ==
  LET target == ChunkTarget(cfile)
      structural == Structural(cfile, target)
  IN IF conf.dataModel /\ Len(structural) > 1 THEN structural ELSE ChunkSource(cfile, target)

\* Stage 5 is reached with the configuration and what the analysis said.
Begin ==
  /\ pc = "start"
  /\ conf' \in Confs
  /\ cfile' \in CFiles
  /\ pc' = "begun"
  /\ UNCHANGED <<chunking, ask, text, draft, passes, ensemble>>

\* A file that is not large is one request.
Whole ==
  /\ pc = "begun" /\ CLines(cfile) <= MediumFileLoc
  /\ ask' = Request("whole", cfile, 3)
  /\ pc' = "asked"
  /\ UNCHANGED <<given, chunking, text, draft, passes, ensemble>>

\* A very large file is first divided into modules; that migration may fail.
Modules ==
  /\ pc = "begun" /\ CLines(cfile) > VeryLargeFileLoc
  /\ parts' = SplitIntoModules(cfile, PrefixOrder, 1000)
  /\ pc' = "modules"
  /\ UNCHANGED <<given, at, ask, kept, outputs, foundation, sigs, agreed, text, draft, passes, ensemble>>

ModulesMigrated ==
  /\ pc = "modules" /\ pc' = "modular"
  /\ UNCHANGED <<given, chunking, ask, text, draft, passes, ensemble>>

\* The signatures of all functions are agreed on when there are more than two chunks.
Chunks ==
  /\ \/ pc = "begun" /\ CLines(cfile) > MediumFileLoc /\ CLines(cfile) <= VeryLargeFileLoc
     \/ pc = "modules"
  /\ parts' = ChosenChunks
  /\ at' = 1
  /\ pc' = IF Len(parts') > 2 THEN "agree" ELSE "chunk"
  /\ UNCHANGED <<given, ask, kept, outputs, foundation, sigs, agreed, text, draft, passes, ensemble>>

\* A request that fails, or that has no signature, leaves nothing agreed.
Agree ==
  /\ pc = "agree"
  /\ \E ok \in BOOLEAN :
       agreed' = IF ok THEN UNION {NamesOf(parts[i].items) : i \in {j \in DOMAIN parts : ~parts[j].data}}
                 ELSE {}
  /\ pc' = "chunk"
  /\ UNCHANGED <<given, parts, at, ask, kept, outputs, foundation, sigs, text, draft, passes, ensemble>>

AskChunk ==
  /\ pc = "chunk" /\ at <= Len(parts)
  /\ ask' = Request(IF parts[at].data THEN "data" ELSE "chunk", parts[at].items, 3)
  /\ pc' = "asked"
  /\ UNCHANGED <<given, chunking, text, draft, passes, ensemble>>

\* A passing error: wait and ask again, at most three times.
Transient ==
  /\ pc = "asked" /\ ask.kind # "completion" /\ ask.attempt < Retries
  /\ ask' = [ask EXCEPT !.attempt = @ + 1]
  /\ UNCHANGED <<pc, given, chunking, text, draft, passes, ensemble>>

\* Any other error, or a passing one at the last attempt, ends the translation: what
\* the chunks before gave is lost, and the file goes to the synchronous pipeline.
Fails ==
  /\ pc = "asked" /\ ask.kind # "completion"
  /\ pc' = "failed" /\ ask' = NoAsk
  /\ UNCHANGED <<given, chunking, text, draft, passes, ensemble>>

WholeReply ==
  /\ pc = "asked" /\ ask.kind = "whole"
  /\ \E t \in Replies(ask.items) : text' = Extracted(t)
  /\ pc' = "translated" /\ ask' = NoAsk
  /\ UNCHANGED <<given, chunking, draft, passes, ensemble>>

\* What comes back for a table is not looked at.
DataReply ==
  /\ pc = "asked" /\ ask.kind = "data"
  /\ \E t \in Replies(ask.items) : outputs' = Append(outputs, Extracted(t))
  /\ at' = at + 1 /\ pc' = "chunk" /\ ask' = NoAsk
  /\ UNCHANGED <<given, parts, kept, foundation, sigs, agreed, text, draft, passes, ensemble>>

\* The chunk's text is there; only the first chunk's is the foundation.
Accept(t) ==
  /\ outputs' = Append(outputs, t)
  /\ sigs' = sigs \union Signatures(t)
  /\ foundation' = IF at = 1 THEN t ELSE foundation
  /\ at' = at + 1 /\ pc' = "chunk" /\ ask' = NoAsk /\ kept' = <<>>

ChunkReply ==
  /\ pc = "asked" /\ ask.kind = "chunk"
  /\ \E reply \in Replies(ask.items) :
       LET t == Extracted(reply)
       IN IF IsStub(ask.items, t)
          THEN /\ kept' = t /\ ask' = Request("again", ask.items, 5)
               /\ UNCHANGED <<pc, at, outputs, foundation, sigs>>
          ELSE Accept(t)
  /\ UNCHANGED <<given, parts, agreed, text, draft, passes, ensemble>>

\* Slip: a stub is asked for again until it is none.
SecondReplyUntilGood ==
  /\ pc = "asked" /\ ask.kind = "again"
  /\ \E reply \in Replies(ask.items) :
       LET t == Extracted(reply)
       IN IF IsStub(ask.items, t)
          THEN /\ ask' = Request("chunk", ask.items, 3) /\ kept' = <<>>
               /\ UNCHANGED <<pc, at, outputs, foundation, sigs>>
          ELSE Accept(t)
  /\ UNCHANGED <<given, parts, agreed, text, draft, passes, ensemble>>

\* Slip: the second answer is taken unseen.
SecondReplyUnseen ==
  /\ pc = "asked" /\ ask.kind = "again"
  /\ \E reply \in Replies(ask.items) : Accept(Extracted(reply))
  /\ UNCHANGED <<given, parts, agreed, text, draft, passes, ensemble>>

\* A second stub leaves the first one.
SecondReply ==
  /\ pc = "asked" /\ ask.kind = "again"
  /\ \E reply \in Replies(ask.items) :
       LET t == Extracted(reply) IN Accept(IF IsStub(ask.items, t) THEN kept ELSE t)
  /\ UNCHANGED <<given, parts, agreed, text, draft, passes, ensemble>>

Combine ==
  /\ pc = "chunk" /\ at > Len(parts)
  /\ text' = Combined(outputs)
  /\ pc' = "translated"
  /\ UNCHANGED <<given, chunking, ask, draft, passes, ensemble>>

-----------------------------------------------------------------------------
(***************************************************************************)
(* Completion, when less than 80% of the functions are there.              *)
(***************************************************************************)
Incomplete(t) == 5 * Len(Missing(t)) > Len(Functions(cfile))

StartCompletion ==
  /\ pc = "translated"
  /\ IF Incomplete(text) THEN pc' = "pass" /\ draft' = text
     ELSE pc' = "done" /\ UNCHANGED draft
  /\ UNCHANGED <<given, chunking, ask, text, passes, ensemble>>

AskMissing ==
  /\ pc = "pass" /\ passes < MaxPasses /\ Missing(draft) # <<>>
  /\ LET b == Batch(draft)
     IN ask' = Request("completion", FlattenSeq([i \in DOMAIN b |-> SentFor(cfile, b[i])]), 3)
  /\ pc' = "asked"
  /\ UNCHANGED <<given, chunking, text, draft, passes, ensemble>>

\* An empty answer ends the passes and is not one of them.
CompletionReply ==
  /\ pc = "asked" /\ ask.kind = "completion"
  /\ \E reply \in Replies(ask.items) \union {<<>>} :
       IF Extracted(reply) = <<>>
       THEN text' = draft /\ pc' = "done" /\ UNCHANGED <<draft, passes>>
       ELSE /\ draft' = draft \o Additions(draft, Extracted(reply))
            /\ passes' = passes + 1 /\ pc' = "pass" /\ UNCHANGED text
  /\ ask' = NoAsk
  /\ UNCHANGED <<given, chunking, ensemble>>

\* An error loses what the passes before it gave.
CompletionFails ==
  /\ pc = "asked" /\ ask.kind = "completion"
  /\ pc' = "done" /\ ask' = NoAsk
  /\ UNCHANGED <<given, chunking, text, draft, passes, ensemble>>

CompletionEnds ==
  /\ pc = "pass" /\ (passes = MaxPasses \/ Missing(draft) = <<>>)
  /\ text' = draft /\ pc' = "done"
  /\ UNCHANGED <<given, chunking, ask, draft, passes, ensemble>>

-----------------------------------------------------------------------------
(***************************************************************************)
(* The ensemble.  In parallel all requests are under way at once, and the  *)
(* answers are awaited in the order of the configuration.                  *)
(***************************************************************************)
Running == [state |-> "running"]
Waiting == [state |-> "waiting"]

StartEnsemble ==
  /\ pc = "start"
  /\ \E u \in [state : {"Repairing", "FallbackUnsafe"}, iter : {1, 2}, compiles : BOOLEAN,
               score : {60, 75}, rust : {0}] : TriggersEnsemble(u, TRUE) /\ unit' = u
  /\ \E parallel \in BOOLEAN :
       tasks' = [k \in DOMAIN Candidates |-> IF parallel THEN Running ELSE Waiting]
  /\ pc' = "ensemble"
  /\ UNCHANGED <<given, chunking, ask, text, draft, passes, cands, waited, won>>

TotalCost(s) == FoldLeft(LAMBDA n, c : n + c.cost, 0, s)

\* One after the other: the next one only within the cost.
Launch ==
  /\ pc = "ensemble" /\ waited < Len(tasks) /\ TotalCost(cands) <= MaxCost
  /\ tasks[waited + 1] = Waiting
  /\ tasks' = [tasks EXCEPT ![waited + 1] = Running]
  /\ UNCHANGED <<pc, given, chunking, ask, text, draft, passes, cands, waited, won, unit>>

\* generate_single_candidate: the client follows the keys, the price the label.
TaskEnds(k) ==
  /\ pc = "ensemble" /\ tasks[k] = Running
  /\ \/ tasks' = [tasks EXCEPT ![k] = [state |-> "failed"]]
     \/ \E g \in Grades :
          tasks' = [tasks EXCEPT ![k] = [state |-> "done", compiles |-> g.compiles, score |-> g.score,
                                         unsafe |-> g.unsafe, cost |-> Candidates[k].price, label |-> k]]
  /\ UNCHANGED <<pc, given, chunking, ask, text, draft, passes, cands, waited, won, unit>>

Graded(t) == [compiles |-> t.compiles, score |-> t.score, unsafe |-> t.unsafe, cost |-> t.cost,
              label |-> t.label]

\* Over the cost no further answer is awaited; the tasks go on.
Await ==
  /\ pc = "ensemble" /\ waited < Len(tasks) /\ TotalCost(cands) <= MaxCost
  /\ tasks[waited + 1] \notin {Running, Waiting}
  /\ cands' = IF tasks[waited + 1].state = "done" THEN Append(cands, Graded(tasks[waited + 1])) ELSE cands
  /\ waited' = waited + 1
  /\ UNCHANGED <<pc, given, chunking, ask, text, draft, passes, tasks, won, unit>>

Select ==
  /\ pc = "ensemble" /\ (waited = Len(tasks) \/ TotalCost(cands) > MaxCost)
  /\ \E s \in Strategies :
       /\ won' = [strategy |-> s, candidate |-> SelectBest(cands, s)]
       /\ unit' = ApplyWinner(unit, won'.candidate)
  /\ pc' = "selected"
  /\ UNCHANGED <<given, chunking, ask, text, draft, passes, tasks, cands, waited>>

-----------------------------------------------------------------------------
Next ==
  \/ Begin \/ Whole \/ Modules \/ ModulesMigrated \/ Chunks \/ Agree \/ AskChunk
  \/ Transient \/ Fails \/ WholeReply \/ DataReply \/ ChunkReply \/ SecondReply \/ Combine
  \/ StartCompletion \/ AskMissing \/ CompletionReply \/ CompletionFails \/ CompletionEnds
  \/ StartEnsemble \/ (\E k \in DOMAIN tasks : TaskEnds(k)) \/ Launch \/ Await \/ Select

\* A request is taken to return, with a text or an error (the code sets no time
\* limit of its own), and the program waits for nothing else.
Spec == Init /\ [][Next]_vars /\ WF_vars(Next)

-----------------------------------------------------------------------------
TypeOK ==
  /\ pc \in {"start", "begun", "modules", "modular", "agree", "chunk", "asked", "failed", "translated",
            "pass", "done", "ensemble", "selected"}
  /\ at \in 0 .. Len(parts) + 1 /\ ask.attempt \in 0 .. Retries /\ passes \in 0 .. MaxPasses
  /\ waited \in 0 .. Len(tasks)

\* Each function of the C file is in one chunk, or one module, and in no other.
EveryFunctionOnce ==
  LET of(p) == IF pc \in {"modules", "modular"} THEN p.functions ELSE IF p.data THEN <<>> ELSE p.items
      all == FlattenSeq([i \in DOMAIN parts |-> of(parts[i])])
  IN parts # <<>> =>
       \A f \in ToSet(Functions(cfile)) : Cardinality({i \in DOMAIN all : all[i] = f}) = 1

\* Whatever comes back, the request for a later chunk of code names the types of the
\* first one and holds the line that begins each function before it: no chunk is asked
\* for before the one that has the data model.  Of a type whose members have lines of
\* their own it has the head alone, where translate_chunked says it passes the types.
LaterChunksKnowTheEarlier ==
  pc = "asked" /\ ask.kind \in {"chunk", "again"} /\ at > 1 =>
    /\ ~parts[1].data /\ TypeNames(outputs[1]) \subseteq {l.name : l \in ask.types}
    /\ \A i \in 1 .. at - 1 : ~parts[i].data => FnNames(outputs[i]) \subseteq ask.sigs

\* A stub goes into the text only when both answers for the chunk were stubs.
StubOnlyAfterTwo ==
  [][ Len(outputs') > Len(outputs) /\ ~parts[at].data
        /\ IsStub(parts[at].items, outputs'[Len(outputs')])
      => /\ ask.kind = "again"
         /\ outputs'[Len(outputs')] = kept ]_vars

\* A request goes to the provider that has the model it names, whatever keys there
\* are; the pool of clients would choose the same.
ClientHasTheModel ==
  ask # NoAsk =>
    /\ OwnerOf(ask.model) = ask.client
    /\ DefaultClient(conf) = ask.client
    /\ ResolveTask(conf, NoOverride, "translation", conf.difficulty)
         = [provider |-> ask.client, model |-> ask.model, client |-> ask.client]
    /\ OwnerOf(SelectRepairModel(conf, conf.difficulty).model) = ask.client

\* The winner compiles if one of the candidates that were awaited does; by score
\* or by tournament no such candidate has more points, or the same and less unsafe.
WinnerIsUnbeaten ==
  won # NoWinner =>
    \A c \in ToSet(cands) :
      /\ c.compiles => won.candidate.compiles
      /\ won.strategy # "FirstCompiles" /\ c.compiles =>
           ~ (c.score > won.candidate.score
              \/ (c.score = won.candidate.score /\ c.unsafe < won.candidate.unsafe))

\* Every translation comes to an end.
Ended == pc \in {"modular", "failed", "done", "selected"}
Termination == <>Ended

=============================================================================
