--------------------------- MODULE DependencyGraph ---------------------------
(***************************************************************************)
(* noricum-core/src/dependency.rs: Kahn's algorithm in its three forms.    *)
(* topological_sort orders the functions of a directory, module_order the  *)
(* modules of a file for a report; both take nodes from a queue, one at a  *)
(* time.  module_waves collects by level: the modules of a wave are        *)
(* migrated concurrently, each seeing the Rust of the waves before it, so  *)
(* a wave must hold no two modules of which one calls the other.           *)
(*                                                                         *)
(* in_degree counts the callers of a node, so callers come first.  On a    *)
(* cycle the order found so far is thrown away for the alphabetical one    *)
(* (functions), or completed with the nodes that are left (modules).       *)
(***************************************************************************)
EXTENDS Integers, SequencesExt

CONSTANTS
  Nodes,      \* what is ordered, by rank: functions by name, modules by index
  Functions   \* the functions of the file whose modules are ordered

ASSUME OrderAssumption == Nodes \subseteq Nat /\ IsFiniteSet(Nodes)

VARIABLES
  pc,
  of,         \* what is asked for: "functions", "modules" or "waves"
  edges,      \* the nodes the graph says a node calls (mod_deps for modules)
  inDegree,
  queue,
  order,      \* result, order
  remaining,  \* the modules in no wave yet
  waves

vars == <<pc, of, edges, inDegree, queue, order, remaining, waves>>

\* No function calls itself: from_directory and from_source leave such calls out.
CallGraphs(F) == {c \in [F -> SUBSET F] : \A f \in F : f \notin c[f]}

\* from_directory looks for calls in the whole file for each of its functions.
OfDirectory(calls, file) ==
  [n \in Nodes |-> (UNION {calls[m] : m \in {k \in Nodes : file[k] = file[n]}}) \ {n}]

\* What the functions of a module call in other modules.
ModDeps(calls, owner) ==
  [m \in Nodes |->
     {owner[g] : g \in UNION {calls[f] : f \in {h \in Functions : owner[h] = m}}} \ {m}]

Callers(n) == {m \in Nodes : n \in edges[m]}
Degrees == [n \in Nodes |-> Cardinality(Callers(n))]
Roots == {n \in Nodes : Degrees[n] = 0}

\* Nodes in their order: the one that comes as number k has k - 1 before it.
Sorted(S) ==
  [k \in 1 .. Cardinality(S) |-> CHOOSE n \in S : Cardinality({m \in S : m < n}) = k - 1]

Init ==
  /\ pc = "kahn"
  /\ \/ /\ of = "functions"
        /\ \E calls \in CallGraphs(Nodes), file \in [Nodes -> Nodes] : edges = OfDirectory(calls, file)
     \/ /\ of \in {"modules", "waves"}
        /\ \E calls \in CallGraphs(Functions), owner \in [Functions -> Nodes] :
             edges = ModDeps(calls, owner)
  /\ inDegree = Degrees
  /\ queue = IF of = "waves" THEN <<>> ELSE Sorted(Roots)
  /\ order = <<>>
  /\ remaining = IF of = "waves" THEN Nodes ELSE {}
  /\ waves = <<>>

-----------------------------------------------------------------------------
(***************************************************************************)
(* With a queue.                                                           *)
(***************************************************************************)
\* The head of the queue is handed out, and what it calls has a caller less.
PopHead ==
  /\ pc = "kahn" /\ queue # <<>>
  /\ order' = Append(order, Head(queue))
  /\ inDegree' = [n \in Nodes |-> IF n \in edges[Head(queue)] THEN inDegree[n] - 1 ELSE inDegree[n]]
  /\ UNCHANGED <<pc, of, edges, remaining, waves>>

\* The nodes that lose their last caller with the head.
Freed == {n \in edges[Head(queue)] : inDegree[n] = 1}

\* Slip: the queue is a stack.
PopFunctionFromStack ==
  of = "functions" /\ PopHead /\ queue' = Sorted(Freed) \o Tail(queue)

PopFunction ==
  of = "functions" /\ PopHead /\ queue' = Tail(queue) \o Sorted(Freed)

\* The dependencies of a module are a HashSet, gone through in any order.
PopModule ==
  of = "modules" /\ PopHead /\ \E p \in SetToSeqs(Freed) : queue' = Tail(queue) \o p

\* The queue is empty: nodes not reached are on, or called from, a cycle.
Complete(all) ==
  /\ pc = "kahn" /\ queue = <<>>
  /\ pc' = "done"
  /\ order' = all
  /\ UNCHANGED <<of, edges, inDegree, queue, remaining, waves>>

CompleteFunctions ==
  /\ of = "functions"
  /\ Complete(IF ToSet(order) = Nodes THEN order ELSE Sorted(Nodes))

CompleteModules ==
  of = "modules" /\ Complete(order \o Sorted(Nodes \ ToSet(order)))

-----------------------------------------------------------------------------
(***************************************************************************)
(* By levels.                                                              *)
(***************************************************************************)
Wave == {m \in remaining : inDegree[m] = 0}

Decremented == [m \in Nodes |-> inDegree[m] - Cardinality({i \in Wave : m \in edges[i]})]

NextWave ==
  /\ of = "waves" /\ pc = "kahn"
  /\ Wave # {}
  /\ waves' = Append(waves, Wave)
  /\ remaining' = remaining \ Wave
  /\ inDegree' = Decremented
  /\ UNCHANGED <<pc, of, edges, queue, order>>

\* Slip: the modules left are flushed while some are ready.
LeftoverEarly ==
  /\ of = "waves" /\ pc = "kahn"
  /\ pc' = "done"
  /\ waves' = IF remaining # {} THEN Append(waves, remaining) ELSE waves
  /\ UNCHANGED <<of, edges, inDegree, queue, order, remaining>>

\* No module is without callers: those left, if any, form the last wave.
Leftover ==
  /\ of = "waves" /\ pc = "kahn"
  /\ Wave = {}
  /\ pc' = "done"
  /\ waves' = IF remaining # {} THEN Append(waves, remaining) ELSE waves
  /\ UNCHANGED <<of, edges, inDegree, queue, order, remaining>>

Finished == pc = "done" /\ UNCHANGED vars

Next ==
  \/ PopFunction \/ PopModule \/ CompleteFunctions \/ CompleteModules
  \/ NextWave \/ Leftover
  \/ Finished

Spec == Init /\ [][Next]_vars

-----------------------------------------------------------------------------
(***************************************************************************)
(* Properties.                                                             *)
(***************************************************************************)
InWaves == UNION {waves[k] : k \in DOMAIN waves}

\* The nodes handed out.
Emitted == IF of = "waves" THEN InWaves ELSE ToSet(order)

\* What is handed out, part by part: the waves, or the nodes of the order.
Parts == IF of = "waves" THEN waves ELSE [k \in DOMAIN order |-> {order[k]}]

\* What topological_sort, module_order and module_waves return holds every node once,
\* each after all that call it; where a cycle holds nodes back, module_waves and
\* module_order add what is left and topological_sort drops the order it has found for
\* that of all functions by name.
Order == INSTANCE Schedule WITH parts <- Parts, closed <- (pc = "done")
ImplementsSchedule == Order!Safety

\* "Each wave contains modules whose dependencies are all satisfied by previous waves"
\* (module_waves; topological_sort and module_order: "dependencies first"): what a node
\* calls is handed out before it, as long as no cycle is met.
DependenciesFirst ==
  pc = "kahn" =>
    \A k \in DOMAIN Parts : \A n \in Parts[k] :
      edges[n] \subseteq UNION {Parts[j] : j \in 1 .. k - 1}

\* The number of the wave of module_waves that the k-th node popped is in: one
\* after the last wave of its callers.
Level ==
  LET level[k \in 1 .. Len(order)] ==
        LET before == {level[j] : j \in {i \in 1 .. k - 1 : order[k] \in edges[order[i]]}}
        IN 1 + (IF before = {} THEN 0 ELSE CHOOSE l \in before : \A h \in before : h <= l)
  IN level

\* "Uses the same Kahn's algorithm as module_order but collects by level"
\* (dependency.rs, module_waves): the queue pops nodes wave after wave.
LevelByLevel ==
  pc = "kahn" => \A j \in 2 .. Len(order) : Level[j - 1] <= Level[j]

(***************************************************************************)
(* The inductive invariant behind the properties, in named parts.          *)
(***************************************************************************)
\* Types of the variables.  in_degree is a usize: it must not go below zero.
TypeOK ==
  /\ pc \in {"kahn", "done"}
  /\ of \in {"functions", "modules", "waves"}
  /\ edges \in CallGraphs(Nodes)
  /\ inDegree \in [Nodes -> Nat]
  /\ queue \in Seq(Nodes)
  /\ order \in Seq(Nodes)
  /\ remaining \subseteq Nodes
  /\ waves \in Seq(SUBSET Nodes)

\* The degree of a node is the number of its callers that are still to come:
\* decrementing loses no caller and counts none twice.
InDegreeExact ==
  pc = "kahn" => \A n \in Nodes : inDegree[n] = Cardinality(Callers(n) \ Emitted)

\* The queue holds the nodes all of whose callers have been popped, and only
\* those, each once: in_degree reaches zero once, when the last caller is popped.
QueueIsReady ==
  of # "waves" /\ pc = "kahn" =>
    /\ ToSet(queue) = {n \in Nodes \ Emitted : Callers(n) \subseteq Emitted}
    /\ IsInjective(queue)
    /\ IsInjective(order)

\* Every caller of a node in the order, or in the queue, was popped before it, and of
\* two nodes the one whose last caller was popped first comes first.
FirstFreedFirst ==
  of # "waves" /\ pc = "kahn" =>
    LET line == order \o queue IN
      /\ \A k \in DOMAIN order : \A n \in Callers(order[k]) : \E i \in 1 .. k - 1 : order[i] = n
      /\ \A k \in DOMAIN line : \A j \in 1 .. k - 1 : \A i \in DOMAIN order :
           line[j] \in edges[order[i]] =>
             \E h \in DOMAIN order : i <= h /\ line[k] \in edges[order[h]]

\* Every module of S waits for another one of S.
Deadlocked(S) == \A m \in S : Callers(m) \intersect S # {}

\* Modules migrated concurrently do not call each other, except in a last wave
\* whose modules all wait for each other.
SameWaveIndependent ==
  \A k \in DOMAIN waves :
    \/ \A m \in waves[k] : Callers(m) \intersect waves[k] = {}
    \/ k = Len(waves) /\ pc = "done" /\ Deadlocked(waves[k])

\* What remains is what is in no wave.
WavesInv ==
  of = "waves" =>
    /\ pc = "kahn" => remaining = Nodes \ InWaves
    /\ pc = "kahn" => \A k \in DOMAIN waves : \A m \in waves[k] : Callers(m) \intersect waves[k] = {}
    /\ queue = <<>> /\ order = <<>>

IInv ==
  /\ TypeOK /\ InDegreeExact /\ QueueIsReady /\ FirstFreedFirst /\ WavesInv
  /\ SameWaveIndependent
  /\ of # "waves" => waves = <<>>

=============================================================================
