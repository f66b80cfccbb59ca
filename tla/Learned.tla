------------------------------ MODULE Learned -------------------------------
(***************************************************************************)
(* What is learned from one migration for the next: repair patterns        *)
(* (noricum-tools/src/repair_pattern_store.rs) and translated functions    *)
(* (noricum-tools/src/translation_memory.rs).  Both are loaded whole,      *)
(* changed in memory and written whole.                                    *)
(*                                                                         *)
(* An error is a record [code, message, line]; the pattern of a message,   *)
(* in which what stands between backticks is a wildcard, is Shape of it.   *)
(* A pattern may match, as a text or as a regular expression, other        *)
(* messages than the one it was made of.                                   *)
(* A function has a signature: its hash tells it from others, its return   *)
(* and parameter types tell how similar it is to others.                   *)
(***************************************************************************)
EXTENDS Integers, Sequences, FiniteSets, SequencesExt

CONSTANTS
  Errors,        \* errors a compiler may report: [code, message, line]
  Shape,         \* of a message, the pattern that is made of it
  Matching,      \* of a message, the patterns that match it
  Seeds,         \* seed patterns, in order: [key, won, lost]
  ErrorLists,    \* errors before and after a repair: pairs of sequences
  Signatures,    \* signatures: [hash, ret, params]
  Scores,        \* idiomatic scores
  MAX_ENTRIES,
  MaxLearned     \* bound on the changes of a history

ASSUME LearnedAssumption ==
  /\ MAX_ENTRIES \in Nat \ {0} /\ MaxLearned \in Nat
  /\ Scores \subseteq Nat
  /\ \A pair \in ErrorLists : pair.before \in Seq(Errors)
  /\ Seeds \in Seq([key : {Seeds[k].key : k \in DOMAIN Seeds}, won : Nat, lost : Nat])
  /\ \A j, k \in DOMAIN Seeds : Seeds[j].key = Seeds[k].key => j = k

VARIABLES
  patterns,     \* the store: sequence of [key, won, lost]
  entries,      \* the memory: sequence of [sig, score]
  files,        \* the two files: what they hold, or Torn
  changes,      \* changes made
  offered,      \* the key of the pattern that a prompt shows: at most one
  shown,        \* the translated functions that a prompt shows
  tally,        \* for the properties: of each key, what was learned of it
  taught,       \* for the properties: of each hash, the best score of its entries
  kept          \* for the properties: tally and taught as they were when saved

patternVars == <<patterns, offered, tally>>
memoryVars  == <<entries, shown, taught>>
learnedVars == <<patternVars, memoryVars, files, changes, kept>>

-----------------------------------------------------------------------------
(***************************************************************************)
(* Repair patterns.                                                        *)
(***************************************************************************)
Key(e) == [code |-> e.code, shape |-> Shape[e.message]]

is_reliable(p) == p.won > 0 /\ p.won >= p.lost
matches(p, e)  == p.key.code = e.code /\ p.key.shape \in Matching[e.message]

Index(key) == {k \in DOMAIN patterns : patterns[k].key = key}

\* add_pattern: one with the same key takes over the counts.
Merge(store, p) ==
  IF \E k \in DOMAIN store : store[k].key = p.key
  THEN [k \in DOMAIN store |->
          IF store[k].key = p.key
          THEN [key |-> p.key, won |-> store[k].won + p.won, lost |-> store[k].lost + p.lost]
          ELSE store[k]]
  ELSE Append(store, p)

MergeAll(store, found) ==
  LET after[n \in 0 .. Len(found)] ==
        IF n = 0 THEN store ELSE Merge(after[n - 1], found[n])
  IN after[Len(found)]

\* find_matching and build_repair_pattern_context: of the reliable patterns that
\* match, the one with the most successes, the earlier of equals.
find_matching(e) ==
  LET found == {k \in DOMAIN patterns : is_reliable(patterns[k]) /\ matches(patterns[k], e)}
      best  == {k \in found : \A j \in found : patterns[k].won >= patterns[j].won}
  IN IF found = {} THEN <<>> ELSE <<patterns[Min(best)].key>>

\* extract_patterns_from_diff: an error is fixed if no error of its code is left
\* within five lines; a pattern is made of it if the text changed around it,
\* which lines that moved do as well.
Fixed(before, after) ==
  {i \in DOMAIN before : ~\E k \in DOMAIN after :
     after[k].code = before[i].code /\ after[k].line - before[i].line \in -5 .. 5}

\* The index in a set of indices that comes as number n.
Nth(S, n) == CHOOSE i \in S : Cardinality({j \in S : j < i}) = n - 1

extract_patterns_from_diff(before, after, changed) ==
  LET near == {i \in Fixed(before, after) : before[i].line \in changed}
  IN [n \in 1 .. Cardinality(near) |-> [key |-> Key(before[Nth(near, n)]), won |-> 1, lost |-> 0]]

\* Slip: seeds are loaded first, and not what the file has of them.
WithSeedsAnew(store) ==
  Seeds \o SelectSeq(store, LAMBDA p : ~\E k \in DOMAIN Seeds : Seeds[k].key = p.key)

\* load_with_seeds: a seed is added unless its key is there.
AddSeed(store, seed) ==
  IF \E k \in DOMAIN store : store[k].key = seed.key THEN store ELSE Append(store, seed)

WithSeeds(store) ==
  LET after[n \in 0 .. Len(Seeds)] ==
        IF n = 0 THEN store ELSE AddSeed(after[n - 1], Seeds[n])
  IN after[Len(Seeds)]

-----------------------------------------------------------------------------
(***************************************************************************)
(* Translated functions.                                                   *)
(***************************************************************************)
\* A stable sort by a value, the highest first: what comes before an index, how
\* much that is, and which index comes as number k.
Ahead(value, i)  == {j \in DOMAIN value : value[j] > value[i] \/ (value[j] = value[i] /\ j < i)}
Rank(value, i)   == Cardinality(Ahead(value, i))
Sorted(value, k) == CHOOSE i \in DOMAIN value : Rank(value, i) = k - 1

Ranked(list, value) == [k \in DOMAIN list |-> list[Sorted(value, k)]]

\* Slip: the oldest entry goes, whatever its score.
add_entry_oldest(list, entry) ==
  IF \E k \in DOMAIN list : list[k].sig.hash = entry.sig.hash
  THEN [k \in DOMAIN list |->
          IF list[k].sig.hash = entry.sig.hash /\ entry.score > list[k].score
          THEN entry ELSE list[k]]
  ELSE LET all == Append(list, entry) IN IF Len(all) > MAX_ENTRIES THEN Tail(all) ELSE all

\* add_entry: of one signature the better translation stays; of more than
\* MAX_ENTRIES signatures the best, the earlier of equals.
add_entry(list, entry) ==
  IF \E k \in DOMAIN list : list[k].sig.hash = entry.sig.hash
  THEN [k \in DOMAIN list |->
          IF list[k].sig.hash = entry.sig.hash /\ entry.score > list[k].score
          THEN entry ELSE list[k]]
  ELSE LET all == Append(list, entry) IN
       IF Len(all) > MAX_ENTRIES
       THEN SubSeq(Ranked(all, [k \in DOMAIN all |-> all[k].score]), 1, MAX_ENTRIES)
       ELSE all

\* find_similar
Similarity(query, entry) ==
  (IF query.ret = entry.sig.ret THEN 10 ELSE 0)
  + (IF Len(query.params) = Len(entry.sig.params) THEN 5 ELSE 0)
  + 3 * Cardinality({k \in DOMAIN query.params : query.params[k] \in Range(entry.sig.params)})
  + entry.score \div 10

find_similar(query, max) ==
  LET sorted == Ranked(entries, [k \in DOMAIN entries |-> Similarity(query, entries[k])])
  IN SubSeq(sorted, 1, IF Len(sorted) < max THEN Len(sorted) ELSE max)

-----------------------------------------------------------------------------
Intact(list) == [torn |-> FALSE, list |-> list]
Torn == [torn |-> TRUE, list |-> <<>>]

NoTally == [key \in {} |-> [won |-> 0, lost |-> 0]]

\* The seeds, and what is learned on top of them.
Known(learned) ==
  [key \in DOMAIN learned \union {Seeds[k].key : k \in DOMAIN Seeds} |->
     IF key \in DOMAIN learned THEN learned[key]
     ELSE LET s == Seeds[CHOOSE k \in DOMAIN Seeds : Seeds[k].key = key]
          IN [won |-> s.won, lost |-> s.lost]]

CountOf(learned, key) == IF key \in DOMAIN learned THEN learned[key] ELSE [won |-> 0, lost |-> 0]

\* One more try of a pattern that was offered.
Tried(learned, key, won) ==
  [k \in DOMAIN learned \union {key} |->
     LET old == CountOf(learned, k)
     IN IF k # key THEN old
        ELSE IF won THEN [won |-> old.won + 1, lost |-> old.lost]
        ELSE [won |-> old.won, lost |-> old.lost + 1]]

\* One more success of a pattern for each time it was found.
WithFound(learned, found) ==
  [key \in DOMAIN learned \union {found[k].key : k \in DOMAIN found} |->
     [won |-> CountOf(learned, key).won + Cardinality({k \in DOMAIN found : found[k].key = key}),
      lost |-> CountOf(learned, key).lost]]

LearnedInit ==
  /\ patterns = WithSeeds(<<>>) /\ entries = <<>> /\ changes = 0 /\ offered = <<>> /\ shown = <<>>
  /\ files = [patterns |-> Intact(<<>>), entries |-> Intact(<<>>)]
  /\ tally = Known(NoTally) /\ taught = <<>>
  /\ kept = [tally |-> NoTally, taught |-> <<>>]

Change == changes < MaxLearned /\ changes' = changes + 1

\* After a repair.
Learn ==
  /\ Change
  /\ \E pair \in ErrorLists, changed \in SUBSET {e.line : e \in Errors} :
       LET found == extract_patterns_from_diff(pair.before, pair.after, changed) IN
       /\ found # <<>>
       /\ patterns' = MergeAll(patterns, found)
       /\ tally' = WithFound(tally, found)
  /\ UNCHANGED <<offered, memoryVars, files, kept>>

\* Before a repair.
Offer ==
  /\ \E e \in Errors : offered' = find_matching(e) /\ offered' # offered
  /\ UNCHANGED <<patterns, tally, memoryVars, files, changes, kept>>

\* record_success and record_failure
Record(won) ==
  /\ Change /\ offered # <<>>
  /\ patterns' = [k \in DOMAIN patterns |->
       IF k # Min(Index(offered[1])) THEN patterns[k]
       ELSE IF won THEN [patterns[k] EXCEPT !.won = @ + 1]
       ELSE [patterns[k] EXCEPT !.lost = @ + 1]]
  /\ tally' = Tried(tally, offered[1], won)
  /\ offered' = <<>>
  /\ UNCHANGED <<memoryVars, files, kept>>

SavePatterns ==
  /\ files' = [files EXCEPT !.patterns = Intact(patterns)]
  /\ kept' = [kept EXCEPT !.tally = tally]
  /\ UNCHANGED <<patternVars, memoryVars, changes>>

\* load_with_seeds in a new process: a file that does not parse is an empty store.
LoadPatterns ==
  /\ patterns' = WithSeeds(files.patterns.list)
  /\ tally' = Known(IF files.patterns.torn THEN NoTally ELSE kept.tally)
  /\ offered' = <<>>
  /\ UNCHANGED <<memoryVars, files, changes, kept>>

\* The process ends while it writes the file.
TearPatterns ==
  /\ Change
  /\ files' = [files EXCEPT !.patterns = Torn]
  /\ patterns' = WithSeeds(<<>>) /\ tally' = Known(NoTally) /\ offered' = <<>>
  /\ UNCHANGED <<memoryVars, kept>>

PatternNext ==
  \/ Learn \/ Offer \/ Record(TRUE) \/ Record(FALSE)
  \/ SavePatterns \/ LoadPatterns \/ TearPatterns

AddEntry ==
  /\ Change
  /\ \E sig \in Signatures, score \in Scores :
       /\ entries' = add_entry(entries, [sig |-> sig, score |-> score])
       /\ taught' = [h \in DOMAIN taught \union {sig.hash} |->
            IF h \notin DOMAIN taught THEN score
            ELSE IF h = sig.hash /\ score > taught[h] THEN score ELSE taught[h]]
  /\ UNCHANGED <<shown, patternVars, files, kept>>

ShowSimilar ==
  /\ \E sig \in Signatures : shown' = find_similar(sig, 1)
  /\ UNCHANGED <<entries, taught, patternVars, files, changes, kept>>

SaveMemory ==
  /\ files' = [files EXCEPT !.entries = Intact(entries)]
  /\ kept' = [kept EXCEPT !.taught = taught]
  /\ UNCHANGED <<patternVars, memoryVars, changes>>

LoadMemory ==
  /\ entries' = files.entries.list
  /\ taught' = IF files.entries.torn THEN <<>> ELSE kept.taught
  /\ shown' = <<>>
  /\ UNCHANGED <<patternVars, files, changes, kept>>

TearMemory ==
  /\ Change
  /\ files' = [files EXCEPT !.entries = Torn]
  /\ entries' = <<>> /\ taught' = <<>> /\ shown' = <<>>
  /\ UNCHANGED <<patternVars, kept>>

MemoryNext == AddEntry \/ ShowSimilar \/ SaveMemory \/ LoadMemory \/ TearMemory

=============================================================================
