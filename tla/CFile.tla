-------------------------------- MODULE CFile --------------------------------
(***************************************************************************)
(* C files and the ways Noricum divides them                               *)
(* (noricum-tools/src/ast.rs).  A file is a sequence of items; tree-sitter *)
(* is taken at its word for where they begin and end.                      *)
(***************************************************************************)
EXTENDS Integers, Sequences, SequencesExt, FiniteSetsExt

(***************************************************************************)
(* kind    "fn", "type", "proto" or "table" (a static array)               *)
(* name    what the item defines                                           *)
(* lines   of the item; table: lines of a static array in it, 0 if none    *)
(* prefix  first part of the name, by which modules are made               *)
(* model   is_data_model_function: a short constructor, getter or setter   *)
(* calls   functions of the file its body mentions                         *)
(***************************************************************************)
CItem(kind, name, lines) ==
  [kind |-> kind, name |-> name, lines |-> lines, prefix |-> name, model |-> FALSE,
   calls |-> {}, table |-> IF kind = "table" THEN lines ELSE 0]

\* What a list has at some of its places, in its order.
ItemsAt(list, places) ==
  LET taken[n \in 0 .. Len(list)] ==
        IF n = 0 THEN <<>>
        ELSE IF n \in places THEN Append(taken[n - 1], list[n]) ELSE taken[n - 1]
  IN taken[Len(list)]

Functions(c) == ItemsAt(c, {i \in DOMAIN c : c[i].kind = "fn"})
HasTypes(c) == \E x \in ToSet(c) : x.kind = "type"
NamesOf(items) == {x.name : x \in ToSet(items)}
CLines(items) == FoldLeft(LAMBDA n, x : n + x.lines, 0, items)

\* What every chunk is given: all items, of the functions only their heads.
SharedContext(c) == [i \in DOMAIN c |-> IF c[i].kind = "fn" THEN [c[i] EXCEPT !.kind = "proto"] ELSE c[i]]

\* Slip: the last group is not flushed.
GroupsUnflushed(fs, target) ==
  LET Add(g, f) == IF g.now # <<>> /\ CLines(g.now) + f.lines > target
                   THEN [done |-> Append(g.done, g.now), now |-> <<f>>]
                   ELSE [g EXCEPT !.now = Append(@, f)]
  IN FoldLeft(Add, [done |-> <<>>, now |-> <<>>], fs).done

\* A function joins the group that is being filled, or begins the next one.
AddToGroups(g, f, target) ==
  IF g.now # <<>> /\ CLines(g.now) + f.lines > target
  THEN [done |-> Append(g.done, g.now), now |-> <<f>>]
  ELSE [done |-> g.done, now |-> Append(g.now, f)]

\* Functions in their order, as many in a group as the target allows, never none.
Groups(fs, target) ==
  LET after[n \in 0 .. Len(fs)] ==
        IF n = 0 THEN [done |-> <<>>, now |-> <<>>] ELSE AddToGroups(after[n - 1], fs[n], target)
      end == after[Len(fs)]
  IN IF end.now = <<>> THEN end.done ELSE Append(end.done, end.now)

Chunk(c, items, data) == [context |-> SharedContext(c), items |-> items, data |-> data]
ChunksOf(c, groups) == [i \in DOMAIN groups |-> Chunk(c, groups[i], FALSE)]

\* chunk_c_source
ChunkSource(c, target) ==
  IF Functions(c) = <<>> THEN <<[context |-> c, items |-> <<>>, data |-> FALSE]>>
  ELSE ChunksOf(c, Groups(Functions(c), target))

\* detect_static_data_blocks: arrays of more than 30 lines, also those in functions.
StaticBlocks(c) == ItemsAt(c, {i \in DOMAIN c : c[i].table > 30})

\* Slip: the tables come before the types.
StructuralDataFirst(c, target) ==
  LET fs == Functions(c)
      models == ItemsAt(fs, {i \in DOMAIN fs : fs[i].model})
      others == ItemsAt(fs, {i \in DOMAIN fs : ~fs[i].model})
      tables == StaticBlocks(c)
  IN IF ~HasTypes(c) \/ models = <<>> THEN ChunkSource(c, target)
     ELSE (IF tables = <<>> THEN <<>> ELSE <<Chunk(c, tables, TRUE)>>)
          \o <<Chunk(c, models, FALSE)>> \o ChunksOf(c, Groups(others, target))

\* chunk_c_source_structural: the functions of the data model, the tables, the rest.
Structural(c, target) ==
  LET fs == Functions(c)
      models == ItemsAt(fs, {i \in DOMAIN fs : fs[i].model})
      others == ItemsAt(fs, {i \in DOMAIN fs : ~fs[i].model})
      tables == StaticBlocks(c)
  IN IF ~HasTypes(c) \/ models = <<>> THEN ChunkSource(c, target)
     ELSE <<Chunk(c, models, FALSE)>>
          \o (IF tables = <<>> THEN <<>> ELSE <<Chunk(c, tables, TRUE)>>)
          \o ChunksOf(c, Groups(others, target))

-----------------------------------------------------------------------------
(***************************************************************************)
(* split_into_modules: functions by prefix, in the order of the prefixes,  *)
(* the single ones together.  A group above the limit is divided.          *)
(***************************************************************************)
NamedModule(name, part, fs) == [name |-> name, part |-> part, functions |-> fs]

\* sub_split_function_group: parts are numbered only when there are several.
SubSplit(name, fs, target) ==
  LET parts == Groups(fs, target)
  IN [i \in DOMAIN parts |-> NamedModule(name, IF Len(parts) = 1 THEN 0 ELSE i, parts[i])]

ModulesOfGroup(name, fs, limit) ==
  IF CLines(fs) > limit THEN SubSplit(name, fs, (limit * 3) \div 5)
  ELSE <<NamedModule(name, 0, fs)>>

\* extract_function_prefix
Group(c, prefix) ==
  LET fs == Functions(c) IN ItemsAt(fs, {i \in DOMAIN fs : fs[i].prefix = prefix})

SplitIntoModules(c, prefixes, limit) ==
  LET Alone(p) == Len(Group(c, p)) < 2 \/ p = "main"
      shared == ItemsAt(prefixes, {i \in DOMAIN prefixes : ~Alone(prefixes[i])})
      misc == FlattenSeq([i \in DOMAIN prefixes |->
                            IF Alone(prefixes[i]) THEN Group(c, prefixes[i]) ELSE <<>>])
  IN IF Len(Functions(c)) < 4 THEN <<NamedModule("main", 0, Functions(c))>>
     ELSE FlattenSeq([i \in DOMAIN shared |-> ModulesOfGroup(shared[i], Group(c, shared[i]), limit)])
          \o (IF misc = <<>> THEN <<>> ELSE ModulesOfGroup("misc", misc, limit))

=============================================================================
