------------------------------ MODULE Assembly ------------------------------
(***************************************************************************)
(* The making of one text from those of the modules                        *)
(* (noricum-core/src/assembly.rs): imports are collected at the top, and a *)
(* type or constant that an earlier module, or the type contract, has      *)
(* defined is taken out of the later ones.                                 *)
(***************************************************************************)
EXTENDS SourceLines

\* extract_definition_name; of a `const fn` it reads "fn".
Defines(l) == l.kind \in {"struct", "const", "constfn"}
DefinitionName(l) == IF l.kind = "constfn" THEN "fn" ELSE l.name

IsUse(l) == l.kind \in {"use", "nesteduse", "winuse"}

\* dedup_module_definitions: what is left of a text when the names in defined
\* are taken, the names that are taken then, and the imports.
DeduplicateLine(done, text, i) ==
  IF i < done.next THEN done
  ELSE IF IsUse(text[i]) THEN [done EXCEPT !.uses = Append(@, text[i])]
  ELSE IF ~Defines(text[i])
       THEN [done EXCEPT !.lines = Append(@, text[i])]
  ELSE IF DefinitionName(text[i]) \in done.defined
       THEN [done EXCEPT !.next = SkipBracedBlock(text, i)]
  ELSE [done EXCEPT !.lines = Append(@, text[i]),
                    !.defined = @ \union {DefinitionName(text[i])}]

Deduplicated(text, defined) ==
  LET after[i \in 0 .. Len(text)] ==
        IF i = 0 THEN [lines |-> <<>>, uses |-> <<>>, defined |-> defined, next |-> 1]
        ELSE DeduplicateLine(after[i - 1], text, i)
  IN after[Len(text)]

\* merge_use_statements: each import once; one with nested braces is of neither
\* form it knows and is dropped.  The order of imports is left out.
MergedUses(uses) ==
  LET Again(i) == \E k \in 1 .. i - 1 : uses[k].kind = uses[i].kind /\ uses[k].name = uses[i].name
  IN WithoutLines(uses, {i \in 1 .. Len(uses) : uses[i].kind = "nesteduse" \/ Again(i)})

NoFences(text) == WithoutLines(text, {i \in 1 .. Len(text) : text[i].kind = "fence"})

\* Slip: each module is compared with the contract only.
AssembledApart(contract, modules) ==
  LET names == {DefinitionName(l) : l \in {m \in ToSet(contract) : Defines(m)}}
      parts == [i \in 1 .. Len(modules) |-> Deduplicated(NoFences(modules[i]), names)]
  IN MergedUses(FlattenSeq([i \in 1 .. Len(modules) |-> parts[i].uses])) \o contract
     \o FlattenSeq([i \in 1 .. Len(modules) |-> <<Code("boundary", "")>> \o parts[i].lines])

\* assemble_module_outputs
AddModule(acc, m) ==
  LET d == Deduplicated(NoFences(m), acc.defined)
  IN [uses |-> acc.uses \o d.uses,
      lines |-> IF d.lines = <<>> THEN acc.lines
                ELSE Append(acc.lines, Code("boundary", "")) \o d.lines,
      defined |-> d.defined]

Assembled(contract, modules) ==
  LET names == {DefinitionName(l) : l \in {m \in ToSet(contract) : Defines(m)}}
      after[n \in 0 .. Len(modules)] ==
        IF n = 0 THEN [uses |-> <<>>, lines |-> <<>>, defined |-> names]
        ELSE AddModule(after[n - 1], modules[n])
      all == after[Len(modules)]
  IN MergedUses(all.uses) \o contract \o all.lines

=============================================================================
