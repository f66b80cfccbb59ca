----------------------------- MODULE RepairRules -----------------------------
(***************************************************************************)
(* The mechanical repairs of compile errors                                *)
(* (noricum-tools/src/repair_rules.rs).  A rule takes a text and the errors *)
(* rustc gave for the text the first rule started from: lines that an       *)
(* earlier rule removed have moved the later ones, the errors do not know.  *)
(* An error names a code, a line and a name.                               *)
(***************************************************************************)
EXTENDS SourceLines

CONSTANTS
  ExternalCrates,   \* crates that are not there when one file is compiled
  Stripped,         \* a field name with the prefix m_ to the one without
  Prefixed          \* and back

Codes == {"innerattr", "E0753", "E0252", "E0774", "E0428", "E0119", "E0432", "windows",
          "bounds", "E0382", "E0609", "nomethod", "SYNTAX"}

At(errors, code) == {e.line : e \in {x \in errors : x.code = code}}
Names(errors, code) == {e.name : e \in {x \in errors : x.code = code}}
As(l, kind) == [l EXCEPT !.kind = kind]
Commented(l) == [l EXCEPT !.kind = "comment", !.open = 0, !.close = 0, !.quoted = 0]

-----------------------------------------------------------------------------
\* R0
StripFences(text, errors) ==
  WithoutLines(text, {i \in 1 .. Len(text) : text[i].kind = "fence"})

\* R5 and R6: the first five lines are the crate root.
InnerAttributes(text, errors) ==
  Mapped(text, LAMBDA i :
    IF i \in At(errors, "innerattr") /\ i > 5 /\ text[i].kind = "innerattr"
    THEN As(text[i], "attr") ELSE text[i])

InnerDocs(text, errors) ==
  Mapped(text, LAMBDA i :
    IF i \in At(errors, "E0753") /\ i > 5 /\ text[i].kind = "innerdoc"
    THEN As(text[i], "comment") ELSE text[i])

\* The places of the lines of the given kinds and name, but for the first.
Repeats(text, kinds, name) ==
  LET all == {i \in 1 .. Len(text) : text[i].kind \in kinds /\ text[i].name = name}
  IN all \ {FirstOr(all, 0)}

\* R7: of the imports of a name that rustc calls defined twice, the first stays.
DedupUses(text, errors) ==
  WithoutLines(text, UNION {Repeats(text, {"use", "winuse"}, n) : n \in Names(errors, "E0252")})

\* R8: a derive that stands before no struct goes.
OrphanedDerives(text, errors) ==
  WithoutLines(text,
    {j \in At(errors, "E0774") \intersect (1 .. Len(text)) :
       /\ text[j].kind = "derive"
       /\ ~(j < Len(text) /\ text[j + 1].kind = "struct")})

\* The extents of the functions of a name, each looked for after the one before.
Definitions(text, name) ==
  LET from[i \in 1 .. Len(text) + 1] ==
        IF i > Len(text) THEN {}
        ELSE IF IsFn(text[i]) /\ text[i].name = name
             THEN {<<i, SkipFunctionBody(text, i)>>} \union from[SkipFunctionBody(text, i)]
             ELSE from[i + 1]
  IN from[1]

Later(ranges) == {r \in ranges : \E q \in ranges : q[1] < r[1]}

\* Slip: every definition of the name goes.
DedupFunctionsAll(text, errors) ==
  Without(text, UNION {Definitions(text, n) : n \in Names(errors, "E0428")})

\* R2: of the functions of a name that rustc calls defined twice, the first stays.
DedupFunctions(text, errors) ==
  Without(text, UNION {Later(Definitions(text, n)) : n \in Names(errors, "E0428")})

\* Slip: the first line of the implementation goes, and its body stays.
ConflictingImplsLine(text, errors) ==
  WithoutLines(text, UNION {Repeats(text, {"impl"}, n) : n \in Names(errors, "E0119")})

\* R9: the second implementation of a trait for a type goes, if it is near the error.
ConflictingImpls(text, errors) ==
  LET Near(i, e) == i >= e.line - 3 /\ i <= Min({e.line + 2, Len(text)}) + 5
      Second(e) == FirstOr({i \in Repeats(text, {"impl"}, e.name) : Near(i, e)}, 0)
      found == {Second(e) : e \in {x \in errors : x.code = "E0119"}} \ {0}
  IN Without(text, {<<i, SkipFunctionBody(text, i)>> : i \in found})

\* R10: an import of an external crate on a line with an error, and any
\* `extern crate` of one, become comments.
ExternalImports(text, errors) ==
  Mapped(text, LAMBDA i :
    IF /\ text[i].name \in ExternalCrates
       /\ \/ text[i].kind = "use" /\ i \in At(errors, "E0432")
          \/ text[i].kind = "extern"
    THEN Commented(text[i]) ELSE text[i])

\* R11: code for Windows becomes a comment, with the item after its attribute.
WindowsCode(text, errors) ==
  LET items == UNION {i .. SkipFunctionBody(text, i + 1) - 1 :
                        i \in {j \in 1 .. Len(text) : text[j].kind = "cfg"}}
  IN IF At(errors, "windows") = {} THEN text
     ELSE Mapped(text, LAMBDA i :
            IF i \in items \/ text[i].kind = "winuse" THEN Commented(text[i]) ELSE text[i])

\* R1: the generic function around an error gets its missing bound.  The search
\* goes upwards and ends at a function that is not generic, but for the line itself.
CloneBounds(text, errors) ==
  LET Enclosing(n) ==
        FirstOr({i \in 1 .. n : /\ text[i].kind \in {"genericfn", "clonefn"}
                                /\ \A j \in i + 1 .. n - 1 : ~StartsFn(text[j])
                                /\ text[n].kind \in {"genericfn", "clonefn"} => i = n}, 0)
      found == {Enclosing(n) : n \in At(errors, "bounds") \intersect (1 .. Len(text))}
  IN Mapped(text, LAMBDA i :
       IF i \in found /\ text[i].kind = "genericfn" THEN As(text[i], "clonefn") ELSE text[i])

\* R3: a moved Option<&mut T> parameter is bound as mut, and destructured by ref mut.
MutOptionRefs(text, errors) ==
  LET moved == {n \in Names(errors, "E0382") :
                  \E i \in 1 .. Len(text) : /\ text[i].name = n
                                            /\ text[i].kind \in {"optparam", "mutparam"}}
  IN Mapped(text, LAMBDA i :
       IF text[i].name \notin moved THEN text[i]
       ELSE CASE text[i].kind = "optparam" -> As(text[i], "mutparam")
              [] text[i].kind = "iflet" -> As(text[i], "ifletref")
              [] OTHER -> text[i])

-----------------------------------------------------------------------------
Stub(name) == <<Code("comment", ""), OneLine("fn", name), Code("comment", "")>>

(***************************************************************************)
(* R12: a function that is cut off before the comment that begins the next *)
(* module is replaced by a stub.  The search goes back at most nine lines, *)
(* over parameters and comments, and never looks at the first line.  What  *)
(* it removes is counted in places of the original text.                   *)
(***************************************************************************)
PassedOver == {"comment", "innerdoc", "boundary", "param", "optparam", "mutparam",
               "derive", "attr", "innerattr", "cfg", "fence"}

CutOffBefore(text, i) ==
  LET far == {j \in 2 .. i - 1 :
                /\ j > i - 10
                /\ \A k \in j + 1 .. i - 1 :
                     text[k].kind \in PassedOver}
      found == {j \in far : text[j].kind = "sig"}
  IN IF found = {} THEN 0 ELSE Max(found)

BoundaryLine(done, text, i) ==
  LET j == IF text[i].kind = "boundary" THEN CutOffBefore(text, i) ELSE 0
  IN IF j = 0 THEN Append(done, text[i])
     ELSE SubSeq(done, 1, Min({j - 1, Len(done)})) \o Append(Stub(text[j].name), text[i])

TruncatedAtBoundary(text, errors) ==
  LET after[i \in 0 .. Len(text)] ==
        IF i = 0 THEN <<>> ELSE BoundaryLine(after[i - 1], text, i)
  IN after[Len(text)]

\* R13: a field that is not there is renamed, on the line of the error and the
\* ones before and after it; one error after the other, one for each line.
FieldPrefixes(text, errors) ==
  LET Other(n) == IF n \in DOMAIN Stripped THEN Stripped[n] ELSE Prefixed[n]
      Missing(n, line) == /\ line \in 1 .. Len(text)
                          /\ \E e \in errors : e.code = "E0609" /\ e.line = line /\ e.name = n
      Renamed(l, line) ==
        IF l.kind = "field" /\ Missing(l.name, line) THEN [l EXCEPT !.name = Other(@)] ELSE l
  IN Mapped(text, LAMBDA i : Renamed(Renamed(Renamed(text[i], i - 1), i), i + 1))

\* R14: a call of a method that is not there becomes one of the free function of
\* that name.
MethodsToFunctions(text, errors) ==
  Mapped(text, LAMBDA i :
    IF /\ text[i].kind = "call"
       /\ \E f \in ToSet(text) : f.kind \in {"fn", "sig"} /\ f.name = text[i].name
       /\ \E e \in errors : e.code = "nomethod" /\ e.line = i /\ e.name = text[i].name
    THEN As(text[i], "code") ELSE text[i])

\* R4: a text with open braces is cut after its last line at depth zero, or
\* closed if it has none.
CloseBraces(text, errors) ==
  LET whole == {i \in 1 .. Len(text) : NetDepth(text, i) = 0}
      cut == Max(whole)
  IN IF BraceBalance(text) <= 0 THEN text
     ELSE IF whole # {} THEN Append(SubSeq(text, 1, cut), Code("comment", ""))
     ELSE Append(text, Line("end", "", 0, BraceBalance(text)))

\* apply_all_rules: the rules in their order.
RuleCount == 15
Rule(n, text, errors) ==
  CASE n = 1 -> StripFences(text, errors)
    [] n = 2 -> InnerAttributes(text, errors)
    [] n = 3 -> InnerDocs(text, errors)
    [] n = 4 -> DedupUses(text, errors)
    [] n = 5 -> OrphanedDerives(text, errors)
    [] n = 6 -> DedupFunctions(text, errors)
    [] n = 7 -> ConflictingImpls(text, errors)
    [] n = 8 -> ExternalImports(text, errors)
    [] n = 9 -> WindowsCode(text, errors)
    [] n = 10 -> CloneBounds(text, errors)
    [] n = 11 -> MutOptionRefs(text, errors)
    [] n = 12 -> TruncatedAtBoundary(text, errors)
    [] n = 13 -> FieldPrefixes(text, errors)
    [] n = 14 -> MethodsToFunctions(text, errors)
    [] n = 15 -> CloseBraces(text, errors)

=============================================================================
