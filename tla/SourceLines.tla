----------------------------- MODULE SourceLines -----------------------------
(***************************************************************************)
(* Source texts as the line tools of Noricum see them: sequences of lines, *)
(* each known by how it begins, the name it defines, imports or uses, and  *)
(* its braces.  Four tools each have a way of their own to find where the  *)
(* item that begins on a line ends; they are kept apart here, because they *)
(* do not agree.                                                           *)
(***************************************************************************)
EXTENDS Integers, Sequences, SequencesExt, FiniteSetsExt

(***************************************************************************)
(* kind    how the line begins                                             *)
(* name    what it defines, imports, calls or names, or ""                 *)
(* open, close   braces of the code                                        *)
(* quoted  an opening brace inside a string literal                        *)
(***************************************************************************)
Kinds ==
  {"fence", "innerattr", "attr", "innerdoc", "comment", "use", "nesteduse",
   "winuse", "extern", "derive", "struct", "const", "constfn", "fn", "genericfn",
   "clonefn", "sig", "param", "optparam", "mutparam", "iflet", "ifletref", "impl",
   "cfg", "boundary", "call", "field", "dynfield", "alias", "code", "wrong", "todo", "end"}

Line(kind, name, open, close) ==
  [kind |-> kind, name |-> name, open |-> open, close |-> close, quoted |-> 0]

Code(kind, name) == Line(kind, name, 0, 0)
Opening(kind, name) == Line(kind, name, 1, 0)
OneLine(kind, name) == Line(kind, name, 1, 1)
End == Line("end", "", 0, 1)

IsFn(l) == l.kind \in {"fn", "genericfn", "clonefn", "sig", "constfn"}

\* A line that begins with fn or pub fn.
StartsFn(l) == l.kind \in {"fn", "genericfn", "clonefn", "sig"}

(***************************************************************************)
(* Depths.  Raw counts every brace character, Net skips those in strings   *)
(* (check_brace_balance).                                                  *)
(***************************************************************************)
Raw(l) == l.open + l.quoted - l.close
Net(l) == l.open - l.close

RawDepth(text, from, to) ==
  LET depth[i \in from - 1 .. to] == IF i < from THEN 0 ELSE depth[i - 1] + Raw(text[i])
  IN depth[to]

NetDepth(text, to) ==
  LET depth[i \in 0 .. to] == IF i = 0 THEN 0 ELSE depth[i - 1] + Net(text[i])
  IN depth[to]

BraceBalance(text) == NetDepth(text, Len(text))

\* A text that never closes more than it opened and closes everything.
WellFormed(text) ==
  /\ \A i \in 1 .. Len(text) : NetDepth(text, i) >= 0
  /\ BraceBalance(text) = 0

Opened(text, from, to) == \E j \in from .. to : text[j].open + text[j].quoted > 0

FirstOr(S, default) == IF S = {} THEN default ELSE Min(S)

\* skip_function_body: the line after the first one that closes what was opened.
SkipFunctionBody(text, i) ==
  1 + FirstOr({k \in i .. Len(text) : Opened(text, i, k) /\ RawDepth(text, i, k) <= 0},
              Len(text))

\* skip_braced_block: a first line that opens nothing is the whole item.
SkipBracedBlock(text, i) ==
  1 + FirstOr({k \in i .. Len(text) : RawDepth(text, i, k) <= 0}, Len(text))

\* skip_braced_block_lines: never less than two lines.
SkipBracedBlockLines(text, i) ==
  1 + FirstOr({k \in i + 1 .. Len(text) : RawDepth(text, i, k) <= 0}, Len(text))

\* find_closing_brace: the last line of the item, or its first if there is none.
FindClosingBrace(text, i) ==
  FirstOr({k \in i .. Len(text) : Opened(text, i, k) /\ RawDepth(text, i, k) = 0}, i)

\* The text without the lines from a range's first up to its second place; a
\* range that begins inside another one is passed over.
PassLine(done, text, i, ranges) ==
  IF i < done.next THEN done
  ELSE IF \E r \in ranges : r[1] = i
       THEN [lines |-> done.lines, next |-> (CHOOSE r \in ranges : r[1] = i)[2]]
       ELSE [lines |-> Append(done.lines, text[i]), next |-> i + 1]

Without(text, ranges) ==
  LET after[i \in 0 .. Len(text)] ==
        IF i = 0 THEN [lines |-> <<>>, next |-> 1]
        ELSE PassLine(after[i - 1], text, i, ranges)
  IN after[Len(text)].lines

WithoutLines(text, places) == Without(text, {<<i, i + 1>> : i \in places})

\* Every line changed by Change.
Mapped(text, Change(_)) == [i \in 1 .. Len(text) |-> Change(i)]

=============================================================================
