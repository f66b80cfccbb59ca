--------------------------- MODULE AssembledRepair ---------------------------
(***************************************************************************)
(* The way of a large file from the type contract to its repaired text:    *)
(* the contract (generate_type_contract), the assembly of the modules'     *)
(* texts, and the hybrid repair of what they make (hybrid_repair): the     *)
(* rules one after the other, then up to five repairs of one function.     *)
(*                                                                         *)
(* The model and rustc are the environment.  rustc is an operator on texts *)
(* here, because the rules act on what it says and on the lines it names.  *)
(***************************************************************************)
EXTENDS Assembly, RepairRules

CONSTANTS
  ModuleTexts,       \* what the modules may have been translated to
  ContractReplies,   \* what a model may answer to the contract prompt
  FunctionReplies    \* what it may answer when asked for a function

ASSUME AssembledRepairAssumption ==
  /\ \A ts \in ModuleTexts : ts \in Seq(ToSet(ts)) /\ \A t \in ToSet(ts) : t \in Seq(ToSet(t))
  /\ \A t \in ContractReplies \union FunctionReplies : t \in Seq(ToSet(t))

MaxContractRetries == 3
MaxSurgical == 5

VARIABLES
  stage,
  translated, \* the texts of the modules, in order
  attempts,   \* contract attempts so far
  contract,   \* the contract, or no lines
  rust,       \* the assembled text
  before,     \* the text the rules began with
  errors,     \* the errors rustc gave for it
  rule,       \* the next rule
  cycle,      \* surgical repairs so far
  wanted,     \* the name and place of the function that was asked for, and the
              \* types and heads that were shown with it
  calls,      \* calls that were counted
  resolved    \* what hybrid_repair returns

repairVars == <<stage, translated, attempts, contract, rust, before, errors, rule, cycle,
                wanted, calls, resolved>>

-----------------------------------------------------------------------------
(***************************************************************************)
(* rustc.  A text that does not parse is only told its syntax errors; the  *)
(* others are all told.                                                    *)
(***************************************************************************)
Error(code, line, name) == [code |-> code, line |-> line, name |-> name]

\* A signature that is not followed by its body, after parameters.
CutOff(t, i) ==
  /\ t[i].kind = "sig"
  /\ LET next == FirstOr({j \in i + 1 .. Len(t) : t[j].kind # "param"}, 0)
     IN next = 0 \/ t[next].open = 0

SyntaxErrors(t) ==
  {Error("SYNTAX", i, "") : i \in {j \in 1 .. Len(t) : \/ t[j].kind = "fence"
                                                       \/ CutOff(t, j)
                                                       \/ NetDepth(t, j) < 0}}
  \union (IF BraceBalance(t) > 0 THEN {Error("SYNTAX", Len(t), "")} ELSE {})

\* Items at the top, where a name may be defined once.
Top(t) == {i \in 1 .. Len(t) : NetDepth(t, i - 1) = 0}
Twice(t, kinds, code) ==
  LET items == {i \in Top(t) : t[i].kind \in kinds}
  IN {Error(code, i, t[i].name) :
        i \in {j \in items : \E k \in items : k < j /\ t[k].name = t[j].name}}

\* The first line, which an attribute or a comment for the crate may have, is none.
Marked(t, kinds, code) ==
  {Error(code, i, t[i].name) : i \in {j \in 2 .. Len(t) : t[j].kind \in kinds}}

ItemErrors(t) ==
  Twice(t, {"fn", "sig", "genericfn", "clonefn"}, "E0428")
  \union Twice(t, {"struct", "const"}, "E0428")
  \union Twice(t, {"use", "winuse"}, "E0252")
  \union Twice(t, {"impl"}, "E0119")
  \union {Error("E0774", i, "") : i \in
            {j \in 1 .. Len(t) : t[j].kind = "derive"
                                 /\ ~(j < Len(t) /\ t[j + 1].kind = "struct")}}
  \union {Error("E0432", i, t[i].name) : i \in
            {j \in 1 .. Len(t) : t[j].kind \in {"use", "extern"} /\ t[j].name \in ExternalCrates}}
  \union Marked(t, {"innerattr"}, "innerattr") \union Marked(t, {"innerdoc"}, "E0753")
  \union Marked(t, {"genericfn"}, "bounds")
  \union {e \in Marked(t, {"optparam"}, "E0382") :
            \E i \in 1 .. Len(t) : t[i].kind = "iflet" /\ t[i].name = e.name}
  \union {e \in Marked(t, {"field"}, "E0609") : e.name \in DOMAIN Stripped}
  \union Marked(t, {"call"}, "nomethod")
  \union Marked(t, {"winuse"}, "windows") \union Marked(t, {"wrong", "dynfield"}, "E0308")

Rustc(t) ==
  LET syntax == SyntaxErrors(t) IN IF syntax # {} THEN syntax ELSE ItemErrors(t)
Compiles(t) == Rustc(t) = {}

\* apply_all_rules in one step, as the contract is repaired.
AllRules(t, es) ==
  LET after[n \in 0 .. RuleCount] == IF n = 0 THEN t ELSE Rule(n, after[n - 1], es)
  IN after[RuleCount]

-----------------------------------------------------------------------------
(***************************************************************************)
(* The type contract: what is done to a model's reply before it is         *)
(* compiled (noricum-core/src/type_contract.rs).                           *)
(***************************************************************************)
\* strip_impl_blocks: a function head that opens nothing on its line loses the
\* line only.
Implements(l) == l.kind = "impl" \/ StartsFn(l)
WithoutImpls(t) ==
  Without(t,
    {<<i, IF t[i].kind # "impl" /\ t[i].open + t[i].quoted = 0 THEN i + 1
          ELSE SkipBracedBlockLines(t, i)>> :
       i \in {j \in 1 .. Len(t) : Implements(t[j])}})

\* fix_contract_compilation_issues: aliases become comments, and a type that
\* rustc would not take where it stands becomes usize.
Fixed(t) ==
  Mapped(t, LAMBDA i :
    CASE t[i].kind = "alias" -> [t[i] EXCEPT !.kind = "comment"]
      [] t[i].kind = "dynfield" -> [t[i] EXCEPT !.kind = "field"]
      [] OTHER -> t[i])

-----------------------------------------------------------------------------
(***************************************************************************)
(* Repair of one function (noricum-core/src/surgical_repair.rs).  It is    *)
(* taken out by the line of an error, and put back by its name.            *)
(***************************************************************************)
\* The lines the tool takes for the beginning of a function.
BeginsFn(l) == StartsFn(l)

Extent(t, start) == [first |-> start, last |-> FindClosingBrace(t, start)]
Nowhere == [first |-> 0, last |-> 0]

\* extract_function_at_line: the nearest function that begins at the line or
\* above it, if it reaches the line.
FunctionAt(t, line) ==
  LET above == {i \in 1 .. line : BeginsFn(t[i])}
      e == Extent(t, Max(above))
  IN IF line \notin 1 .. Len(t) \/ above = {} \/ line > e.last THEN Nowhere ELSE e

\* The first function of the name.
FunctionNamed(t, name) ==
  LET named == {i \in 1 .. Len(t) : BeginsFn(t[i]) /\ t[i].name = name}
  IN IF named = {} THEN Nowhere ELSE Extent(t, Min(named))

\* Slip: the line after the function is taken with it.
SpliceWide(t, name, fn) ==
  LET e == FunctionNamed(t, name)
  IN IF e = Nowhere THEN t
     ELSE SubSeq(t, 1, e.first - 1) \o fn \o SubSeq(t, e.last + 2, Len(t))

\* splice_function
Splice(t, name, fn) ==
  LET e == FunctionNamed(t, name)
  IN IF e = Nowhere THEN t
     ELSE SubSeq(t, 1, e.first - 1) \o fn \o SubSeq(t, e.last + 1, Len(t))

\* gather_context: the structs and enums the function names, and the heads of the
\* functions it calls.
NamesUsed(t, e) == {l.name : l \in {b \in {t[i] : i \in e.first .. e.last} :
                                      b.kind \in {"call", "code", "field"}}}

TypesNamed(t, used) ==
  {t[i] : i \in UNION {j .. FindClosingBrace(t, j) :
             j \in {k \in 1 .. Len(t) : t[k].kind = "struct" /\ t[k].name \in used}}}

Heads(t, used) == {l \in ToSet(t) : BeginsFn(l) /\ l.name \in used}

ContextOf(t, name) ==
  LET e == FunctionNamed(t, name)
      used == NamesUsed(t, e)
  IN IF e = Nowhere \/ e.first = e.last THEN {}
     ELSE TypesNamed(t, used) \union Heads(t, used \ {name})

-----------------------------------------------------------------------------
RepairInit ==
  /\ stage = "contract" /\ translated \in ModuleTexts
  /\ attempts = 0 /\ contract = <<>> /\ rust = <<>> /\ before = <<>> /\ errors = {}
  /\ rule = 1 /\ cycle = 0 /\ wanted = [name |-> "", at |-> Nowhere, context |-> {}]
  /\ calls = 0 /\ resolved = FALSE

AsContract(reply) == Fixed(WithoutImpls(NoFences(reply)))

\* generate_type_contract: a call that fails, or a reply without a type, costs an
\* attempt like one that does not compile.
AskContract ==
  /\ stage = "contract" /\ attempts < MaxContractRetries
  /\ \E reply \in ContractReplies :
       LET c == AsContract(reply)
           ruled == AllRules(c, Rustc(c))
           accepted == IF Compiles(c) THEN c ELSE IF Compiles(ruled) THEN ruled ELSE <<>>
       IN IF accepted = <<>>
          THEN attempts' = attempts + 1 /\ UNCHANGED <<stage, contract>>
          ELSE contract' = accepted /\ stage' = "assemble" /\ UNCHANGED attempts
  /\ UNCHANGED <<translated, rust, before, errors, rule, cycle, wanted, calls, resolved>>

NoContract ==
  /\ stage = "contract" /\ attempts = MaxContractRetries
  /\ stage' = "assemble"
  /\ UNCHANGED <<translated, attempts, contract, rust, before, errors, rule, cycle, wanted,
                 calls, resolved>>

Assemble ==
  /\ stage = "assemble"
  /\ rust' = Assembled(contract, translated)
  /\ stage' = "compile"
  /\ UNCHANGED <<translated, attempts, contract, before, errors, rule, cycle, wanted, calls,
                 resolved>>

Done(outcome) == stage' = "done" /\ resolved' = outcome

Compile ==
  /\ stage = "compile"
  /\ before' = rust
  /\ errors' = Rustc(rust)
  /\ \/ Compiles(rust) /\ Done(TRUE)
     \/ ~Compiles(rust) /\ stage' = "rules" /\ UNCHANGED resolved
  /\ UNCHANGED <<translated, attempts, contract, rust, rule, cycle, wanted, calls>>

\* One rule of apply_all_rules, with the errors of the text as it was before all.
ApplyRule ==
  /\ stage = "rules" /\ rule <= RuleCount
  /\ rust' = Rule(rule, rust, errors)
  /\ rule' = rule + 1
  /\ UNCHANGED <<stage, translated, attempts, contract, before, errors, cycle, wanted, calls,
                 resolved>>

Recompile ==
  /\ stage = "rules" /\ rule > RuleCount
  /\ \/ Compiles(rust) /\ Done(TRUE)
     \/ ~Compiles(rust) /\ stage' = "surgical" /\ UNCHANGED resolved
  /\ UNCHANGED <<translated, attempts, contract, rust, before, errors, rule, cycle, wanted,
                 calls>>

\* The function around the first error is asked for; an error outside every
\* function ends the repair.
AskFunction ==
  /\ stage = "surgical" /\ cycle < MaxSurgical /\ ~Compiles(rust)
  /\ LET first == Min({e.line : e \in Rustc(rust)})
         at == FunctionAt(rust, first)
     IN IF at = Nowhere THEN stage' = "check" /\ UNCHANGED wanted
        ELSE /\ wanted' = [name |-> rust[at.first].name, at |-> at,
                            context |-> ContextOf(rust, rust[at.first].name)]
             /\ stage' = "asked"
  /\ UNCHANGED <<translated, attempts, contract, rust, before, errors, rule, cycle, calls,
                 resolved>>

Answer ==
  /\ stage = "asked"
  /\ \E fn \in FunctionReplies :
       rust' = Splice(rust, wanted.name, fn)
  /\ calls' = calls + 1 /\ cycle' = cycle + 1
  /\ stage' = "surgical"
  /\ UNCHANGED <<translated, attempts, contract, before, errors, rule, wanted, resolved>>

\* A call that fails ends the repair, and is not counted.
AnswerFails ==
  /\ stage = "asked"
  /\ stage' = "check"
  /\ UNCHANGED <<translated, attempts, contract, rust, before, errors, rule, cycle, wanted,
                 calls, resolved>>

FinishSurgical ==
  /\ \/ stage = "surgical" /\ (cycle = MaxSurgical \/ Compiles(rust))
     \/ stage = "check"
  /\ Done(Compiles(rust))
  /\ UNCHANGED <<translated, attempts, contract, rust, before, errors, rule, cycle, wanted,
                 calls>>

RepairNext ==
  \/ AskContract \/ NoContract \/ Assemble
  \/ Compile \/ ApplyRule \/ Recompile
  \/ AskFunction \/ Answer \/ AnswerFails \/ FinishSurgical

RepairSpec == RepairInit /\ [][RepairNext]_repairVars

-----------------------------------------------------------------------------
\* The types a text defines outside every block.
Types(t) == {t[i].name : i \in {j \in Top(t) : t[j].kind = "struct"}}
FunctionsOf(t) == {t[i].name : i \in {j \in Top(t) : IsFn(t[j])}}
Methods(t) == {t[i].name : i \in {j \in (1 .. Len(t)) \ Top(t) : IsFn(t[j])}}
ForWindows(t) == {t[i].name : i \in {j \in 2 .. Len(t) : t[j - 1].kind = "cfg"}}
Assembling == stage \in {"compile", "rules", "surgical", "asked", "check", "done"}
Base == IF stage = "compile" THEN rust ELSE before
TrueBraces(t) == WellFormed(t) /\ \A i \in 1 .. Len(t) : t[i].quoted = 0

\* Every type of the contract and of a module is in the assembled text, once,
\* whichever of them define it (P27, P33).
TypesDefinedOnce ==
  Assembling /\ (\A m \in 1 .. Len(translated) : TrueBraces(translated[m])) =>
    /\ \A m \in 1 .. Len(translated) : Types(translated[m]) \subseteq Types(Base)
    /\ Types(contract) \subseteq Types(Base)
    /\ \A i, j \in 1 .. Len(Base) :
         Base[i].kind = "struct" /\ Base[j].kind = "struct" /\ Base[i].name = Base[j].name => i = j

\* The rules take away no function of a text, however many errors they act on one
\* after the other: each name is still defined, unless a method has it too or it
\* is for Windows.
RulesKeepFunctions ==
  stage = "rules" /\ TrueBraces(before) =>
    \A n \in FunctionsOf(before) \ (Methods(before) \union ForWindows(before)) : n \in FunctionsOf(rust)

\* A text whose braces match has matching braces when the last rule looks at it:
\* nothing is cut off that was whole.
NothingWholeIsCut ==
  stage = "rules" /\ rule = RuleCount /\ TrueBraces(before) => BraceBalance(rust) = 0

\* A surgical repair leaves every line outside the function it asked for where it
\* was, if no other function has its name.
OthersUntouched ==
  [][stage = "asked" /\ stage' = "surgical" =>
       \/ \E i, j \in 1 .. Len(rust) : /\ BeginsFn(rust[i]) /\ BeginsFn(rust[j]) /\ i # j
                                       /\ rust[i].name = wanted.name /\ rust[j].name = wanted.name
       \/ /\ SubSeq(rust', 1, wanted.at.first - 1) = SubSeq(rust, 1, wanted.at.first - 1)
          /\ \E k \in 0 .. Len(rust') :
               SubSeq(rust', k + 1, Len(rust')) = SubSeq(rust, wanted.at.last + 1, Len(rust))]_repairVars

=============================================================================
