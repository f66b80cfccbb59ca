------------------------------ MODULE Harness ------------------------------
(***************************************************************************)
(* The C main() written around a library function that has none            *)
(* (noricum-tools/src/harness_gen.rs), so that it can be compared with its *)
(* translation.  A unit is one function and the lines of its file; a line  *)
(* is what parse_c_signature looks at:                                     *)
(*   code    not empty, a comment or a directive                           *)
(*   name    how the line's first mention of the function goes on: "none"  *)
(*           (not mentioned), "opens" (with a parenthesis), "other"        *)
(*   before  there is text before it, which is taken for the return type   *)
(*   closed  there is a closing parenthesis on the line                    *)
(*   params  the parameters, by their declared types                       *)
(***************************************************************************)
EXTENDS Integers, Sequences, FiniteSets, FiniteSetsExt

FileLines == [code : BOOLEAN, name : {"none", "opens", "other"}, before : BOOLEAN,
              closed : BOOLEAN, params : Seq(STRING)]

\* Types of parameters, as far as they are told apart: "callback" is int (*f)(int),
\* "callback2" the same with a space, int (* f)(int), and "array" int a[].
Unsupported == {"void*", "struct", "FILE", "callback2"}

Callbacks == {"callback", "callback2"}

\* The name of an array has its brackets, that of a function its parenthesis and star.
ReadType(type) == IF type \in {"callback", "array"} THEN "int" ELSE type

\* parse_params, of the text up to the first closing parenthesis: a pointer to a
\* function is the last parameter that is read.
ParsedParams(params) ==
  LET ends == {p \in DOMAIN params : params[p] \in Callbacks}
      n == IF ends = {} THEN Len(params) ELSE Min(ends)
  IN [p \in 1 .. n |-> ReadType(params[p])]

\* A line in which the name is followed by a parenthesis and preceded by text
\* declares the function, or calls it.
Names(line) == line.code /\ line.name = "opens" /\ line.before

NoSignature == [found |-> FALSE, params |-> <<>>]

\* parse_c_signature: a parenthesis left open on the first such line ends it.
Signature(lines) ==
  LET at == {i \in DOMAIN lines : Names(lines[i])}
  IN IF at = {} \/ ~lines[Min(at)].closed
     THEN NoSignature
     ELSE [found |-> TRUE, params |-> ParsedParams(lines[Min(at)].params)]

\* What a parameter of a type is given; whatever has no case is an integer.
TestValues(type) ==
  IF type = "string" THEN <<"hello", "">>
  ELSE IF type = "double" THEN <<"0.0", "1.0", "-1.5", "3.14">>
  ELSE IF type = "ints" THEN <<"{1, 2, 3, 4, 5}">>
  ELSE <<"0", "1", "-1", "42">>

\* Slip: as many calls as the shortest list of values has.
CallsZipped(params) ==
  IF params = <<>> THEN <<<<>>>>
  ELSE LET n == Min({Len(TestValues(params[p])) : p \in DOMAIN params})
       IN [i \in 1 .. n |-> [p \in DOMAIN params |-> TestValues(params[p])[i]]]

\* generate_param_test_values: as many calls as the longest list has, the
\* shorter ones start again.
Calls(params) ==
  IF params = <<>> THEN <<<<>>>>
  ELSE LET n == Max({Len(TestValues(params[p])) : p \in DOMAIN params})
       IN [i \in 1 .. n |->
            [p \in DOMAIN params |->
              LET values == TestValues(params[p])
              IN values[((i - 1) % Len(values)) + 1]]]

NoHarness == [some |-> FALSE, calls |-> <<>>]

\* generate_test_harness
TestHarness(unit) ==
  LET signature == Signature(unit.lines)
  IN IF /\ signature.found
        /\ \A p \in DOMAIN signature.params : signature.params[p] \notin Unsupported
     THEN [some |-> TRUE, calls |-> Calls(signature.params)]
     ELSE NoHarness

=============================================================================
