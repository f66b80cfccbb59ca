---------------------------- MODULE MCWarmStart -----------------------------
(***************************************************************************)
(* Instances of WarmStart for TLC.                                         *)
(***************************************************************************)
EXTENDS WarmStart, TLC

T(compiles, errors, unsafe, score) ==
  [compiles |-> compiles, errors |-> errors, unsafe |-> unsafe, astUnsafe |-> unsafe,
   score |-> score, hints |-> 0, substance |-> TRUE, mismatches |-> 0, tokens |-> 1]

Good   == T(TRUE, 0, 0, 90)
Unsafe == T(TRUE, 0, 3, 72)
Broken == T(FALSE, 3, 0, 55)

ModuleSymmetry == Permutations(FileModules)

MCTexts == {Good, Unsafe, Broken}
=============================================================================
