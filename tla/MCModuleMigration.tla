------------------------- MODULE MCModuleMigration --------------------------
(***************************************************************************)
(* Instances of ModuleMigration for TLC: texts that differ in what the     *)
(* module's migration decides on.                                          *)
(***************************************************************************)
EXTENDS ModuleMigration

T(compiles, errors, unsafe, ast, score, mismatches) ==
  [compiles |-> compiles, errors |-> errors, unsafe |-> unsafe, astUnsafe |-> ast,
   score |-> score, hints |-> 0, substance |-> TRUE, mismatches |-> mismatches,
   tokens |-> 1]

Good   == T(TRUE, 0, 0, 0, 90, 0)      \* passes
Quoted == T(TRUE, 0, 0, 0, 85, 0)      \* passes, with a '{' literal
Clumsy == [T(TRUE, 0, 1, 1, 45, 1) EXCEPT !.hints = 2]
Plain  == T(TRUE, 0, 2, 2, 70, 0)      \* compiles, fine only with a diff test
Broken == T(FALSE, 2, 1, 0, 60, 0)     \* the unsafe block is of the context
Cut    == T(FALSE, 1, 0, 0, 50, 0)     \* truncated
Wreck  == T(FALSE, 101, 0, 0, 30, 0)   \* hopeless
Stub   == [T(FALSE, 1, 0, 0, 0, 0) EXCEPT !.substance = FALSE]

MCTexts == {Good, Quoted, Clumsy, Plain, Broken, Cut, Wreck, Stub}
MCOpen == {Quoted, Cut}
=============================================================================
