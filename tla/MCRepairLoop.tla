---------------------------- MODULE MCRepairLoop ----------------------------
(***************************************************************************)
(* Instances of RepairLoop for TLC: texts that differ in what the loop     *)
(* decides on.                                                             *)
(***************************************************************************)
EXTENDS RepairLoop

T(compiles, errors, unsafe, ast, score, hints, mismatches) ==
  [compiles |-> compiles, errors |-> errors, unsafe |-> unsafe, astUnsafe |-> ast,
   score |-> score, hints |-> hints, substance |-> TRUE, mismatches |-> mismatches,
   tokens |-> 1]

Good     == T(TRUE, 0, 0, 0, 90, 0, 0)    \* passes
Wrong    == [T(TRUE, 0, 0, 0, 90, 0, 1)   \* idiomatic, long, behaves differently
             EXCEPT !.tokens = 2]
Clumsy   == T(TRUE, 0, 0, 0, 40, 2, 0)    \* correct, score too low
Unsafe   == T(TRUE, 0, 2, 2, 85, 0, 1)    \* unsafe blocks, passes if not tested
Hidden   == T(TRUE, 0, 1, 0, 70, 0, 1)    \* an unsafe fn the gate does not see
Broken   == T(FALSE, 1, 0, 0, 60, 0, 0)
Stub     == [T(TRUE, 0, 0, 0, 20, 0, 1) EXCEPT !.substance = FALSE]

MCTexts == {Good, Wrong, Clumsy, Unsafe, Hidden, Broken, Stub}
=============================================================================
