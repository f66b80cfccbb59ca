------------------------- MODULE MCModularMigration -------------------------
(***************************************************************************)
(* Instances of ModularMigration for TLC: three modules whose calls add up *)
(* to each phase of the budget.                                            *)
(***************************************************************************)
EXTENDS ModularMigration

R(kind, validated, repaired, calls, tokens) ==
  [kind |-> kind, validated |-> validated, repaired |-> repaired,
   calls |-> calls, tokens |-> tokens]

MCResults == {R("output", TRUE, FALSE, 0, 0),     \* reused by warm start
              R("output", TRUE, TRUE, 40, 2),
              R("output", FALSE, FALSE, 41, 5),
              R("none", FALSE, FALSE, 14, 1),
              R("tokens", FALSE, TRUE, 9, 9),
              R("error", FALSE, FALSE, 30, 1)}
=============================================================================
