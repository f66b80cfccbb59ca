--------------------------- MODULE MCFilePipeline ---------------------------
EXTENDS FilePipeline

T(compiles, unsafe, score, mismatches, substance) ==
  [compiles |-> compiles, errors |-> IF compiles THEN 0 ELSE 1, unsafe |-> unsafe,
   astUnsafe |-> unsafe, score |-> score, hints |-> 0, substance |-> substance,
   mismatches |-> mismatches, tokens |-> 1]

Good   == T(TRUE, 0, 90, 0, TRUE)
Plain  == T(TRUE, 6, 70, 0, TRUE)    \* between the minimum of validate and MinScore
Broken == T(FALSE, 0, 60, 0, TRUE)
Stub   == T(TRUE, 0, 20, 0, FALSE)
MCCut  == T(TRUE, 0, 85, 1, TRUE)    \* the first functions of Good

MCTexts == {Good, Plain, Broken, Stub, MCCut}
MCIncomplete == {Stub}
MCFiles == {"a", "b"}
MCSourceOf == [f \in MCFiles |-> "s"]
MCSize == [a |-> "large", b |-> "medium"]
MCRank == [a |-> 1, b |-> 1]
MCModularCalls == {2}

=============================================================================
