---------------------------- MODULE MCComparison ----------------------------
EXTENDS SpecMining

Number(text, value) == [text |-> text, parsed |-> TRUE, nan |-> FALSE, value |-> value]
Word(text)          == [text |-> text, parsed |-> FALSE, nan |-> FALSE, value |-> 0]
NaN                 == [text |-> "NaN", parsed |-> TRUE, nan |-> TRUE, value |-> 0]

\* Lines that agree, then numbers that are rounded differently; a NaN for a
\* number, then numbers too far apart.
MCExactTexts ==
  {[c |-> <<Word("a"), Number("1.0", 10)>>, rust |-> <<Word("a"), Number("1.1", 11)>>]}
MCTexts == MCExactTexts \union
  {[c |-> <<Number("1.0", 10), Number("2", 20)>>, rust |-> <<NaN, Number("4", 40)>>]}

Line(name, before, closed, params) ==
  [code |-> TRUE, name |-> name, before |-> before, closed |-> closed, params |-> params]
Comment == [code |-> FALSE, name |-> "opens", before |-> TRUE, closed |-> TRUE, params |-> <<>>]

\* A program with arguments, one that reads lines, and library functions: of two
\* parameters, mentioned first in a comment and a longer name; with a parameter
\* that has no values; with its parenthesis left open; with a pointer to a function.
MCUnits ==
  {[main |-> TRUE, lines |-> <<>>, params |-> <<>>,
    argv |-> TRUE, reads |-> FALSE, atoi |-> 2, formats |-> 0],
   [main |-> TRUE, lines |-> <<>>, params |-> <<>>,
    argv |-> FALSE, reads |-> TRUE, atoi |-> 0, formats |-> 1],
   [main |-> FALSE, params |-> <<"double", "string">>,
    lines |-> <<Comment, Line("other", TRUE, TRUE, <<>>), Line("opens", FALSE, TRUE, <<>>),
                Line("opens", TRUE, TRUE, <<"double", "string">>)>>,
    argv |-> FALSE, reads |-> FALSE, atoi |-> 0, formats |-> 0],
   [main |-> FALSE, params |-> <<"void*">>,
    lines |-> <<Line("opens", TRUE, TRUE, <<"void*">>)>>,
    argv |-> FALSE, reads |-> FALSE, atoi |-> 0, formats |-> 0],
   [main |-> FALSE, params |-> <<"callback", "int">>,
    lines |-> <<Line("opens", TRUE, TRUE, <<"callback", "int">>)>>,
    argv |-> FALSE, reads |-> FALSE, atoi |-> 0, formats |-> 0],
   [main |-> FALSE, params |-> <<"int">>,
    lines |-> <<Line("opens", TRUE, FALSE, <<>>), Line("opens", TRUE, TRUE, <<"int">>)>>,
    argv |-> FALSE, reads |-> FALSE, atoi |-> 0, formats |-> 0]}

Fn(name, param, ret, pattern, effect) ==
  [name |-> name, params |-> <<param>>, ret |-> ret, pattern |-> pattern, effect |-> effect]

\* Functions that can be traced, with values that do not survive; one that changes
\* its text, beside one that is not found; one that counts, beside one that cannot
\* be wrapped; one without a result; one with a prototype.
MCCFiles ==
  {<<Fn("f", "int", "int", "definition", "pure"), Fn("g", "const char*", "int", "definition", "pure")>>,
   <<Fn("f", "char*", "unsigned", "definition", "writes"), Fn("g", "int", "int", "none", "pure")>>,
   <<Fn("g", "int", "int", "definition", "counts"), Fn("h", "void*", "int", "definition", "pure")>>,
   <<Fn("f", "unsigned", "void", "definition", "pure")>>,
   <<Fn("f", "int", "int", "prototype", "pure")>>}

MCInputLists == {<<>>, <<1, 0>>}

=============================================================================
