----------------------------- MODULE MCFirstText -----------------------------
EXTENDS FirstText

MCPrefixOrder == <<"list", "main", "other", "parse">>
\* Each way to a provider, with and without the patterns of a data model.
Conf(p, keys, d, model) == [primary |-> p, keys |-> keys, difficulty |-> d, dataModel |-> model]
MCConfs ==
  {Conf("deepseek", {"deepseek", "anthropic"}, "hard", TRUE), Conf("deepseek", {"anthropic"}, "easy", FALSE),
   Conf("deepseek", {}, "hard", TRUE), Conf("anthropic", {"deepseek"}, "medium", FALSE),
   Conf("anthropic", {"anthropic"}, "medium", TRUE), Conf("ollama", {"anthropic"}, "hard", FALSE)}

MCCandidates == <<[provider |-> "anthropic", price |-> 3], [provider |-> "deepseek", price |-> 1],
                  [provider |-> "anthropic", price |-> 3], [provider |-> "deepseek", price |-> 1]>>
MCGrades == {[compiles |-> TRUE, score |-> 80, unsafe |-> 1], [compiles |-> TRUE, score |-> 80, unsafe |-> 0],
             [compiles |-> TRUE, score |-> 60, unsafe |-> 0], [compiles |-> FALSE, score |-> 80, unsafe |-> 0]}

Type == CItem("type", "list", 5)
Table == CItem("table", "sines", 200)
Proto == CItem("proto", "parse_b", 1)
New == [CItem("fn", "list_new", 15) EXCEPT !.prefix = "list", !.model = TRUE]
Add == [CItem("fn", "list_add", 300) EXCEPT !.prefix = "list", !.calls = {"list_new"}]
ParseA == [CItem("fn", "parse_a", 350) EXCEPT !.prefix = "parse", !.calls = {"parse_b"}]
ParseB == [CItem("fn", "parse_b", 250) EXCEPT !.prefix = "parse", !.table = 40]
Main == [CItem("fn", "main", 100) EXCEPT !.calls = {"parse_a"}]
Other(n) == [CItem("fn", "other", n) EXCEPT !.prefix = "other"]

MCCFiles ==
  {<<Type, New, Main>>,                                    \* one request
   <<Table, Type, New, Proto, Add, ParseA, ParseB>>,       \* chunks, types and tables
   <<Proto, ParseA, ParseB, Main, Other(300)>>,            \* chunks, no types
   <<Type, New, Add, ParseA, ParseB, Main, Other(1200)>>}  \* modules

Line(k, n) == Rust!Code(k, n)
Whole_(n) == <<Rust!Opening("fn", n), Line("code", ""), Rust!End>>
Empty_(n) == <<Rust!Opening("fn", n), Rust!End>>
Names(items) == [i \in DOMAIN SelectSeq(items, LAMBDA x : x.kind = "fn") |->
                   SelectSeq(items, LAMBDA x : x.kind = "fn")[i].name]

MCReplies(items) ==
  LET ns == Names(items)
      use == <<Line("use", "io")>>
  IN IF ns = <<>> THEN {<<Line("const", "sines")>>}
     ELSE {use \o FlattenSeq([i \in DOMAIN ns |-> Whole_(ns[i])]),
           FlattenSeq([i \in DOMAIN ns |-> Empty_(ns[i])]),
           <<Line("fence", "")>> \o use \o <<Rust!Opening("struct", "list"), Line("field", "next"), Rust!End>>
             \o Whole_(ns[1]) \o <<Line("fence", "")>>}

=============================================================================
