----------------------------- MODULE MCServices -----------------------------
EXTENDS Services

\* A project with a dash that RBench writes with an underscore, one it has not.
MCCProjects == <<"a-b", "c_d", "e">>
MCUnderscored == [p \in {"a-b", "c_d", "e"} |-> IF p = "a-b" THEN "a_b" ELSE p]
MCSelections == {{"a-b", "c_d"}, {"a-b", "e"}}
MCFileLists == {<<>>, <<"x">>, <<"x", "y">>}

Header(f) == [header |-> TRUE, name |-> f]
Text(t)   == [header |-> FALSE, text |-> t]

\* Replies without headers; for both files; for one, whose tests fail or do not
\* compile; one that begins with a file nobody asked for.
MCReplies ==
  {<<Text("works")>>,
   <<Header("x"), Text("works"), Header("y"), Text("works")>>,
   <<Header("x"), Text("fails")>>,
   <<Header("x"), Text("unfit")>>,
   <<Header("z"), Text("works"), Header("y"), Text("broken")>>}

Args(c, r, s) == [c_source |-> c, rust_source |-> r, source |-> s]
Call(tool, args) ==
  [kind |-> "request", id |-> "1", method |-> "tools/call",
   params |-> [tool |-> tool, args |-> args]]
Asked(method) == [kind |-> "request", id |-> "1", method |-> method]
Good == Args("given", "given", "given")

MCRequests ==
  {[kind |-> "empty"], [kind |-> "unreadable"], [kind |-> "garbage"], Asked("initialize"), Asked("other"),
   Call("invalid", Good), Call("unknown", Good), Call("repair", Args("given", "given", "absent")),
   Call("diff_test", Args("given", "large", "given"))}
  \union {Call(t, Good) : t \in Tools}

Kind(client, route, body, key) ==
  [client |-> client, route |-> route, body |-> body, key |-> key]

\* Two clients, one of which fills its window; requests that fail each check.
MCKinds ==
  {Kind("i", "migrate", "fine", "right"), Kind("i", "check", "malformed", "none"),
   Kind("j", "migrate", "large", "right")}

K(code, shape) == [code |-> code, shape |-> shape]
MCSeeds == <<[key |-> K("E1", "any"), won |-> 2, lost |-> 1]>>
Err(code, message, line) == [code |-> code, message |-> message, line |-> line]
MCErrors == {Err("E1", "m1", 1), Err("E1", "m2", 4), Err("E2", "n", 20)}
MCShape == [m \in {"m1", "m2", "n"} |-> IF m = "n" THEN "n" ELSE "m"]

\* The seed matches what the patterns of its code do.
MCMatching == [m \in {"m1", "m2", "n"} |-> IF m = "n" THEN {"n"} ELSE {"m", "any"}]

\* All fixed; one that is left near another of its code; one that moved.
MCErrorLists ==
  {[before |-> <<Err("E1", "m1", 1), Err("E2", "n", 20)>>, after |-> <<>>],
   [before |-> <<Err("E1", "m1", 1), Err("E1", "m2", 4)>>, after |-> <<Err("E1", "m2", 4)>>],
   [before |-> <<Err("E2", "n", 20)>>, after |-> <<Err("E2", "n", 12)>>]}

Sig(hash, ret, params) == [hash |-> hash, ret |-> ret, params |-> params]
MCSignatures ==
  {Sig("f", "int", <<"int">>), Sig("g", "int", <<>>), Sig("h", "void", <<"int", "char*">>)}

MCOutputs == <<"Net", "net", "types">>
MCSafeName == [n \in {"Net", "net", "types"} |-> IF n = "Net" THEN "net" ELSE n]

=============================================================================
