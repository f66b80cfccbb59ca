-------------------------- MODULE MCAssembledRepair --------------------------
EXTENDS AssembledRepair

MCExternalCrates == {"libc"}
MCStripped == [m_x |-> "x"]
MCPrefixed == [x |-> "m_x"]

Fn(n) == <<Opening("fn", n), Code("code", ""), End>>
WrongFn(n) == <<Opening("fn", n), Code("wrong", ""), End>>
CutFn(n) == <<Code("sig", n), Code("param", "p")>>
Struct(n) == <<Code("derive", ""), Opening("struct", n), End>>
Impl(n) == <<Opening("impl", n), OneLine("fn", "f"), End>>
Windows == <<Code("winuse", "win"), Code("cfg", ""), Opening("fn", "w"), End>>

Old == <<Code("innerattr", ""), Code("innerdoc", ""), Opening("genericfn", "old"),
         Code("optparam", "o"), Code("iflet", "o"), Code("field", "m_x"), Code("call", "f"), End>>

Items ==
  {Fn("f"), WrongFn("f"), <<OneLine("fn", "g")>>, CutFn("g"), Struct("S"),
   Impl("T"), <<Code("use", "libc")>>, Windows, Old}

MCModuleTexts ==
  {<<a \o b, c>> : a \in Items, b \in {Fn("f"), WrongFn("h"), Struct("S"), <<Code("fence", "")>>},
                   c \in Items}

MCContractReplies ==
  {<<>>, Struct("S"), Impl("S") \o Struct("S"), Struct("S") \o Struct("S"),
   <<Code("fence", ""), Code("alias", "A")>> \o Struct("T") \o <<OneLine("fn", "new")>> \o Struct("S")}

MCFunctionReplies == {Fn("f"), WrongFn("f"), Fn("h"), Fn("other")}

=============================================================================
