--------------------------- MODULE FirstText_proofs ---------------------------
(***************************************************************************)
(* Proofs about FirstText, for every configuration, C file, answer and     *)
(* ensemble, and about AssembledRepair, for all modules, contracts and     *)
(* answers.                                                                *)
(***************************************************************************)
EXTENDS FirstText, AssembledRepair, FiniteSetTheorems, WellFoundedInduction, TLAPS

-----------------------------------------------------------------------------
(***************************************************************************)
(* Numbers and sequences.                                                  *)
(***************************************************************************)
\* Induction over the natural numbers, for a set of them.
Less == {p \in Nat \X Nat : p[1] < p[2]}

LEMMA LessIsWellFounded == IsWellFoundedOn(Less, Nat)
  BY NatLessThanWellFounded DEF OpToRel, Less

LEMMA SetInduction ==
  ASSUME NEW S, 0 \in S, \A n \in Nat : n \in S => n + 1 \in S
  PROVE  Nat \subseteq S
  <1> SUFFICES ASSUME Nat \ S # {} PROVE FALSE
    OBVIOUS
  <1>1. PICK n \in Nat \ S : \A k \in Nat \ S : ~(<<k, n>> \in Less)
    BY LessIsWellFounded, WFMin
  <1>2. n # 0 /\ n - 1 \in Nat /\ (n - 1) + 1 = n
    BY <1>1
  <1>3. <<n - 1, n>> \in Less
    BY <1>2 DEF Less
  <1>4. QED
    BY <1>1, <1>2, <1>3

\* A set of numbers has a least one, and Min is it.
LEMMA LeastExists ==
  ASSUME NEW S \in SUBSET Nat, S # {}
  PROVE  Min(S) \in S /\ \A k \in S : Min(S) <= k
  <1>1. PICK n \in S : \A k \in S : ~(<<k, n>> \in Less)
    BY LessIsWellFounded, WFMin
  <1>2. \A k \in S : n <= k
    <2>1. SUFFICES ASSUME NEW k \in S PROVE n <= k
      OBVIOUS
    <2>2. k \in Nat /\ n \in Nat /\ ~(<<k, n>> \in Less)
      BY <1>1
    <2>3. <<k, n>> \in Less <=> k < n
      BY <2>2 DEF Less
    <2>4. QED
      BY <2>2, <2>3
  <1>3. \E x \in S : \A y \in S : x <= y
    BY <1>2
  <1>4. Min(S) = CHOOSE x \in S : \A y \in S : x <= y
    BY DEF Min
  <1>5. QED
    BY <1>3, <1>4

\* A sequence of whatever its elements are.
IsASeq(s) == s \in Seq(ToSet(s))

LEMMA SeqFacts ==
  ASSUME NEW s, IsASeq(s)
  PROVE  Len(s) \in Nat /\ DOMAIN s = 1 .. Len(s)
  BY DEF IsASeq

LEMMA TypedIsASeq ==
  ASSUME NEW S, NEW s \in Seq(S)
  PROVE  IsASeq(s)
  <1>1. Len(s) \in Nat /\ DOMAIN s = 1 .. Len(s) /\ s = [i \in 1 .. Len(s) |-> s[i]]
    OBVIOUS
  <1>2. \A i \in 1 .. Len(s) : s[i] \in ToSet(s)
    BY <1>1 DEF ToSet
  <1>3. s \in [1 .. Len(s) -> ToSet(s)]
    BY <1>1, <1>2
  <1>4. QED
    BY <1>1, <1>3 DEF IsASeq

LEMMA ElementsTyped ==
  ASSUME NEW S, NEW s \in Seq(S), NEW i \in DOMAIN s
  PROVE  s[i] \in S
  OBVIOUS

LEMMA EmptyIsASeq == IsASeq(<<>>) /\ Len(<<>>) = 0
  <1>1. <<>> \in Seq({})
    OBVIOUS
  <1>2. QED
    BY <1>1, TypedIsASeq

LEMMA OneIsASeq ==
  ASSUME NEW e
  PROVE  IsASeq(<<e>>) /\ Len(<<e>>) = 1 /\ <<e>>[1] = e /\ ToSet(<<e>>) = {e}
  <1>1. <<e>> \in Seq({e})
    OBVIOUS
  <1>2. DOMAIN <<e>> = {1} /\ <<e>>[1] = e
    OBVIOUS
  <1>3. QED
    BY <1>1, <1>2, TypedIsASeq DEF ToSet

LEMMA TypedAppend ==
  ASSUME NEW S, NEW s \in Seq(S), NEW e \in S
  PROVE  /\ Append(s, e) \in Seq(S)
         /\ Len(Append(s, e)) = Len(s) + 1
         /\ Append(s, e)[Len(s) + 1] = e
         /\ \A i \in 1 .. Len(s) : Append(s, e)[i] = s[i]
  OBVIOUS

LEMMA AppendFacts ==
  ASSUME NEW s, IsASeq(s), NEW e
  PROVE  /\ IsASeq(Append(s, e)) /\ Len(Append(s, e)) = Len(s) + 1
         /\ Append(s, e)[Len(s) + 1] = e
         /\ \A i \in 1 .. Len(s) : Append(s, e)[i] = s[i]
  <1> DEFINE S == ToSet(s) \union {e}
  <1>1. s \in Seq(S)
    <2>1. Len(s) \in Nat /\ s \in [1 .. Len(s) -> S]
      BY DEF IsASeq
    <2>2. QED
      BY <2>1
  <1>2. e \in S
    OBVIOUS
  <1> HIDE DEF S
  <1>3. /\ Append(s, e) \in Seq(S) /\ Len(Append(s, e)) = Len(s) + 1
        /\ Append(s, e)[Len(s) + 1] = e
        /\ \A i \in 1 .. Len(s) : Append(s, e)[i] = s[i]
    BY ONLY <1>1, <1>2, TypedAppend
  <1>4. IsASeq(Append(s, e))
    BY ONLY <1>3, TypedIsASeq
  <1>5. QED
    BY <1>3, <1>4

LEMMA TypedJoin ==
  ASSUME NEW S, NEW s \in Seq(S), NEW t \in Seq(S)
  PROVE  /\ s \o t \in Seq(S)
         /\ Len(s \o t) = Len(s) + Len(t)
         /\ \A i \in 1 .. Len(s) : (s \o t)[i] = s[i]
         /\ \A i \in 1 .. Len(t) : (s \o t)[Len(s) + i] = t[i]
  OBVIOUS

LEMMA JoinFacts ==
  ASSUME NEW s, IsASeq(s), NEW t, IsASeq(t)
  PROVE  /\ IsASeq(s \o t) /\ Len(s \o t) = Len(s) + Len(t)
         /\ \A i \in 1 .. Len(s) : (s \o t)[i] = s[i]
         /\ \A i \in 1 .. Len(t) : (s \o t)[Len(s) + i] = t[i]
  <1> DEFINE S == ToSet(s) \union ToSet(t)
  <1>1. s \in Seq(S) /\ t \in Seq(S)
    <2>1. Len(s) \in Nat /\ s \in [1 .. Len(s) -> S] /\ Len(t) \in Nat /\ t \in [1 .. Len(t) -> S]
      BY DEF IsASeq
    <2>2. QED
      BY <2>1
  <1> HIDE DEF S
  <1>2. /\ s \o t \in Seq(S) /\ Len(s \o t) = Len(s) + Len(t)
        /\ \A i \in 1 .. Len(s) : (s \o t)[i] = s[i]
        /\ \A i \in 1 .. Len(t) : (s \o t)[Len(s) + i] = t[i]
    BY ONLY <1>1, TypedJoin
  <1>3. IsASeq(s \o t)
    BY ONLY <1>2, TypedIsASeq
  <1>4. QED
    BY <1>2, <1>3

\* A function on the first numbers is a sequence.
LEMMA FunctionIsASeq ==
  ASSUME NEW n \in Nat, NEW f, DOMAIN f = 1 .. n, f = [i \in 1 .. n |-> f[i]]
  PROVE  IsASeq(f) /\ Len(f) = n
  <1>1. \A i \in 1 .. n : f[i] \in ToSet(f)
    BY DEF ToSet
  <1>2. f \in [1 .. n -> ToSet(f)]
    BY <1>1
  <1>3. QED
    BY <1>2 DEF IsASeq

-----------------------------------------------------------------------------
(***************************************************************************)
(* What the recursive functions of the model have after each of their      *)
(* steps: one kind for the rounds of a tournament, one for the items a     *)
(* list has at some places, one for the groups of functions, one for       *)
(* sequences put together, and those that pass over the lines of a text,   *)
(* the texts of modules or the rules.                                      *)
(***************************************************************************)
LineStepOf(kind, list, more, x, n) ==
  IF kind = "without" THEN PassLine(x, list, n, more)
  ELSE IF kind = "deduplicated" THEN DeduplicateLine(x, list, n)
  ELSE IF kind = "assembled" THEN AddModule(x, list[n])
  ELSE IF kind = "bounded" THEN BoundaryLine(x, list, n)
  ELSE Rule(n, x, more)

StepOf(kind, list, more, x, n) ==
  IF kind = "round" THEN Round(x)
  ELSE IF kind = "taken" THEN (IF n \in more THEN Append(x, list[n]) ELSE x)
  ELSE IF kind = "grouped" THEN AddToGroups(x, list[n], more)
  ELSE IF kind = "joined" THEN (IF n = 1 THEN list[1] ELSE x \o list[n])
  ELSE LineStepOf(kind, list, more, x, n)

Chain(kind, list, more, base, m, f) ==
  f = [n \in 0 .. m |-> IF n = 0 THEN base ELSE StepOf(kind, list, more, f[n - 1], n)]

LEMMA ChainExists ==
  ASSUME NEW kind, NEW list, NEW more, NEW base, NEW m \in Nat
  PROVE  \E f : Chain(kind, list, more, base, m, f)
  <1> DEFINE T == {l \in Nat : \E f : Chain(kind, list, more, base, l, f)}
  <1>1. 0 \in T
    <2> DEFINE f == [n \in 0 .. 0 |-> base]
    <2>1. f = [n \in 0 .. 0 |-> IF n = 0 THEN base ELSE StepOf(kind, list, more, f[n - 1], n)]
      OBVIOUS
    <2>2. QED
      BY <2>1 DEF Chain
  <1>2. ASSUME NEW l \in Nat, l \in T PROVE l + 1 \in T
    <2>1. PICK f : Chain(kind, list, more, base, l, f)
      BY <1>2
    <2> DEFINE g == [n \in 0 .. l + 1 |->
                       IF n = 0 THEN base ELSE StepOf(kind, list, more, f[n - 1], n)]
    <2>2. ASSUME NEW n \in 0 .. l PROVE g[n] = f[n]
      BY <2>1 DEF Chain
    <2> HIDE DEF g
    <2>3. ASSUME NEW n \in 0 .. l + 1
          PROVE  (IF n = 0 THEN base ELSE StepOf(kind, list, more, f[n - 1], n))
                   = (IF n = 0 THEN base ELSE StepOf(kind, list, more, g[n - 1], n))
      <3>1. CASE n = 0
        BY <3>1
      <3>2. CASE n # 0
        <4>1. n - 1 \in 0 .. l
          BY <3>2
        <4>2. g[n - 1] = f[n - 1]
          BY <2>2, <4>1
        <4>3. QED
          BY <4>2
      <3>3. QED
        BY <3>1, <3>2
    <2>4. g = [n \in 0 .. l + 1 |-> IF n = 0 THEN base ELSE StepOf(kind, list, more, g[n - 1], n)]
      BY <2>3 DEF g
    <2>5. QED
      BY <2>4 DEF Chain
  <1> HIDE DEF T
  <1>3. m \in T
    BY <1>1, <1>2, SetInduction
  <1>4. QED
    BY <1>3 DEF T

LEMMA ChainSteps ==
  ASSUME NEW kind, NEW list, NEW more, NEW base, NEW m \in Nat, NEW f,
         Chain(kind, list, more, base, m, f)
  PROVE  f[0] = base /\ \A n \in 1 .. m : f[n] = StepOf(kind, list, more, f[n - 1], n)
  BY DEF Chain

LEMMA TournamentIsAChain ==
  ASSUME NEW entrants, Len(entrants) \in Nat
  PROVE  \E f : Chain("round", <<>>, {}, entrants, Len(entrants), f)
                /\ SelectTournament(entrants) = f[Len(entrants)][1]
  <1> DEFINE after == CHOOSE f : f = [n \in 0 .. Len(entrants) |->
                                        IF n = 0 THEN entrants ELSE Round(f[n - 1])]
  <1>1. \E f : f = [n \in 0 .. Len(entrants) |-> IF n = 0 THEN entrants ELSE Round(f[n - 1])]
    <2>1. PICK f : Chain("round", <<>>, {}, entrants, Len(entrants), f)
      BY ChainExists
    <2>2. QED
      BY <2>1 DEF Chain, StepOf
  <1>2. after = [n \in 0 .. Len(entrants) |-> IF n = 0 THEN entrants ELSE Round(after[n - 1])]
    BY <1>1, Zenon
  <1>3. SelectTournament(entrants) = after[Len(entrants)][1]
    BY DEF SelectTournament
  <1> HIDE DEF after
  <1>4. Chain("round", <<>>, {}, entrants, Len(entrants), after)
    BY <1>2 DEF Chain, StepOf
  <1>5. QED
    BY <1>3, <1>4

LEMMA ItemsAtIsAChain ==
  ASSUME NEW list, Len(list) \in Nat, NEW places
  PROVE  \E f : Chain("taken", list, places, <<>>, Len(list), f)
                /\ ItemsAt(list, places) = f[Len(list)]
  <1> DEFINE taken == CHOOSE f : f = [n \in 0 .. Len(list) |->
                 IF n = 0 THEN <<>> ELSE IF n \in places THEN Append(f[n - 1], list[n]) ELSE f[n - 1]]
  <1>1. \E f : f = [n \in 0 .. Len(list) |->
                 IF n = 0 THEN <<>> ELSE IF n \in places THEN Append(f[n - 1], list[n]) ELSE f[n - 1]]
    <2>1. PICK f : Chain("taken", list, places, <<>>, Len(list), f)
      BY ChainExists
    <2>2. QED
      BY <2>1 DEF Chain, StepOf
  <1>2. taken = [n \in 0 .. Len(list) |->
          IF n = 0 THEN <<>> ELSE IF n \in places THEN Append(taken[n - 1], list[n]) ELSE taken[n - 1]]
    BY <1>1, Zenon
  <1>3. ItemsAt(list, places) = taken[Len(list)]
    BY DEF ItemsAt
  <1> HIDE DEF taken
  <1>4. Chain("taken", list, places, <<>>, Len(list), taken)
    BY <1>2 DEF Chain, StepOf
  <1>5. QED
    BY <1>3, <1>4

NoGroups == [done |-> <<>>, now |-> <<>>]

LEMMA GroupsAreAChain ==
  ASSUME NEW fs, Len(fs) \in Nat, NEW target
  PROVE  \E f : /\ Chain("grouped", fs, target, NoGroups, Len(fs), f)
                /\ Groups(fs, target) = IF f[Len(fs)].now = <<>> THEN f[Len(fs)].done
                                        ELSE Append(f[Len(fs)].done, f[Len(fs)].now)
  <1> DEFINE after == CHOOSE f : f = [n \in 0 .. Len(fs) |->
                 IF n = 0 THEN [done |-> <<>>, now |-> <<>>] ELSE AddToGroups(f[n - 1], fs[n], target)]
  <1>1. \E f : f = [n \in 0 .. Len(fs) |->
                 IF n = 0 THEN [done |-> <<>>, now |-> <<>>] ELSE AddToGroups(f[n - 1], fs[n], target)]
    <2>1. PICK f : Chain("grouped", fs, target, NoGroups, Len(fs), f)
      BY ChainExists
    <2>2. QED
      BY <2>1 DEF Chain, StepOf, NoGroups
  <1>2. after = [n \in 0 .. Len(fs) |->
          IF n = 0 THEN [done |-> <<>>, now |-> <<>>] ELSE AddToGroups(after[n - 1], fs[n], target)]
    BY <1>1, Zenon
  <1>3. Groups(fs, target) = IF after[Len(fs)].now = <<>> THEN after[Len(fs)].done
                             ELSE Append(after[Len(fs)].done, after[Len(fs)].now)
    BY DEF Groups
  <1> HIDE DEF after
  <1>4. Chain("grouped", fs, target, NoGroups, Len(fs), after)
    BY <1>2 DEF Chain, StepOf, NoGroups
  <1>5. QED
    BY <1>3, <1>4

-----------------------------------------------------------------------------
(***************************************************************************)
(* The provider and the model of a request.                                *)
(***************************************************************************)
AConf == [primary : AProvider, keys : SUBSET {"anthropic", "deepseek"},
          difficulty : Difficulties, dataModel : BOOLEAN]

LEMMA SelectedIsTheClient ==
  ASSUME NEW c \in AConf, NEW difficulty \in Difficulties, NEW task
  PROVE  /\ SelectModel(c, difficulty, task).provider = CreateClient(c)
         /\ SelectModel(c, difficulty, task).model = ModelOf(CreateClient(c), difficulty, task)
  BY DEF SelectModel, CreateClient, AConf, AProvider

LEMMA OwnerIsTheProvider ==
  ASSUME NEW p \in AProvider, NEW difficulty \in Difficulties, NEW task
  PROVE  OwnerOf(ModelOf(p, difficulty, task)) = p
  BY DEF ModelOf, OwnerOf, AProvider, Difficulties

LEMMA ClientIsInThePool ==
  ASSUME NEW c \in AConf
  PROVE  CreateClient(c) \in AProvider /\ CreateClient(c) \in Pool(c) /\ DefaultClient(c) = CreateClient(c)
  BY DEF CreateClient, DefaultClient, Pool, AConf, AProvider

LEMMA RequestIsRouted ==
  ASSUME NEW c \in AConf, NEW client, NEW model,
         client = CreateClient(c), model = SelectModel(c, c.difficulty, "translation").model
  PROVE  /\ OwnerOf(model) = client
         /\ DefaultClient(c) = client
         /\ ResolveTask(c, NoOverride, "translation", c.difficulty)
              = [provider |-> client, model |-> model, client |-> client]
         /\ OwnerOf(SelectRepairModel(c, c.difficulty).model) = client
  <1> DEFINE chosen == SelectModel(c, c.difficulty, "translation")
  <1>1. c.difficulty \in Difficulties
    BY DEF AConf
  <1>2. /\ client \in AProvider /\ client \in Pool(c) /\ DefaultClient(c) = client
        /\ chosen.provider = client /\ model = ModelOf(client, c.difficulty, "translation")
        /\ SelectModel(c, c.difficulty, "repair").model = ModelOf(client, c.difficulty, "repair")
    BY <1>1, SelectedIsTheClient, ClientIsInThePool
  <1>3. OwnerOf(model) = client
    BY <1>1, <1>2, OwnerIsTheProvider
  <1>4. ResolveTask(c, NoOverride, "translation", c.difficulty)
          = [provider |-> client, model |-> model, client |-> client]
    <2>1. /\ NoOverride.provider = "none" /\ NoOverride.model = "none"
      BY DEF NoOverride
    <2>2. ResolveTask(c, NoOverride, "translation", c.difficulty)
            = Resolved(c, [provider |-> chosen.provider, model |-> chosen.model])
      BY <2>1 DEF ResolveTask
    <2>3. QED
      BY <2>2, <1>2 DEF Resolved
  <1>5. OwnerOf(SelectRepairModel(c, c.difficulty).model) = client
    <2>1. CASE c.primary = "deepseek" /\ "deepseek" \in c.keys
      BY <2>1, <1>2 DEF SelectRepairModel, CreateClient, OwnerOf
    <2>2. CASE ~(c.primary = "deepseek" /\ "deepseek" \in c.keys)
      <3>1. SelectRepairModel(c, c.difficulty) = SelectModel(c, c.difficulty, "repair")
        BY <2>2 DEF SelectRepairModel
      <3>2. QED
        BY <3>1, <1>1, <1>2, OwnerIsTheProvider
    <2>3. QED
      BY <2>1, <2>2
  <1>6. QED
    BY <1>2, <1>3, <1>4, <1>5

\* A request is under way exactly while one is asked; it has all its parts, and its
\* client and its model were chosen from the configuration as it still is.
Asking == pc = "asked" <=> ask # NoAsk

Configured == pc \notin {"start", "ensemble", "selected"} => conf \in Confs

RequestFields ==
  {"kind", "items", "attempt", "temp", "client", "model", "types", "sigs", "agreed"}

AskRouted ==
  ask # NoAsk =>
    /\ DOMAIN ask = RequestFields
    /\ ask.client = CreateClient(conf)
    /\ ask.model = SelectModel(conf, conf.difficulty, "translation").model

RoutingInv == Asking /\ Configured /\ AskRouted

LEMMA RequestShape ==
  ASSUME NEW kind \in {"whole", "data", "chunk", "again", "completion"}, NEW items, NEW temp,
         NEW r, r = Request(kind, items, temp)
  PROVE  /\ r # NoAsk
         /\ DOMAIN r = RequestFields
         /\ r.kind = kind /\ r.items = items
         /\ r.client = CreateClient(conf)
         /\ r.model = SelectModel(conf, conf.difficulty, "translation").model
         /\ kind # "data" => r.sigs = sigs
         /\ kind # "data" /\ at > 1 => r.types = TypeLines(foundation)
  <1>1. NoAsk.kind = "none" /\ r.kind = kind
    BY DEF NoAsk, Request
  <1>2. r # NoAsk
    BY <1>1
  <1>3. QED
    BY <1>1, <1>2 DEF Request, RequestFields

LEMMA RetryShape ==
  ASSUME NEW r, DOMAIN r = RequestFields
  PROVE  LET again == [r EXCEPT !.attempt = @ + 1]
         IN /\ DOMAIN again = RequestFields
            /\ again.kind = r.kind /\ again.items = r.items
            /\ again.client = r.client /\ again.model = r.model
            /\ again.types = r.types /\ again.sigs = r.sigs
            /\ again # NoAsk
  <1> DEFINE again == [r EXCEPT !.attempt = @ + 1]
  <1>1. DOMAIN again = RequestFields
    BY DEF RequestFields
  <1>2. DOMAIN NoAsk = {"kind", "items", "attempt"}
    BY DEF NoAsk
  <1>3. again # NoAsk
    BY <1>1, <1>2 DEF RequestFields
  <1>4. QED
    BY <1>1, <1>3 DEF RequestFields

LEMMA RoutingInit == Init => RoutingInv
  BY DEF Init, RoutingInv, Asking, Configured, AskRouted

LEMMA RoutingKept ==
  ASSUME RoutingInv, UNCHANGED vars PROVE RoutingInv'
  BY DEF RoutingInv, Asking, Configured, AskRouted, vars, CreateClient, SelectModel

\* The steps that ask.
LEMMA RoutingAsked ==
  ASSUME RoutingInv, NEW kind \in {"whole", "data", "chunk", "again", "completion"}, NEW items, NEW temp,
         ask' = Request(kind, items, temp), pc' = "asked", UNCHANGED conf,
         pc \notin {"start", "ensemble", "selected"}
  PROVE  RoutingInv'
  <1>1. /\ ask' # NoAsk /\ DOMAIN ask' = RequestFields
        /\ ask'.client = CreateClient(conf)
        /\ ask'.model = SelectModel(conf, conf.difficulty, "translation").model
    BY RequestShape
  <1>2. conf \in Confs /\ conf' = conf
    BY DEF RoutingInv, Configured
  <1>3. Asking' /\ Configured'
    BY <1>1, <1>2 DEF Asking, Configured
  <1>4. AskRouted'
    BY <1>1, <1>2 DEF AskRouted
  <1>5. QED
    BY <1>3, <1>4 DEF RoutingInv

\* The steps after which nothing is asked.
LEMMA RoutingAnswered ==
  ASSUME RoutingInv, ask' = NoAsk, pc' # "asked",
         (UNCHANGED conf /\ pc \notin {"start", "ensemble", "selected"})
           \/ conf' \in Confs \/ pc' \in {"start", "ensemble", "selected"}
  PROVE  RoutingInv'
  BY DEF RoutingInv, Asking, Configured, AskRouted

LEMMA RoutingStep ==
  ASSUME RoutingInv, Next PROVE RoutingInv'
  <1>1. CASE Whole
    BY <1>1, RoutingAsked DEF Whole, given
  <1>2. CASE AskChunk
    <2>1. (IF parts[at].data THEN "data" ELSE "chunk") \in {"data", "chunk"}
      OBVIOUS
    <2>2. QED
      BY <1>2, <2>1, RoutingAsked DEF AskChunk, given
  <1>3. CASE AskMissing
    BY <1>3, RoutingAsked DEF AskMissing, given
  <1>4. CASE Transient
    <2>1. /\ ask # NoAsk /\ pc = "asked" /\ pc' = pc /\ conf' = conf
          /\ ask' = [ask EXCEPT !.attempt = @ + 1]
      BY <1>4 DEF Transient, given, RoutingInv, Asking
    <2>2. /\ DOMAIN ask' = RequestFields /\ ask' # NoAsk
          /\ ask'.client = ask.client /\ ask'.model = ask.model
      BY <2>1, RetryShape DEF RoutingInv, AskRouted
    <2>3. Asking' /\ Configured'
      BY <2>1, <2>2 DEF RoutingInv, Asking, Configured
    <2>4. AskRouted'
      BY <2>1, <2>2 DEF RoutingInv, AskRouted
    <2>5. QED
      BY <2>3, <2>4 DEF RoutingInv
  <1>5. CASE ChunkReply
    <2>1. pc = "asked" /\ conf' = conf
      BY <1>5 DEF ChunkReply, given
    <2>2. \/ ask' = Request("again", ask.items, 5) /\ pc' = pc
          \/ ask' = NoAsk /\ pc' = "chunk"
      BY <1>5 DEF ChunkReply, Accept
    <2>3. QED
      BY <2>1, <2>2, RoutingAsked, RoutingAnswered
  <1>6. CASE SecondReply
    BY <1>6, RoutingAnswered DEF SecondReply, Accept, given
  <1>7. CASE Fails \/ WholeReply \/ DataReply \/ CompletionFails
    BY <1>7, RoutingAnswered DEF Fails, WholeReply, DataReply, CompletionFails, given
  <1>8. CASE CompletionReply
    BY <1>8, RoutingAnswered DEF CompletionReply, given
  <1>9. CASE Begin
    BY <1>9, RoutingAnswered DEF Begin, RoutingInv, Asking
  <1>10. CASE Modules \/ ModulesMigrated \/ Agree
    BY <1>10, RoutingAnswered DEF Modules, ModulesMigrated, Agree, given, RoutingInv, Asking
  <1>11. CASE Chunks
    BY <1>11, RoutingAnswered DEF Chunks, given, RoutingInv, Asking
  <1>12. CASE Combine \/ CompletionEnds
    BY <1>12, RoutingAnswered DEF Combine, CompletionEnds, given, RoutingInv, Asking
  <1>13. CASE StartCompletion
    BY <1>13, RoutingAnswered DEF StartCompletion, given, RoutingInv, Asking
  <1>14. CASE StartEnsemble
    BY <1>14, RoutingAnswered DEF StartEnsemble, RoutingInv, Asking
  <1>15. CASE (\E k \in DOMAIN tasks : TaskEnds(k)) \/ Launch \/ Await
    BY <1>15, RoutingAnswered DEF TaskEnds, Launch, Await, RoutingInv, Asking
  <1>16. CASE Select
    BY <1>16, RoutingAnswered DEF Select, RoutingInv, Asking
  <1>17. QED
    BY <1>1, <1>2, <1>3, <1>4, <1>5, <1>6, <1>7, <1>8, <1>9, <1>10, <1>11, <1>12, <1>13, <1>14,
       <1>15, <1>16 DEF Next

LEMMA RoutingHolds == Spec => []RoutingInv
  <1>1. RoutingInv /\ [Next]_vars => RoutingInv'
    BY RoutingStep, RoutingKept
  <1>2. QED
    BY RoutingInit, <1>1, PTL DEF Spec

\* Whatever is asked, of whatever file and with whatever keys, goes to the provider
\* whose model it names (create_llm_client, select_model, LlmClientPool).
THEOREM RequestsReachTheirModel == Spec => []ClientHasTheModel
  <1>1. RoutingInv => ClientHasTheModel
    <2>1. SUFFICES ASSUME RoutingInv, ask # NoAsk PROVE ClientHasTheModel
      BY DEF ClientHasTheModel
    <2>2. /\ conf \in AConf /\ ask.client = CreateClient(conf)
          /\ ask.model = SelectModel(conf, conf.difficulty, "translation").model
      BY <2>1, FirstTextAssumption DEF RoutingInv, Asking, Configured, AskRouted, AConf
    <2>3. QED
      BY <2>2, RequestIsRouted DEF ClientHasTheModel
  <1>2. QED
    BY <1>1, RoutingHolds, PTL

-----------------------------------------------------------------------------
(***************************************************************************)
(* The winner of an ensemble.                                              *)
(***************************************************************************)
ACandidate == [compiles : BOOLEAN, score : Nat, unsafe : Nat, cost : Nat, label : Nat]

\* What the winner w owes the candidate c.
Unbeaten(w, c) == c.compiles => w.compiles /\ ~Before(c, w)

\* The order of a tournament; what it does not decide, the cost does.
AtLeast(w, c) == (c.compiles => w.compiles) /\ (c.compiles = w.compiles => ~Before(c, w))

LEMMA BeforeIsAnOrder ==
  ASSUME NEW a \in ACandidate, NEW b \in ACandidate, NEW c \in ACandidate
  PROVE  /\ ~Before(a, a)
         /\ Before(a, b) /\ Before(b, c) => Before(a, c)
         /\ ~Before(b, a) /\ ~Before(c, b) => ~Before(c, a)
  BY DEF Before, ACandidate

LEMMA AtLeastIsTransitive ==
  ASSUME NEW a \in ACandidate, NEW b \in ACandidate, NEW c \in ACandidate,
         AtLeast(a, b), AtLeast(b, c)
  PROVE  AtLeast(a, c)
  BY DEF AtLeast, Before, ACandidate

LEMMA BetterIsAtLeast ==
  ASSUME NEW a \in ACandidate, NEW b \in ACandidate
  PROVE  /\ Better(a, b) \in ACandidate
         /\ AtLeast(Better(a, b), a) /\ AtLeast(Better(a, b), b) /\ AtLeast(a, a)
  <1>1. a.compiles \in BOOLEAN /\ b.compiles \in BOOLEAN
    BY DEF ACandidate
  <1>2. Better(a, b) = a \/ Better(a, b) = b
    BY DEF Better
  <1>3. AtLeast(a, a) /\ AtLeast(b, b)
    BY DEF AtLeast, Before, ACandidate
  <1>4. Better(a, b) = a => AtLeast(a, b)
    BY <1>1 DEF AtLeast, Before, Better, ACandidate
  <1>5. Better(a, b) = b => AtLeast(b, a)
    BY <1>1 DEF AtLeast, Before, Better, ACandidate
  <1>6. QED
    BY <1>2, <1>3, <1>4, <1>5

\* Some candidate of every choice of them has none before it.
LEMMA NoneBefore ==
  ASSUME NEW cs \in Seq(ACandidate), NEW places \in SUBSET (DOMAIN cs), places # {}
  PROVE  \E i \in places : \A j \in places : ~Before(cs[j], cs[i])
  <1> DEFINE Choice(m) == {p \in SUBSET (DOMAIN cs) : p # {} /\ \A i \in p : i <= m}
             Good == {m \in Nat : \A p \in Choice(m) : \E i \in p : \A j \in p : ~Before(cs[j], cs[i])}
  <1>1. Len(cs) \in Nat /\ DOMAIN cs = 1 .. Len(cs) /\ \A i \in DOMAIN cs : cs[i] \in ACandidate
    OBVIOUS
  <1>2. 0 \in Good
    BY <1>1
  <1>3. \A m \in Nat : m \in Good => m + 1 \in Good
    <2>1. SUFFICES ASSUME NEW m \in Nat, m \in Good,
                          NEW p, p \in Choice(m + 1)
                   PROVE  \E i \in p : \A j \in p : ~Before(cs[j], cs[i])
      <3> HIDE DEF Choice
      <3>1. \A m \in Nat : m + 1 \in Nat
        OBVIOUS
      <3>2. QED
        BY <3>1, Zenon
    <2>2. CASE m + 1 \notin p
      <3>1. p \in Choice(m)
        BY <1>1, <2>1, <2>2
      <3>2. QED
        BY <2>1, <3>1
    <2>3. CASE p = {m + 1}
      BY <1>1, <2>1, <2>3, BeforeIsAnOrder
    <2>4. CASE m + 1 \in p /\ p # {m + 1}
      <3> DEFINE q == p \ {m + 1}
      <3>1. q \in Choice(m)
        BY <1>1, <2>1, <2>4
      <3>2. PICK i \in q : \A j \in q : ~Before(cs[j], cs[i])
        BY <2>1, <3>1
      <3>3. i \in DOMAIN cs /\ m + 1 \in DOMAIN cs /\ p \subseteq DOMAIN cs
        BY <2>1, <2>4, <3>2
      <3>4. cs[i] \in ACandidate /\ cs[m + 1] \in ACandidate /\ \A j \in p : cs[j] \in ACandidate
        BY <1>1, <3>3
      <3>5. CASE Before(cs[m + 1], cs[i])
        <4>1. \A j \in p : ~Before(cs[j], cs[m + 1])
          <5>1. SUFFICES ASSUME NEW j \in p, Before(cs[j], cs[m + 1]) PROVE FALSE
            OBVIOUS
          <5>2. Before(cs[j], cs[i])
            BY <3>4, <3>5, <5>1, BeforeIsAnOrder
          <5>3. j # m + 1
            BY <3>4, <5>1, BeforeIsAnOrder
          <5>4. QED
            BY <3>2, <5>2, <5>3
        <4>2. QED
          BY <2>4, <4>1
      <3>6. CASE ~Before(cs[m + 1], cs[i])
        BY <3>2, <3>6
      <3>7. QED
        BY <3>5, <3>6
    <2>5. QED
      BY <2>2, <2>3, <2>4
  <1>4. Len(cs) \in Good
    <2> HIDE DEF Good
    <2>1. QED
      BY <1>1, <1>2, <1>3, SetInduction
  <1>5. places \in Choice(Len(cs))
    BY <1>1
  <1>6. QED
    BY <1>4, <1>5

\* A round leaves half of them, and for each one as good or better.
LEMMA RoundKeepsTheBest ==
  ASSUME NEW r \in Seq(ACandidate), Len(r) >= 1
  PROVE  /\ Round(r) \in Seq(ACandidate)
         /\ Len(Round(r)) = (Len(r) + 1) \div 2
         /\ \A i \in 1 .. Len(r) : \E k \in 1 .. Len(Round(r)) : AtLeast(Round(r)[k], r[i])
  <1> DEFINE half == (Len(r) + 1) \div 2
  <1>1. Len(r) \in Nat /\ half \in Nat /\ \A i \in 1 .. Len(r) : r[i] \in ACandidate
    OBVIOUS
  <1>2. ASSUME NEW k \in 1 .. half PROVE Round(r)[k] \in ACandidate
    <2>1. Round(r)[k] = IF 2 * k <= Len(r) THEN Better(r[2 * k - 1], r[2 * k]) ELSE r[2 * k - 1]
      BY DEF Round
    <2>2. 2 * k - 1 \in 1 .. Len(r)
      BY <1>1
    <2>3. 2 * k <= Len(r) => 2 * k \in 1 .. Len(r)
      BY <1>1
    <2>4. QED
      BY <1>1, <2>1, <2>2, <2>3, BetterIsAtLeast
  <1>3. Round(r) \in [1 .. half -> ACandidate]
    BY <1>2 DEF Round
  <1>4. Round(r) \in Seq(ACandidate) /\ Len(Round(r)) = half
    <2> HIDE DEF half
    <2>1. QED
      BY <1>1, <1>3
  <1>5. ASSUME NEW i \in 1 .. Len(r) PROVE \E k \in 1 .. half : AtLeast(Round(r)[k], r[i])
    <2> DEFINE k == (i + 1) \div 2
    <2>1. k \in 1 .. half /\ i \in {2 * k - 1, 2 * k}
      BY <1>1
    <2>2. Round(r)[k] = IF 2 * k <= Len(r) THEN Better(r[2 * k - 1], r[2 * k]) ELSE r[2 * k - 1]
      BY <2>1 DEF Round
    <2> HIDE DEF k
    <2>3. CASE 2 * k <= Len(r)
      <3>1. 2 * k - 1 \in 1 .. Len(r) /\ 2 * k \in 1 .. Len(r)
        BY <1>1, <2>1, <2>3
      <3>2. /\ AtLeast(Better(r[2 * k - 1], r[2 * k]), r[2 * k - 1])
            /\ AtLeast(Better(r[2 * k - 1], r[2 * k]), r[2 * k])
        BY <1>1, <3>1, BetterIsAtLeast
      <3>3. QED
        BY <2>1, <2>2, <2>3, <3>2
    <2>4. CASE ~(2 * k <= Len(r))
      <3>1. i = 2 * k - 1
        BY <1>1, <2>1, <2>4
      <3>2. AtLeast(r[i], r[i])
        BY <1>1, BetterIsAtLeast
      <3>3. QED
        BY <2>1, <2>2, <2>4, <3>1, <3>2
    <2>5. QED
      BY <2>3, <2>4
  <1>6. QED
    BY <1>4, <1>5

\* The winner of all rounds is as good as any.
LEMMA TournamentWinner ==
  ASSUME NEW cs \in Seq(ACandidate), Len(cs) >= 1
  PROVE  /\ SelectTournament(cs) \in ACandidate
         /\ \A i \in 1 .. Len(cs) : AtLeast(SelectTournament(cs), cs[i])
  <1>1. Len(cs) \in Nat /\ \A i \in 1 .. Len(cs) : cs[i] \in ACandidate
    OBVIOUS
  <1>2. PICK f : /\ Chain("round", <<>>, {}, cs, Len(cs), f)
                 /\ SelectTournament(cs) = f[Len(cs)][1]
    BY <1>1, TournamentIsAChain
  <1>3. f[0] = cs /\ \A n \in 1 .. Len(cs) : f[n] = Round(f[n - 1])
    <2>1. f[0] = cs /\ \A n \in 1 .. Len(cs) : f[n] = StepOf("round", <<>>, {}, f[n - 1], n)
      BY <1>1, <1>2, ChainSteps
    <2>2. QED
      BY <2>1 DEF StepOf
  <1> DEFINE Stands(n) == /\ f[n] \in Seq(ACandidate) /\ Len(f[n]) >= 1
                          /\ Len(f[n]) = 1 \/ Len(f[n]) <= Len(cs) - n
                          /\ \A i \in 1 .. Len(cs) : \E k \in 1 .. Len(f[n]) : AtLeast(f[n][k], cs[i])
             Rounds == {n \in Nat : n <= Len(cs) => Stands(n)}
  <1>4. Stands(0)
    <2>1. \A i \in 1 .. Len(cs) : AtLeast(cs[i], cs[i])
      BY <1>1, BetterIsAtLeast
    <2>2. QED
      BY <1>1, <1>3, <2>1
  <1>5. ASSUME NEW n \in Nat, n + 1 <= Len(cs), Stands(n) PROVE Stands(n + 1)
    <2>1. f[n + 1] = Round(f[n])
      BY <1>1, <1>3, <1>5
    <2> DEFINE r == f[n]
    <2>2. r \in Seq(ACandidate) /\ Len(r) >= 1 /\ (Len(r) = 1 \/ Len(r) <= Len(cs) - n)
      BY <1>5
    <2>3. \A i \in 1 .. Len(cs) : \E k \in 1 .. Len(r) : AtLeast(r[k], cs[i])
      BY <1>5
    <2> HIDE DEF r
    <2>4. /\ Round(r) \in Seq(ACandidate) /\ Len(Round(r)) = (Len(r) + 1) \div 2
          /\ \A i \in 1 .. Len(r) : \E k \in 1 .. Len(Round(r)) : AtLeast(Round(r)[k], r[i])
      BY ONLY <2>2, RoundKeepsTheBest
    <2>5. Len(Round(r)) >= 1 /\ (Len(Round(r)) = 1 \/ Len(Round(r)) <= Len(cs) - (n + 1))
      <3>1. Len(r) \in Nat /\ Len(Round(r)) \in Nat
        BY <2>2, <2>4
      <3>2. QED
        BY <1>1, <2>2, <2>4, <3>1
    <2>6. ASSUME NEW i \in 1 .. Len(cs)
          PROVE  \E k \in 1 .. Len(Round(r)) : AtLeast(Round(r)[k], cs[i])
      <3>1. PICK j \in 1 .. Len(r) : AtLeast(r[j], cs[i])
        BY <2>3
      <3>2. PICK k \in 1 .. Len(Round(r)) : AtLeast(Round(r)[k], r[j])
        BY <2>4
      <3>3. r[j] \in ACandidate /\ Round(r)[k] \in ACandidate
        BY <2>2, <2>4
      <3>4. QED
        BY <1>1, <3>1, <3>2, <3>3, AtLeastIsTransitive
    <2>7. f[n + 1] = Round(r)
      BY <2>1 DEF r
    <2>8. QED
      BY <2>4, <2>5, <2>6, <2>7
  <1> HIDE DEF Stands
  <1>6. 0 \in Rounds
    BY <1>4
  <1>7. ASSUME NEW n \in Nat, n \in Rounds PROVE n + 1 \in Rounds
    BY <1>1, <1>5, <1>7
  <1>8. Stands(Len(cs))
    <2> HIDE DEF Rounds
    <2>1. Nat \subseteq Rounds
      BY <1>6, <1>7, SetInduction
    <2>2. QED
      BY <1>1, <2>1 DEF Rounds
  <1>9. /\ f[Len(cs)] \in Seq(ACandidate) /\ Len(f[Len(cs)]) = 1
        /\ \A i \in 1 .. Len(cs) : \E k \in 1 .. Len(f[Len(cs)]) : AtLeast(f[Len(cs)][k], cs[i])
    BY <1>1, <1>8 DEF Stands
  <1>10. QED
    BY <1>2, <1>9

LEMMA BestIsUnbeaten ==
  ASSUME NEW cs \in Seq(ACandidate), NEW s \in Strategies, NEW i \in 1 .. Len(cs)
  PROVE  LET w == SelectBest(cs, s)
         IN /\ cs[i].compiles => w.compiles
            /\ s # "FirstCompiles" => Unbeaten(w, cs[i])
  <1> DEFINE w == SelectBest(cs, s)
  <1>1. /\ Len(cs) \in Nat /\ DOMAIN cs = 1 .. Len(cs) /\ Len(cs) >= 1 /\ cs # <<>>
        /\ \A j \in 1 .. Len(cs) : cs[j] \in ACandidate
    OBVIOUS
  <1>2. SUFFICES ASSUME cs[i].compiles
                 PROVE  w.compiles /\ (s # "FirstCompiles" => ~Before(cs[i], w))
    BY DEF Unbeaten
  <1>3. /\ i \in Compiling(cs) /\ Compiling(cs) \in SUBSET Nat /\ Compiling(cs) \in SUBSET (DOMAIN cs)
        /\ Compiling(cs) # {} /\ \A j \in Compiling(cs) : cs[j].compiles
    BY <1>1, <1>2 DEF Compiling
  <1>4. CASE s = "FirstCompiles"
    <2>1. w = cs[Min(Compiling(cs))]
      BY <1>1, <1>3, <1>4 DEF SelectBest, SelectFirstCompiles
    <2>2. Min(Compiling(cs)) \in Compiling(cs)
      BY <1>3, LeastExists
    <2> HIDE DEF w
    <2>3. QED
      BY <1>3, <1>4, <2>1, <2>2
  <1>5. CASE s = "BestScore"
    <2> DEFINE places == Compiling(cs)
               top == {k \in places : \A j \in places : ~Before(cs[j], cs[k])}
    <2>1. w = cs[Min(top)]
      BY <1>1, <1>3, <1>5 DEF SelectBest, SelectBestScore, FirstInOrder
    <2>2. top # {} /\ top \in SUBSET Nat
      BY <1>3, NoneBefore
    <2>3. Min(top) \in top
      <3> HIDE DEF top
      <3>1. QED
        BY <2>2, LeastExists
    <2> HIDE DEF w
    <2>4. QED
      BY <1>3, <2>1, <2>3
  <1>6. CASE s = "Tournament"
    <2>1. w = SelectTournament(cs)
      BY <1>1, <1>6 DEF SelectBest
    <2>2. w \in ACandidate /\ AtLeast(w, cs[i])
      BY <1>1, <2>1, TournamentWinner
    <2> HIDE DEF w
    <2>3. w.compiles \in BOOLEAN /\ cs[i].compiles \in BOOLEAN
      BY <1>1, <2>2 DEF ACandidate
    <2>4. QED
      BY <1>2, <2>2, <2>3 DEF AtLeast
  <1>7. QED
    BY <1>4, <1>5, <1>6 DEF Strategies

LEMMA UpdateFacts ==
  ASSUME NEW s, IsASeq(s), NEW k \in DOMAIN s, NEW e
  PROVE  LET t == [s EXCEPT ![k] = e]
         IN /\ IsASeq(t) /\ Len(t) = Len(s) /\ DOMAIN t = DOMAIN s
            /\ t[k] = e /\ \A j \in DOMAIN s : j # k => t[j] = s[j]
  <1> DEFINE t == [s EXCEPT ![k] = e]
  <1>1. Len(s) \in Nat /\ DOMAIN s = 1 .. Len(s)
    BY SeqFacts
  <1>2. DOMAIN t = 1 .. Len(s) /\ t = [i \in 1 .. Len(s) |-> t[i]]
    BY <1>1
  <1>3. t[k] = e /\ \A j \in DOMAIN s : j # k => t[j] = s[j]
    OBVIOUS
  <1> HIDE DEF t
  <1>4. IsASeq(t) /\ Len(t) = Len(s)
    BY <1>1, <1>2, FunctionIsASeq
  <1>5. QED
    BY <1>1, <1>2, <1>3, <1>4 DEF t

\* What is known of a candidate that is done is typed; what is awaited is one of them.
TasksOK ==
  /\ IsASeq(tasks) /\ DOMAIN tasks \subseteq DOMAIN Candidates
  /\ \A k \in DOMAIN tasks : tasks[k].state = "done" => Graded(tasks[k]) \in ACandidate

AwaitedOK == cands \in Seq(ACandidate) /\ waited \in Nat

NoneWonYet == pc # "selected" => won = NoWinner

EnsembleInv == TasksOK /\ AwaitedOK /\ NoneWonYet /\ WinnerIsUnbeaten

LEMMA EnsembleInit == Init => EnsembleInv
  <1>1. SUFFICES ASSUME Init PROVE EnsembleInv
    OBVIOUS
  <1>2. tasks = <<>> /\ cands = <<>> /\ waited = 0 /\ won = NoWinner
    BY <1>1 DEF Init
  <1>3. IsASeq(tasks) /\ DOMAIN tasks = {}
    BY <1>2, EmptyIsASeq, SeqFacts
  <1>4. QED
    BY <1>2, <1>3 DEF EnsembleInv, TasksOK, AwaitedOK, NoneWonYet, WinnerIsUnbeaten

LEMMA EnsembleFrame ==
  ASSUME EnsembleInv, UNCHANGED <<tasks, cands, waited, won>>, pc # "selected" \/ pc' = pc
  PROVE  EnsembleInv'
  <1>1. TasksOK'
    BY DEF EnsembleInv, TasksOK, Graded, IsASeq
  <1>2. AwaitedOK' /\ NoneWonYet'
    BY DEF EnsembleInv, AwaitedOK, NoneWonYet
  <1>3. WinnerIsUnbeaten'
    BY DEF EnsembleInv, WinnerIsUnbeaten
  <1>4. QED
    BY <1>1, <1>2, <1>3 DEF EnsembleInv

\* A task that begins or ends.
LEMMA TaskSet ==
  ASSUME TasksOK, NEW k \in DOMAIN tasks, NEW task,
         task.state = "done" => Graded(task) \in ACandidate,
         tasks' = [tasks EXCEPT ![k] = task]
  PROVE  TasksOK'
  <1>1. /\ IsASeq(tasks') /\ DOMAIN tasks' = DOMAIN tasks
        /\ tasks'[k] = task /\ \A j \in DOMAIN tasks : j # k => tasks'[j] = tasks[j]
    BY UpdateFacts DEF TasksOK
  <1>2. ASSUME NEW j \in DOMAIN tasks', tasks'[j].state = "done" PROVE Graded(tasks'[j]) \in ACandidate
    <2>1. CASE j = k
      BY <1>1, <1>2, <2>1
    <2>2. CASE j # k
      <3>1. tasks'[j] = tasks[j] /\ j \in DOMAIN tasks
        BY <1>1, <1>2, <2>2
      <3>2. QED
        BY <1>2, <3>1 DEF TasksOK, Graded
    <2>3. QED
      BY <2>1, <2>2
  <1>3. QED
    BY <1>1, <1>2 DEF TasksOK, Graded

LEMMA EnsembleTaskEnds ==
  ASSUME EnsembleInv, NEW k \in DOMAIN tasks, TaskEnds(k)
  PROVE  EnsembleInv'
  <1>1. UNCHANGED <<pc, cands, waited, won>>
    BY DEF TaskEnds
  <1>2. PICK task : /\ tasks' = [tasks EXCEPT ![k] = task]
                    /\ task.state = "done" => Graded(task) \in ACandidate
    <2>1. CASE tasks' = [tasks EXCEPT ![k] = [state |-> "failed"]]
      <3> DEFINE task == [state |-> "failed"]
      <3>1. task.state # "done"
        OBVIOUS
      <3>2. tasks' = [tasks EXCEPT ![k] = task]
        BY <2>1
      <3> HIDE DEF task
      <3>3. QED
        BY <3>1, <3>2
    <2>2. ASSUME NEW g \in Grades,
                 tasks' = [tasks EXCEPT ![k] = [state |-> "done", compiles |-> g.compiles, score |-> g.score,
                                         unsafe |-> g.unsafe, cost |-> Candidates[k].price, label |-> k]]
          PROVE  \E task : /\ tasks' = [tasks EXCEPT ![k] = task]
                           /\ task.state = "done" => Graded(task) \in ACandidate
      <3> DEFINE task == [state |-> "done", compiles |-> g.compiles, score |-> g.score,
                          unsafe |-> g.unsafe, cost |-> Candidates[k].price, label |-> k]
      <3>1. g \in [compiles : BOOLEAN, score : Nat, unsafe : Nat]
        BY FirstTextAssumption
      <3>2. k \in DOMAIN Candidates /\ k \in Nat
        <4>1. k \in DOMAIN Candidates
          BY DEF EnsembleInv, TasksOK
        <4>2. Candidates \in Seq([provider : AProvider, price : Nat])
          BY FirstTextAssumption
        <4>3. QED
          BY <4>1, <4>2
      <3>3. Candidates[k].price \in Nat
        <4>1. Candidates \in Seq([provider : AProvider, price : Nat])
          BY FirstTextAssumption
        <4>2. Candidates[k] \in [provider : AProvider, price : Nat]
          BY ONLY <3>2, <4>1, ElementsTyped
        <4>3. QED
          BY <4>2
      <3>4. Graded(task) \in ACandidate
        BY <3>1, <3>2, <3>3 DEF Graded, ACandidate
      <3>5. QED
        BY <2>2, <3>4
    <2>3. QED
      BY <2>1, <2>2 DEF TaskEnds
  <1>3. TasksOK'
    BY <1>2, TaskSet DEF EnsembleInv
  <1>4. AwaitedOK' /\ NoneWonYet' /\ WinnerIsUnbeaten'
    BY <1>1 DEF EnsembleInv, AwaitedOK, NoneWonYet, WinnerIsUnbeaten
  <1>5. QED
    BY <1>3, <1>4 DEF EnsembleInv

LEMMA EnsembleStarts ==
  ASSUME EnsembleInv, StartEnsemble
  PROVE  EnsembleInv'
  <1>1. pc = "start" /\ pc' = "ensemble" /\ UNCHANGED <<cands, waited, won>>
    BY DEF StartEnsemble
  <1>2. PICK parallel \in BOOLEAN :
          tasks' = [k \in DOMAIN Candidates |-> IF parallel THEN Running ELSE Waiting]
    BY DEF StartEnsemble
  <1>3. Len(Candidates) \in Nat /\ DOMAIN Candidates = 1 .. Len(Candidates)
    BY FirstTextAssumption
  <1>4. IsASeq(tasks') /\ DOMAIN tasks' = DOMAIN Candidates
    <2> DEFINE t == [k \in DOMAIN Candidates |-> IF parallel THEN Running ELSE Waiting]
    <2>1. DOMAIN t = 1 .. Len(Candidates) /\ t = [k \in 1 .. Len(Candidates) |-> t[k]]
      BY <1>3
    <2>2. t = tasks'
      BY <1>2
    <2> HIDE DEF t
    <2>3. IsASeq(t)
      BY <1>3, <2>1, FunctionIsASeq
    <2>4. QED
      BY <1>3, <2>1, <2>2, <2>3
  <1>5. \A k \in DOMAIN tasks' : tasks'[k].state # "done"
    BY <1>2 DEF Running, Waiting
  <1>6. TasksOK'
    BY <1>4, <1>5 DEF TasksOK, Graded
  <1>7. AwaitedOK' /\ NoneWonYet' /\ WinnerIsUnbeaten'
    BY <1>1 DEF EnsembleInv, AwaitedOK, NoneWonYet, WinnerIsUnbeaten
  <1>8. QED
    BY <1>6, <1>7 DEF EnsembleInv

LEMMA EnsembleLaunch ==
  ASSUME EnsembleInv, Launch
  PROVE  EnsembleInv'
  <1>1. /\ UNCHANGED <<pc, cands, waited, won>> /\ waited < Len(tasks)
        /\ tasks' = [tasks EXCEPT ![waited + 1] = Running]
    BY DEF Launch
  <1>2. waited + 1 \in DOMAIN tasks
    <2>1. waited \in Nat /\ Len(tasks) \in Nat /\ DOMAIN tasks = 1 .. Len(tasks)
      BY SeqFacts DEF EnsembleInv, TasksOK, AwaitedOK
    <2>2. QED
      BY <1>1, <2>1
  <1>3. Running.state # "done"
    BY DEF Running
  <1>4. TasksOK'
    BY <1>1, <1>2, <1>3, TaskSet DEF EnsembleInv
  <1>5. AwaitedOK' /\ NoneWonYet' /\ WinnerIsUnbeaten'
    BY <1>1 DEF EnsembleInv, AwaitedOK, NoneWonYet, WinnerIsUnbeaten
  <1>6. QED
    BY <1>4, <1>5 DEF EnsembleInv

LEMMA EnsembleAwait ==
  ASSUME EnsembleInv, Await
  PROVE  EnsembleInv'
  <1>1. /\ pc = "ensemble" /\ pc' = pc /\ UNCHANGED <<tasks, won>> /\ waited' = waited + 1
        /\ waited < Len(tasks)
        /\ cands' = IF tasks[waited + 1].state = "done" THEN Append(cands, Graded(tasks[waited + 1]))
                    ELSE cands
    BY DEF Await
  <1>2. waited \in Nat /\ waited + 1 \in DOMAIN tasks
    <2>1. waited \in Nat /\ Len(tasks) \in Nat /\ DOMAIN tasks = 1 .. Len(tasks)
      BY SeqFacts DEF EnsembleInv, TasksOK, AwaitedOK
    <2>2. QED
      BY <1>1, <2>1
  <1>3. cands \in Seq(ACandidate)
    BY DEF EnsembleInv, AwaitedOK
  <1>4. cands' \in Seq(ACandidate)
    <2>1. CASE tasks[waited + 1].state = "done"
      <3> DEFINE c == Graded(tasks[waited + 1])
      <3>1. c \in ACandidate
        BY <1>2, <2>1 DEF EnsembleInv, TasksOK
      <3>2. cands' = Append(cands, c)
        BY <1>1, <2>1
      <3> HIDE DEF c
      <3>3. QED
        BY <1>3, <3>1, <3>2, TypedAppend
    <2>2. CASE tasks[waited + 1].state # "done"
      BY <1>1, <1>3, <2>2
    <2>3. QED
      BY <2>1, <2>2
  <1>5. AwaitedOK'
    BY <1>1, <1>2, <1>4 DEF AwaitedOK
  <1>6. TasksOK'
    BY <1>1 DEF EnsembleInv, TasksOK, Graded, IsASeq
  <1>7. NoneWonYet' /\ WinnerIsUnbeaten'
    BY <1>1 DEF EnsembleInv, NoneWonYet, WinnerIsUnbeaten
  <1>8. QED
    BY <1>5, <1>6, <1>7 DEF EnsembleInv

LEMMA EnsembleSelect ==
  ASSUME EnsembleInv, Select
  PROVE  EnsembleInv'
  <1>1. PICK s \in Strategies : won' = [strategy |-> s, candidate |-> SelectBest(cands, s)]
    BY DEF Select
  <1>2. pc' = "selected" /\ UNCHANGED <<tasks, cands, waited>>
    BY DEF Select
  <1>3. TasksOK'
    BY <1>2 DEF EnsembleInv, TasksOK, Graded, IsASeq
  <1>4. AwaitedOK' /\ NoneWonYet'
    BY <1>2 DEF EnsembleInv, AwaitedOK, NoneWonYet
  <1>5. WinnerIsUnbeaten'
    <2> DEFINE w == SelectBest(cands, s)
    <2>1. cands \in Seq(ACandidate)
      BY DEF EnsembleInv, AwaitedOK
    <2>2. ASSUME NEW i \in 1 .. Len(cands)
          PROVE  /\ cands[i].compiles => w.compiles
                 /\ s # "FirstCompiles" => Unbeaten(w, cands[i])
      BY <2>1, <2>2, BestIsUnbeaten
    <2>3. DOMAIN cands = 1 .. Len(cands) /\ cands' = cands
      BY <1>2, <2>1
    <2>4. won'.strategy = s /\ won'.candidate = w
      BY <1>1
    <2> HIDE DEF w
    <2>5. ASSUME NEW c \in ToSet(cands)
          PROVE  /\ c.compiles => w.compiles
                 /\ s # "FirstCompiles" /\ c.compiles =>
                      ~ (c.score > w.score \/ (c.score = w.score /\ c.unsafe < w.unsafe))
      <3>1. PICK i \in 1 .. Len(cands) : c = cands[i]
        BY <2>3, <2>5 DEF ToSet
      <3>2. QED
        BY <2>2, <3>1 DEF Unbeaten, Before
    <2>6. QED
      BY <2>3, <2>4, <2>5 DEF WinnerIsUnbeaten
  <1>6. QED
    BY <1>3, <1>4, <1>5 DEF EnsembleInv

LEMMA EnsembleStep ==
  ASSUME EnsembleInv, Next PROVE EnsembleInv'
  <1>1. CASE Begin \/ Whole \/ Modules \/ ModulesMigrated
    BY <1>1, EnsembleFrame DEF Begin, Whole, Modules, ModulesMigrated, ensemble
  <1>2. CASE Chunks
    BY <1>2, EnsembleFrame DEF Chunks, ensemble
  <1>3. CASE Agree \/ AskChunk \/ Transient \/ Fails \/ WholeReply \/ DataReply
    BY <1>3, EnsembleFrame DEF Agree, AskChunk, Transient, Fails, WholeReply, DataReply, ensemble
  <1>4. CASE ChunkReply \/ SecondReply \/ Combine
    BY <1>4, EnsembleFrame DEF ChunkReply, SecondReply, Combine, ensemble
  <1>5. CASE StartCompletion \/ AskMissing \/ CompletionReply \/ CompletionFails \/ CompletionEnds
    BY <1>5, EnsembleFrame
       DEF StartCompletion, AskMissing, CompletionReply, CompletionFails, CompletionEnds, ensemble
  <1>6. QED
    BY <1>1, <1>2, <1>3, <1>4, <1>5, EnsembleStarts, EnsembleTaskEnds, EnsembleLaunch, EnsembleAwait,
       EnsembleSelect DEF Next

\* However the answers come in and whatever the strategy, no candidate that was
\* awaited beats the one that is taken (select_best, compare_candidates).
THEOREM WinnersAreUnbeaten == Spec => []WinnerIsUnbeaten
  <1>1. EnsembleInv /\ [Next]_vars => EnsembleInv'
    <2>1. ASSUME EnsembleInv, UNCHANGED vars PROVE EnsembleInv'
      BY <2>1, EnsembleFrame DEF vars
    <2>2. QED
      BY <2>1, EnsembleStep
  <1>2. EnsembleInv => WinnerIsUnbeaten
    BY DEF EnsembleInv
  <1>3. QED
    BY EnsembleInit, <1>1, <1>2, PTL DEF Spec

-----------------------------------------------------------------------------
(***************************************************************************)
(* How a C file is divided.                                                *)
(***************************************************************************)
LEMMA ItemsAtIsASeq ==
  ASSUME NEW list, IsASeq(list), NEW places
  PROVE  IsASeq(ItemsAt(list, places))
  <1>1. Len(list) \in Nat
    BY SeqFacts
  <1>2. PICK f : Chain("taken", list, places, <<>>, Len(list), f) /\ ItemsAt(list, places) = f[Len(list)]
    BY <1>1, ItemsAtIsAChain
  <1>3. /\ f[0] = <<>>
        /\ \A n \in 1 .. Len(list) : f[n] = IF n \in places THEN Append(f[n - 1], list[n]) ELSE f[n - 1]
    <2>1. f[0] = <<>> /\ \A n \in 1 .. Len(list) : f[n] = StepOf("taken", list, places, f[n - 1], n)
      BY <1>1, <1>2, ChainSteps
    <2>2. QED
      BY <2>1 DEF StepOf
  <1> DEFINE T == {n \in Nat : n <= Len(list) => IsASeq(f[n])}
  <1>4. 0 \in T
    BY <1>3, EmptyIsASeq
  <1>5. ASSUME NEW n \in Nat, n \in T PROVE n + 1 \in T
    <2>1. SUFFICES ASSUME n + 1 <= Len(list) PROVE IsASeq(f[n + 1])
      OBVIOUS
    <2>2. f[n + 1] = IF n + 1 \in places THEN Append(f[n], list[n + 1]) ELSE f[n]
      BY <1>1, <1>3, <2>1
    <2>3. IsASeq(f[n])
      BY <1>1, <1>5, <2>1
    <2>4. IsASeq(Append(f[n], list[n + 1]))
      BY <2>3, AppendFacts
    <2>5. QED
      BY <2>2, <2>3, <2>4
  <1>6. Nat \subseteq T
    <2> HIDE DEF T
    <2>1. QED
      BY <1>4, <1>5, SetInduction
  <1>7. QED
    BY <1>1, <1>2, <1>6

LEMMA FunctionsAreASeq ==
  ASSUME NEW c, IsASeq(c) PROVE IsASeq(Functions(c))
  BY ItemsAtIsASeq DEF Functions

LEMMA GroupsAreASeq ==
  ASSUME NEW fs, IsASeq(fs), NEW target
  PROVE  IsASeq(Groups(fs, target)) /\ \A i \in DOMAIN Groups(fs, target) : IsASeq(Groups(fs, target)[i])
  <1>1. Len(fs) \in Nat
    BY SeqFacts
  <1>2. PICK f : /\ Chain("grouped", fs, target, NoGroups, Len(fs), f)
                 /\ Groups(fs, target) = IF f[Len(fs)].now = <<>> THEN f[Len(fs)].done
                                         ELSE Append(f[Len(fs)].done, f[Len(fs)].now)
    BY <1>1, GroupsAreAChain
  <1>3. f[0] = NoGroups /\ \A n \in 1 .. Len(fs) : f[n] = AddToGroups(f[n - 1], fs[n], target)
    <2>1. Chain("grouped", fs, target, NoGroups, Len(fs), f)
      BY <1>2
    <2>2. /\ f[0] = NoGroups
          /\ \A n \in 1 .. Len(fs) : f[n] = StepOf("grouped", fs, target, f[n - 1], n)
      BY ONLY <1>1, <2>1 DEF Chain
    <2>3. QED
      BY <2>2 DEF StepOf
  <1> DEFINE Grouped(g) == /\ IsASeq(g.done) /\ IsASeq(g.now)
                           /\ \A i \in DOMAIN g.done : IsASeq(g.done[i])
             T == {n \in Nat : n <= Len(fs) => Grouped(f[n])}
  <1>4. Grouped(NoGroups)
    <2>1. IsASeq(<<>>) /\ DOMAIN <<>> = {}
      BY EmptyIsASeq, SeqFacts
    <2>2. NoGroups.done = <<>> /\ NoGroups.now = <<>>
      BY DEF NoGroups
    <2>3. QED
      BY <2>1, <2>2
  <1>5. ASSUME NEW done, IsASeq(done), \A i \in DOMAIN done : IsASeq(done[i]), NEW group, IsASeq(group)
        PROVE  /\ IsASeq(Append(done, group))
               /\ \A i \in DOMAIN Append(done, group) : IsASeq(Append(done, group)[i])
    <2>1. /\ IsASeq(Append(done, group)) /\ Len(Append(done, group)) = Len(done) + 1
          /\ Append(done, group)[Len(done) + 1] = group
          /\ \A i \in 1 .. Len(done) : Append(done, group)[i] = done[i]
      BY <1>5, AppendFacts
    <2>2. /\ DOMAIN Append(done, group) = 1 .. Len(done) + 1
          /\ DOMAIN done = 1 .. Len(done) /\ Len(done) \in Nat
      BY <1>5, <2>1, SeqFacts
    <2>3. ASSUME NEW i \in 1 .. Len(done) + 1 PROVE IsASeq(Append(done, group)[i])
      <3>1. CASE i = Len(done) + 1
        BY <1>5, <2>1, <3>1
      <3>2. CASE i # Len(done) + 1
        <4>1. i \in 1 .. Len(done)
          BY <2>2, <3>2
        <4>2. QED
          BY <1>5, <2>1, <2>2, <4>1
      <3>3. QED
        BY <3>1, <3>2
    <2>4. QED
      BY <2>1, <2>2, <2>3
  <1>6. ASSUME NEW g, Grouped(g), NEW x PROVE Grouped(AddToGroups(g, x, target))
    <2>1. CASE g.now # <<>> /\ CLines(g.now) + x.lines > target
      <3>1. AddToGroups(g, x, target) = [done |-> Append(g.done, g.now), now |-> <<x>>]
        BY <2>1 DEF AddToGroups
      <3>2. IsASeq(<<x>>)
        BY OneIsASeq
      <3>3. /\ IsASeq(Append(g.done, g.now))
            /\ \A i \in DOMAIN Append(g.done, g.now) : IsASeq(Append(g.done, g.now)[i])
        BY <1>5, <1>6
      <3>4. QED
        BY <3>1, <3>2, <3>3
    <2>2. CASE ~(g.now # <<>> /\ CLines(g.now) + x.lines > target)
      <3>1. AddToGroups(g, x, target) = [done |-> g.done, now |-> Append(g.now, x)]
        BY <2>2 DEF AddToGroups
      <3>2. IsASeq(Append(g.now, x))
        BY <1>6, AppendFacts
      <3>3. QED
        BY <1>6, <3>1, <3>2
    <2>3. QED
      BY <2>1, <2>2
  <1>7. 0 \in T
    BY <1>3, <1>4
  <1> HIDE DEF Grouped
  <1>8. ASSUME NEW n \in Nat, n \in T PROVE n + 1 \in T
    <2>1. SUFFICES ASSUME n + 1 <= Len(fs) PROVE Grouped(f[n + 1])
      OBVIOUS
    <2>2. f[n + 1] = AddToGroups(f[n], fs[n + 1], target) /\ Grouped(f[n])
      BY <1>1, <1>3, <1>8, <2>1
    <2>3. QED
      BY <1>6, <2>2
  <1>9. Nat \subseteq T
    <2> HIDE DEF T
    <2>1. QED
      BY <1>7, <1>8, SetInduction
  <1>10. Grouped(f[Len(fs)])
    BY <1>1, <1>9
  <1>11. CASE f[Len(fs)].now = <<>>
    BY <1>2, <1>10, <1>11 DEF Grouped
  <1>12. CASE f[Len(fs)].now # <<>>
    <2>1. Groups(fs, target) = Append(f[Len(fs)].done, f[Len(fs)].now)
      BY <1>2, <1>12
    <2>2. /\ IsASeq(f[Len(fs)].done) /\ IsASeq(f[Len(fs)].now)
          /\ \A i \in DOMAIN f[Len(fs)].done : IsASeq(f[Len(fs)].done[i])
      BY <1>10 DEF Grouped
    <2>3. QED
      BY <1>5, <2>1, <2>2
  <1>13. QED
    BY <1>11, <1>12

\* The chunks of a file, the first of which is no table.
AreChunks(p) == IsASeq(p) /\ \A i \in 1 .. Len(p) : p[i].data \in BOOLEAN

ChunksOK(p) == AreChunks(p) /\ (Len(p) >= 1 => ~p[1].data)

LEMMA CodeFirst ==
  ASSUME NEW p, IsASeq(p), \A i \in 1 .. Len(p) : p[i].data = FALSE
  PROVE  ChunksOK(p)
  <1>1. Len(p) \in Nat
    BY SeqFacts
  <1>2. Len(p) >= 1 => p[1].data = FALSE
    BY <1>1
  <1>3. QED
    BY <1>2 DEF ChunksOK, AreChunks

LEMMA ChunkData ==
  ASSUME NEW c, NEW items, NEW data
  PROVE  Chunk(c, items, data).data = data /\ Chunk(c, items, data).items = items
  BY DEF Chunk

\* p has the groups as chunks of code.
Hold(p, groups) ==
  /\ IsASeq(p) /\ Len(p) = Len(groups)
  /\ \A i \in 1 .. Len(groups) : p[i].items = groups[i] /\ p[i].data = FALSE

LEMMA ChunksOfCode ==
  ASSUME NEW c, NEW groups, IsASeq(groups)
  PROVE  Hold(ChunksOf(c, groups), groups)
  <1> DEFINE f == ChunksOf(c, groups)
  <1>1. Len(groups) \in Nat /\ DOMAIN groups = 1 .. Len(groups)
    BY SeqFacts
  <1>2. f = [i \in 1 .. Len(groups) |-> Chunk(c, groups[i], FALSE)]
    BY <1>1 DEF ChunksOf
  <1>3. DOMAIN f = 1 .. Len(groups) /\ \A i \in 1 .. Len(groups) : f[i] = Chunk(c, groups[i], FALSE)
    BY <1>2
  <1>4. f = [i \in 1 .. Len(groups) |-> f[i]]
    BY <1>2
  <1> HIDE DEF f
  <1>5. IsASeq(f) /\ Len(f) = Len(groups)
    BY ONLY <1>1, <1>3, <1>4, FunctionIsASeq
  <1>6. ASSUME NEW i \in 1 .. Len(groups) PROVE f[i].items = groups[i] /\ f[i].data = FALSE
    <2>1. /\ Chunk(c, groups[i], FALSE).items = groups[i]
          /\ Chunk(c, groups[i], FALSE).data = FALSE
      BY DEF Chunk
    <2>2. QED
      BY <1>3, <2>1
  <1>7. QED
    BY <1>5, <1>6 DEF f, Hold

LEMMA OneChunk ==
  ASSUME NEW c, NEW items, NEW data \in BOOLEAN
  PROVE  LET one == <<Chunk(c, items, data)>>
         IN /\ AreChunks(one) /\ IsASeq(one) /\ Len(one) = 1
            /\ one[1].items = items /\ one[1].data = data
  <1> DEFINE e == Chunk(c, items, data)
  <1>1. e.items = items /\ e.data = data
    BY ChunkData
  <1> HIDE DEF e
  <1>2. IsASeq(<<e>>) /\ Len(<<e>>) = 1 /\ <<e>>[1] = e
    BY OneIsASeq
  <1>3. AreChunks(<<e>>)
    <2>1. ASSUME NEW i \in 1 .. Len(<<e>>) PROVE <<e>>[i].data \in BOOLEAN
      <3>1. i = 1
        BY <1>2
      <3>2. QED
        BY <1>1, <1>2, <3>1
    <2>2. QED
      BY <1>2, <2>1 DEF AreChunks
  <1>4. QED
    BY <1>1, <1>2, <1>3 DEF e

LEMMA JoinedChunks ==
  ASSUME NEW p, NEW q, AreChunks(p), AreChunks(q)
  PROVE  /\ AreChunks(p \o q) /\ Len(p \o q) = Len(p) + Len(q)
         /\ \A i \in 1 .. Len(p) : (p \o q)[i] = p[i]
  <1>1. /\ IsASeq(p \o q) /\ Len(p \o q) = Len(p) + Len(q)
        /\ \A i \in 1 .. Len(p) : (p \o q)[i] = p[i]
        /\ \A i \in 1 .. Len(q) : (p \o q)[Len(p) + i] = q[i]
    BY JoinFacts DEF AreChunks
  <1>2. Len(p) \in Nat /\ Len(q) \in Nat
    BY SeqFacts DEF AreChunks
  <1>3. ASSUME NEW i \in 1 .. Len(p \o q) PROVE (p \o q)[i].data \in BOOLEAN
    <2>1. CASE i \in 1 .. Len(p)
      BY <1>1, <2>1 DEF AreChunks
    <2>2. CASE i \notin 1 .. Len(p)
      <3>1. i - Len(p) \in 1 .. Len(q) /\ Len(p) + (i - Len(p)) = i
        BY <1>1, <1>2, <2>2
      <3>2. (p \o q)[i] = q[i - Len(p)]
        BY <1>1, <3>1
      <3>3. QED
        BY <3>1, <3>2 DEF AreChunks
    <2>3. QED
      BY <2>1, <2>2
  <1>4. QED
    BY <1>1, <1>3 DEF AreChunks

LEMMA ChunkSourceOK ==
  ASSUME NEW c, IsASeq(c), NEW target
  PROVE  ChunksOK(ChunkSource(c, target))
  <1>1. CASE Functions(c) = <<>>
    <2> DEFINE e == [context |-> c, items |-> <<>>, data |-> FALSE]
    <2>1. ChunkSource(c, target) = <<e>> /\ e.data = FALSE
      BY <1>1 DEF ChunkSource
    <2> HIDE DEF e
    <2>2. IsASeq(<<e>>) /\ Len(<<e>>) = 1 /\ <<e>>[1] = e
      BY OneIsASeq
    <2>3. \A i \in 1 .. Len(<<e>>) : <<e>>[i].data = FALSE
      <3>1. \A i \in 1 .. 1 : i = 1
        OBVIOUS
      <3>2. QED
        BY <2>1, <2>2, <3>1
    <2>4. ChunksOK(<<e>>)
      BY <2>2, <2>3, CodeFirst
    <2>5. QED
      BY <2>1, <2>4
  <1>2. CASE Functions(c) # <<>>
    <2> DEFINE groups == Groups(Functions(c), target)
    <2>1. ChunkSource(c, target) = ChunksOf(c, groups)
      BY <1>2 DEF ChunkSource
    <2>2. IsASeq(groups)
      BY FunctionsAreASeq, GroupsAreASeq
    <2> HIDE DEF groups
    <2> DEFINE p == ChunksOf(c, groups)
    <2>3. Hold(p, groups)
      BY <2>2, ChunksOfCode
    <2> HIDE DEF p
    <2>4. ChunksOK(p)
      BY <2>3, CodeFirst DEF Hold
    <2>5. QED
      BY <2>1, <2>4 DEF p
  <1>3. QED
    BY <1>1, <1>2

\* What has the functions of the data model first, and then the tables.
LEMMA StructuralOK ==
  ASSUME NEW c, IsASeq(c), NEW target
  PROVE  ChunksOK(Structural(c, target))
  <1> DEFINE fs == Functions(c)
             models == ItemsAt(fs, {i \in DOMAIN fs : fs[i].model})
             others == ItemsAt(fs, {i \in DOMAIN fs : ~fs[i].model})
             tables == StaticBlocks(c)
             code == ChunksOf(c, Groups(others, target))
             top == <<Chunk(c, models, FALSE)>>
             data == IF tables = <<>> THEN <<>> ELSE <<Chunk(c, tables, TRUE)>>
  <1>1. CASE ~HasTypes(c) \/ models = <<>>
    <2>1. Structural(c, target) = ChunkSource(c, target)
      BY <1>1 DEF Structural
    <2>2. QED
      BY <2>1, ChunkSourceOK
  <1>2. CASE ~(~HasTypes(c) \/ models = <<>>)
    <2>1. Structural(c, target) = top \o data \o code
      BY <1>2 DEF Structural
    <2>2. AreChunks(code)
      <3>1. IsASeq(others)
        BY FunctionsAreASeq, ItemsAtIsASeq
      <3> HIDE DEF others
      <3>2. IsASeq(Groups(others, target))
        BY <3>1, GroupsAreASeq
      <3>3. Hold(code, Groups(others, target))
        BY <3>2, ChunksOfCode
      <3> HIDE DEF code
      <3>4. ChunksOK(code)
        BY <3>3, CodeFirst DEF Hold
      <3>5. QED
        BY <3>4 DEF ChunksOK
    <2> HIDE DEF models, tables, code
    <2>3. AreChunks(top) /\ Len(top) = 1 /\ top[1].data = FALSE
      BY OneChunk
    <2>4. AreChunks(data)
      <3>1. AreChunks(<<>>)
        BY EmptyIsASeq DEF AreChunks
      <3>2. AreChunks(<<Chunk(c, tables, TRUE)>>)
        BY OneChunk
      <3>3. QED
        BY <3>1, <3>2
    <2> HIDE DEF top, data
    <2>5. /\ AreChunks(top \o data) /\ Len(top \o data) = Len(top) + Len(data)
          /\ \A i \in 1 .. Len(top) : (top \o data)[i] = top[i]
      BY <2>3, <2>4, JoinedChunks
    <2>6. Len(data) \in Nat
      BY <2>4, SeqFacts DEF AreChunks
    <2> DEFINE h == top \o data
    <2>7. AreChunks(h) /\ h[1] = top[1] /\ Len(h) \in Nat /\ Len(h) >= 1
      BY <2>3, <2>5, <2>6
    <2> HIDE DEF h
    <2>8. AreChunks(h \o code) /\ \A i \in 1 .. Len(h) : (h \o code)[i] = h[i]
      BY <2>2, <2>7, JoinedChunks
    <2>9. (h \o code)[1].data = FALSE
      BY <2>3, <2>7, <2>8
    <2>10. ChunksOK(h \o code)
      BY <2>8, <2>9 DEF ChunksOK
    <2>11. QED
      BY <2>1, <2>10 DEF h
  <1>3. QED
    BY <1>1, <1>2

LEMMA ChosenChunksOK ==
  ASSUME IsASeq(cfile)
  PROVE  ChunksOK(ChosenChunks)
  BY ChunkSourceOK, StructuralOK DEF ChosenChunks

-----------------------------------------------------------------------------
(***************************************************************************)
(* Chunk by chunk: what a request for a chunk holds, and what there is of  *)
(* the chunks before it.                                                   *)
(***************************************************************************)
ChunkKinds == {"data", "chunk", "again"}

WithChunks == pc \in {"agree", "chunk"} \/ (pc = "asked" /\ ask.kind \in ChunkKinds)

FileGiven == pc \notin {"start", "ensemble", "selected"} => cfile \in CFiles

NoTextYet == IsASeq(outputs) /\ (pc \in {"start", "begun", "modules"} => outputs = <<>>)

ChunksHeld == WithChunks => ChunksOK(parts) /\ at \in Nat /\ 1 <= at /\ at <= Len(parts) + 1

\* The text of every chunk so far; all of the code's names are known.
TextsHeld ==
  WithChunks =>
    /\ Len(outputs) = at - 1
    /\ at > 1 => foundation = outputs[1]
    /\ \A i \in 1 .. at - 1 : ~parts[i].data => FnNames(outputs[i]) \subseteq sigs

ChunkAsked ==
  pc = "asked" /\ ask.kind \in ChunkKinds =>
    /\ at <= Len(parts)
    /\ parts[at].data <=> ask.kind = "data"
    /\ ask.kind # "data" =>
         /\ ask.items = parts[at].items /\ ask.sigs = sigs
         /\ at > 1 => ask.types = TypeLines(foundation)

ChunkParts == FileGiven /\ NoTextYet /\ ChunksHeld /\ TextsHeld /\ ChunkAsked

ChunkInv == RoutingInv /\ ChunkParts

LEMMA ChunkInit == Init => ChunkInv
  <1>1. SUFFICES ASSUME Init PROVE ChunkInv
    OBVIOUS
  <1>2. pc = "start" /\ outputs = <<>>
    BY <1>1 DEF Init
  <1>3. QED
    BY <1>1, <1>2, RoutingInit, EmptyIsASeq
       DEF ChunkInv, ChunkParts, FileGiven, NoTextYet, ChunksHeld, TextsHeld, ChunkAsked, WithChunks

\* Away from the chunks.
LEMMA ChunkQuiet ==
  ASSUME ChunkInv, UNCHANGED outputs, pc' \notin {"agree", "chunk"},
         pc' = "asked" => ask'.kind \notin ChunkKinds,
         pc' \in {"start", "begun", "modules"} => pc \in {"start", "begun", "modules"},
         pc' \in {"start", "ensemble", "selected"} \/ cfile' \in CFiles
           \/ (UNCHANGED cfile /\ pc \notin {"start", "ensemble", "selected"})
  PROVE  ChunkParts'
  BY DEF ChunkInv, ChunkParts, FileGiven, NoTextYet, ChunksHeld, TextsHeld, ChunkAsked, WithChunks, IsASeq

LEMMA ChunkKept ==
  ASSUME ChunkInv, UNCHANGED vars PROVE ChunkParts'
  <1>1. UNCHANGED <<pc, ask, cfile, parts, at, outputs, foundation, sigs>>
    BY DEF vars
  <1>2. FileGiven' /\ NoTextYet'
    BY <1>1 DEF ChunkInv, ChunkParts, FileGiven, NoTextYet, IsASeq
  <1>3. ChunksHeld' /\ TextsHeld' /\ ChunkAsked'
    BY <1>1 DEF ChunkInv, ChunkParts, ChunksHeld, TextsHeld, ChunkAsked, WithChunks
  <1>4. QED
    BY <1>2, <1>3 DEF ChunkParts

LEMMA ChunksBegin ==
  ASSUME ChunkInv, Chunks PROVE ChunkParts'
  <1>1. /\ pc \in {"begun", "modules"} /\ parts' = ChosenChunks /\ at' = 1 /\ pc' \in {"agree", "chunk"}
        /\ UNCHANGED <<cfile, ask, outputs, foundation, sigs>>
    BY DEF Chunks, given
  <1>2. cfile \in CFiles /\ outputs = <<>>
    BY <1>1 DEF ChunkInv, ChunkParts, FileGiven, NoTextYet
  <1>3. IsASeq(cfile)
    BY <1>2, FirstTextAssumption DEF IsASeq
  <1>4. ChunksOK(parts')
    BY <1>1, <1>3, ChosenChunksOK
  <1>5. Len(parts') \in Nat
    BY <1>4, SeqFacts DEF ChunksOK, AreChunks
  <1>6. FileGiven' /\ NoTextYet'
    BY <1>1, <1>2, EmptyIsASeq DEF FileGiven, NoTextYet
  <1>7. ChunksHeld'
    BY <1>1, <1>4, <1>5 DEF ChunksHeld
  <1>8. TextsHeld'
    BY <1>1, <1>2, EmptyIsASeq DEF TextsHeld
  <1>9. ChunkAsked'
    BY <1>1 DEF ChunkAsked
  <1>10. QED
    BY <1>6, <1>7, <1>8, <1>9 DEF ChunkParts

\* A chunk is asked for, again or for the first time.
LEMMA ChunkRequested ==
  ASSUME ChunkInv, WithChunks, at <= Len(parts), UNCHANGED <<cfile, parts, at, outputs, foundation, sigs>>,
         pc' = "asked", NEW kind \in ChunkKinds, parts[at].data <=> kind = "data", NEW temp,
         ask' = Request(kind, parts[at].items, temp)
  PROVE  ChunkParts'
  <1>1. ask'.kind = kind /\ ask'.items = parts[at].items
    BY RequestShape DEF ChunkKinds
  <1>2. /\ kind # "data" => ask'.sigs = sigs
        /\ kind # "data" /\ at > 1 => ask'.types = TypeLines(foundation)
    BY RequestShape DEF ChunkKinds
  <1>3. FileGiven' /\ NoTextYet'
    BY DEF ChunkInv, ChunkParts, FileGiven, NoTextYet, IsASeq, WithChunks
  <1>4. ChunksHeld' /\ TextsHeld'
    BY DEF ChunkInv, ChunkParts, ChunksHeld, TextsHeld
  <1>5. ChunkAsked'
    BY <1>1, <1>2 DEF ChunkAsked
  <1>6. QED
    BY <1>3, <1>4, <1>5 DEF ChunkParts

LEMMA ChunkFirstAsked ==
  ASSUME ChunkInv, AskChunk PROVE ChunkParts'
  <1> DEFINE kind == IF parts[at].data THEN "data" ELSE "chunk"
  <1>1. /\ pc = "chunk" /\ at <= Len(parts) /\ pc' = "asked" /\ ask' = Request(kind, parts[at].items, 3)
        /\ UNCHANGED <<cfile, parts, at, outputs, foundation, sigs>>
    BY DEF AskChunk, given, chunking
  <1>2. kind \in ChunkKinds /\ (parts[at].data <=> kind = "data") /\ WithChunks
    BY <1>1 DEF ChunkKinds, WithChunks
  <1> HIDE DEF kind
  <1>3. QED
    BY <1>1, <1>2, ChunkRequested

LEMMA ChunkRetried ==
  ASSUME ChunkInv, Transient PROVE ChunkParts'
  <1>1. /\ pc = "asked" /\ pc' = pc /\ ask' = [ask EXCEPT !.attempt = @ + 1]
        /\ UNCHANGED <<cfile, parts, at, outputs, foundation, sigs>>
    BY DEF Transient, given, chunking
  <1>2. DOMAIN ask = RequestFields
    BY <1>1 DEF ChunkInv, RoutingInv, Asking, AskRouted
  <1>3. ask'.kind = ask.kind /\ ask'.items = ask.items /\ ask'.types = ask.types /\ ask'.sigs = ask.sigs
    BY <1>1, <1>2, RetryShape
  <1>4. FileGiven' /\ NoTextYet'
    BY <1>1 DEF ChunkInv, ChunkParts, FileGiven, NoTextYet, IsASeq
  <1>5. ChunksHeld' /\ TextsHeld'
    BY <1>1, <1>3 DEF ChunkInv, ChunkParts, ChunksHeld, TextsHeld, WithChunks
  <1>6. ChunkAsked'
    BY <1>1, <1>3 DEF ChunkInv, ChunkParts, ChunkAsked
  <1>7. QED
    BY <1>4, <1>5, <1>6 DEF ChunkParts

\* The text of a chunk is added; the first chunk is never a table.
LEMMA ChunkAdded ==
  ASSUME ChunkInv, pc = "asked", ask.kind \in ChunkKinds, NEW t,
         outputs' = Append(outputs, t), at' = at + 1, pc' = "chunk", UNCHANGED <<cfile, parts>>,
         IF ask.kind = "data" THEN UNCHANGED <<sigs, foundation>>
         ELSE /\ sigs' = sigs \union FnNames(t)
              /\ foundation' = IF at = 1 THEN t ELSE foundation
  PROVE  ChunkParts'
  <1>1. WithChunks /\ at \in Nat /\ 1 <= at /\ at <= Len(parts) /\ Len(parts) \in Nat /\ ChunksOK(parts)
    BY SeqFacts DEF WithChunks, ChunkInv, ChunkParts, ChunksHeld, ChunkAsked, ChunksOK, AreChunks
  <1>2. IsASeq(outputs) /\ Len(outputs) = at - 1
    BY <1>1 DEF ChunkInv, ChunkParts, NoTextYet, TextsHeld
  <1>3. /\ IsASeq(outputs') /\ Len(outputs') = at /\ outputs'[at] = t
        /\ \A i \in 1 .. at - 1 : outputs'[i] = outputs[i]
    <2>1. /\ IsASeq(Append(outputs, t)) /\ Len(Append(outputs, t)) = Len(outputs) + 1
          /\ Append(outputs, t)[Len(outputs) + 1] = t
          /\ \A i \in 1 .. Len(outputs) : Append(outputs, t)[i] = outputs[i]
      BY <1>2, AppendFacts
    <2>2. Len(outputs) + 1 = at
      BY <1>1, <1>2
    <2>3. QED
      BY <1>2, <2>1, <2>2
  <1>4. parts[at].data <=> ask.kind = "data"
    BY DEF ChunkInv, ChunkParts, ChunkAsked
  <1>5. FileGiven' /\ NoTextYet'
    BY <1>3 DEF ChunkInv, ChunkParts, FileGiven, NoTextYet
  <1>6. ChunksHeld'
    BY <1>1 DEF ChunksHeld
  <1>7. ChunkAsked'
    BY DEF ChunkAsked
  <1>8. foundation' = outputs'[1]
    <2>1. CASE at = 1
      <3>1. ~parts[1].data
        BY <1>1 DEF ChunksOK
      <3>2. ask.kind # "data"
        BY <1>4, <2>1, <3>1
      <3>3. QED
        BY <1>3, <2>1, <3>2
    <2>2. CASE at # 1
      <3>1. at > 1 /\ 1 \in 1 .. at - 1
        BY <1>1, <2>2
      <3>2. foundation = outputs[1]
        BY <1>1, <3>1 DEF ChunkInv, ChunkParts, TextsHeld
      <3>3. foundation' = foundation
        BY <2>2
      <3>4. QED
        BY <1>3, <3>1, <3>2, <3>3
    <2>3. QED
      BY <2>1, <2>2
  <1>9. ASSUME NEW i \in 1 .. at, ~parts[i].data PROVE FnNames(outputs'[i]) \subseteq sigs'
    <2>1. sigs \subseteq sigs'
      OBVIOUS
    <2>2. CASE i = at
      BY <1>3, <1>4, <1>9, <2>2
    <2>3. CASE i # at
      <3>1. i \in 1 .. at - 1
        BY <1>1, <2>3
      <3>2. FnNames(outputs[i]) \subseteq sigs /\ outputs'[i] = outputs[i]
        BY <1>1, <1>3, <1>9, <3>1 DEF ChunkInv, ChunkParts, TextsHeld
      <3>3. QED
        BY <2>1, <3>2
    <2>4. QED
      BY <2>2, <2>3
  <1>10. TextsHeld'
    <2>1. at' - 1 = at /\ parts' = parts
      BY <1>1
    <2>2. QED
      BY <1>3, <1>8, <1>9, <2>1 DEF TextsHeld
  <1>11. QED
    BY <1>5, <1>6, <1>7, <1>10 DEF ChunkParts

\* What Accept does, and when.
LEMMA ChunkAccepted ==
  ASSUME ChunkInv, pc = "asked", ask.kind \in {"chunk", "again"}, NEW t, Accept(t),
         UNCHANGED <<cfile, parts>>
  PROVE  ChunkParts'
  <1>1. /\ outputs' = Append(outputs, t) /\ at' = at + 1 /\ pc' = "chunk"
        /\ sigs' = sigs \union FnNames(t)
        /\ foundation' = IF at = 1 THEN t ELSE foundation
    BY DEF Accept, Signatures
  <1>2. ask.kind \in ChunkKinds /\ ask.kind # "data"
    BY DEF ChunkKinds
  <1>3. QED
    BY <1>1, <1>2, ChunkAdded

LEMMA ChunkReplied ==
  ASSUME ChunkInv, ChunkReply PROVE ChunkParts'
  <1>1. pc = "asked" /\ ask.kind = "chunk" /\ UNCHANGED <<cfile, parts>>
    BY DEF ChunkReply, given
  <1>2. PICK t : IF IsStub(ask.items, t)
                 THEN /\ ask' = Request("again", ask.items, 5)
                      /\ UNCHANGED <<pc, at, outputs, foundation, sigs>>
                 ELSE Accept(t)
    BY DEF ChunkReply
  <1>3. CASE IsStub(ask.items, t)
    <2>1. /\ WithChunks /\ at <= Len(parts) /\ ask.items = parts[at].items /\ ~parts[at].data
      BY <1>1 DEF WithChunks, ChunkKinds, ChunkInv, ChunkParts, ChunkAsked
    <2>2. "again" \in ChunkKinds /\ (parts[at].data <=> "again" = "data")
      BY <2>1 DEF ChunkKinds
    <2>3. ask' = Request("again", parts[at].items, 5)
      BY <1>2, <1>3, <2>1
    <2>4. pc' = "asked" /\ UNCHANGED <<cfile, parts, at, outputs, foundation, sigs>>
      BY <1>1, <1>2, <1>3
    <2>5. QED
      BY <2>1, <2>2, <2>3, <2>4, ChunkRequested
  <1>4. CASE ~IsStub(ask.items, t)
    BY <1>1, <1>2, <1>4, ChunkAccepted
  <1>5. QED
    BY <1>3, <1>4

LEMMA SecondChunkReplied ==
  ASSUME ChunkInv, SecondReply PROVE ChunkParts'
  <1>1. pc = "asked" /\ ask.kind = "again" /\ UNCHANGED <<cfile, parts>>
    BY DEF SecondReply, given
  <1>2. PICK t : Accept(t)
    BY DEF SecondReply
  <1>3. QED
    BY <1>1, <1>2, ChunkAccepted

LEMMA TableReplied ==
  ASSUME ChunkInv, DataReply PROVE ChunkParts'
  <1>1. /\ pc = "asked" /\ ask.kind = "data" /\ at' = at + 1 /\ pc' = "chunk"
        /\ UNCHANGED <<cfile, parts, sigs, foundation>>
    BY DEF DataReply, given
  <1>2. PICK t : outputs' = Append(outputs, t)
    BY DEF DataReply
  <1>3. ask.kind \in ChunkKinds
    BY <1>1 DEF ChunkKinds
  <1>4. QED
    BY <1>1, <1>2, <1>3, ChunkAdded

LEMMA ChunkStep ==
  ASSUME ChunkInv, Next PROVE ChunkParts'
  <1>1. CASE Begin
    BY <1>1, ChunkQuiet DEF Begin, chunking
  <1>2. CASE Whole
    <2>1. ask'.kind = "whole"
      BY <1>2, RequestShape DEF Whole
    <2>2. QED
      BY <1>2, <2>1, ChunkQuiet DEF Whole, chunking, given, ChunkKinds
  <1>3. CASE Modules \/ ModulesMigrated
    BY <1>3, ChunkQuiet DEF Modules, ModulesMigrated, chunking, given
  <1>4. CASE Agree
    <2>1. pc = "agree" /\ pc' = "chunk" /\ UNCHANGED <<cfile, parts, at, ask, outputs, foundation, sigs>>
      BY <1>4 DEF Agree, given
    <2>2. FileGiven' /\ NoTextYet'
      BY <2>1 DEF ChunkInv, ChunkParts, FileGiven, NoTextYet, IsASeq
    <2>3. ChunksHeld' /\ TextsHeld' /\ ChunkAsked'
      BY <2>1 DEF ChunkInv, ChunkParts, ChunksHeld, TextsHeld, ChunkAsked, WithChunks
    <2>4. QED
      BY <2>2, <2>3 DEF ChunkParts
  <1>5. CASE Fails
    BY <1>5, ChunkQuiet DEF Fails, chunking, given
  <1>6. CASE WholeReply
    BY <1>6, ChunkQuiet DEF WholeReply, chunking, given
  <1>7. CASE Combine \/ CompletionFails \/ CompletionEnds
    BY <1>7, ChunkQuiet DEF Combine, CompletionFails, CompletionEnds, chunking, given
  <1>8. CASE StartCompletion
    BY <1>8, ChunkQuiet DEF StartCompletion, chunking, given
  <1>9. CASE AskMissing
    <2>1. PICK items : ask' = Request("completion", items, 3)
      BY <1>9 DEF AskMissing
    <2>2. ask'.kind = "completion"
      BY <2>1, RequestShape
    <2>3. QED
      BY <1>9, <2>2, ChunkQuiet DEF AskMissing, chunking, given, ChunkKinds
  <1>10. CASE CompletionReply
    BY <1>10, ChunkQuiet DEF CompletionReply, chunking, given
  <1>11. CASE StartEnsemble
    BY <1>11, ChunkQuiet DEF StartEnsemble, chunking
  <1>12. CASE (\E k \in DOMAIN tasks : TaskEnds(k)) \/ Launch \/ Await
    BY <1>12, ChunkQuiet DEF TaskEnds, Launch, Await, chunking
  <1>13. CASE Select
    BY <1>13, ChunkQuiet DEF Select, chunking
  <1>14. QED
    BY <1>1, <1>2, <1>3, <1>4, <1>5, <1>6, <1>7, <1>8, <1>9, <1>10, <1>11, <1>12, <1>13, ChunksBegin,
       ChunkFirstAsked, ChunkRetried, ChunkReplied, SecondChunkReplied, TableReplied DEF Next

LEMMA ChunkHolds == Spec => []ChunkInv
  <1>1. ChunkInv /\ [Next]_vars => ChunkInv'
    <2>1. ASSUME ChunkInv, Next PROVE ChunkInv'
      BY <2>1, ChunkStep, RoutingStep DEF ChunkInv
    <2>2. ASSUME ChunkInv, UNCHANGED vars PROVE ChunkInv'
      BY <2>2, ChunkKept, RoutingKept DEF ChunkInv
    <2>3. QED
      BY <2>1, <2>2
  <1>2. QED
    BY ChunkInit, <1>1, PTL DEF Spec

\* The lines quoted of a text name all its types, though not their members.
LEMMA TypesAreNamed ==
  ASSUME NEW t
  PROVE  TypeNames(t) \subseteq {l.name : l \in TypeLines(t)}
  BY DEF TypeNames, TypeLines

\* Whatever the chunks are and whatever comes back, a chunk of code is asked for with
\* the names of the first chunk's types and the functions of all the code before it
\* (translate_chunked, chunk_c_source_structural).
THEOREM LaterChunksAreTold == Spec => []LaterChunksKnowTheEarlier
  <1>1. ChunkInv => LaterChunksKnowTheEarlier
    <2>1. SUFFICES ASSUME ChunkInv, pc = "asked", ask.kind \in {"chunk", "again"}, at > 1
                   PROVE  /\ ~parts[1].data /\ TypeNames(outputs[1]) \subseteq {l.name : l \in ask.types}
                          /\ \A i \in 1 .. at - 1 : ~parts[i].data => FnNames(outputs[i]) \subseteq ask.sigs
      BY DEF LaterChunksKnowTheEarlier
    <2>2. ask.kind \in ChunkKinds /\ ask.kind # "data" /\ WithChunks
      BY <2>1 DEF ChunkKinds, WithChunks
    <2>3. ChunksOK(parts) /\ at \in Nat /\ at <= Len(parts) /\ Len(parts) \in Nat
      BY <2>1, <2>2, SeqFacts DEF ChunkInv, ChunkParts, ChunksHeld, ChunkAsked, ChunksOK, AreChunks
    <2>4. ~parts[1].data
      BY <2>1, <2>3 DEF ChunksOK
    <2>5. ask.types = TypeLines(foundation) /\ ask.sigs = sigs /\ foundation = outputs[1]
      BY <2>1, <2>2 DEF ChunkInv, ChunkParts, ChunkAsked, TextsHeld
    <2>6. \A i \in 1 .. at - 1 : ~parts[i].data => FnNames(outputs[i]) \subseteq sigs
      <3>1. TextsHeld
        BY <2>1 DEF ChunkInv, ChunkParts
      <3>2. QED
        BY <2>2, <3>1, Zenon DEF TextsHeld
    <2>7. TypeNames(outputs[1]) \subseteq {l.name : l \in ask.types}
      BY <2>5, TypesAreNamed
    <2>8. QED
      BY <2>4, <2>5, <2>6, <2>7
  <1>2. QED
    BY <1>1, ChunkHolds, PTL

\* The one answer that is added is the last one of the list.
LEMMA LastAdded ==
  ASSUME NEW s, IsASeq(s), NEW e
  PROVE  Append(s, e)[Len(Append(s, e))] = e
  <1>1. Len(Append(s, e)) = Len(s) + 1 /\ Append(s, e)[Len(s) + 1] = e
    BY AppendFacts
  <1>2. QED
    BY <1>1

StubAddedAfterTwo ==
  Len(outputs') > Len(outputs) /\ ~parts[at].data /\ IsStub(parts[at].items, outputs'[Len(outputs')])
    => ask.kind = "again" /\ outputs'[Len(outputs')] = kept

LEMMA NothingAdded ==
  ASSUME ChunkInv, UNCHANGED outputs PROVE StubAddedAfterTwo
  <1>1. Len(outputs) \in Nat
    BY SeqFacts DEF ChunkInv, ChunkParts, NoTextYet
  <1>2. ~(Len(outputs') > Len(outputs))
    BY <1>1
  <1>3. QED
    BY <1>2 DEF StubAddedAfterTwo

\* Whatever the model answers, a stub becomes the text of a chunk only when a second
\* answer was asked for and was a stub too, and then it is the first one
\* (is_stub_output and the retry of translate_chunked).
THEOREM StubsAreAskedForTwice == Spec => StubOnlyAfterTwo
  <1>1. ASSUME ChunkInv, Next PROVE StubAddedAfterTwo
    <2>1. CASE DataReply
      <3>1. parts[at].data
        BY <1>1, <2>1 DEF DataReply, ChunkInv, ChunkParts, ChunkAsked, ChunkKinds
      <3>2. QED
        BY <3>1 DEF StubAddedAfterTwo
    <2>2. CASE ChunkReply
      <3>1. ask.items = parts[at].items
        BY <1>1, <2>2 DEF ChunkReply, ChunkInv, ChunkParts, ChunkAsked, ChunkKinds
      <3>2. PICK t : IF IsStub(ask.items, t) THEN UNCHANGED outputs ELSE Accept(t)
        BY <2>2 DEF ChunkReply
      <3>3. CASE IsStub(ask.items, t)
        BY <1>1, <3>2, <3>3, NothingAdded
      <3>4. CASE ~IsStub(ask.items, t)
        <4>1. outputs' = Append(outputs, t)
          BY <3>2, <3>4 DEF Accept
        <4>2. outputs'[Len(outputs')] = t
          BY <1>1, <4>1, LastAdded DEF ChunkInv, ChunkParts, NoTextYet
        <4>3. QED
          BY <3>1, <3>4, <4>2 DEF StubAddedAfterTwo
      <3>5. QED
        BY <3>3, <3>4
    <2>3. CASE SecondReply
      <3>1. ask.kind = "again" /\ ask.items = parts[at].items
        BY <1>1, <2>3 DEF SecondReply, ChunkInv, ChunkParts, ChunkAsked, ChunkKinds
      <3>2. PICK t : Accept(IF IsStub(ask.items, t) THEN kept ELSE t)
        BY <2>3 DEF SecondReply
      <3>3. PICK e : e = IF IsStub(ask.items, t) THEN kept ELSE t
        OBVIOUS
      <3>4. outputs' = Append(outputs, e)
        BY <3>2, <3>3 DEF Accept
      <3>5. outputs'[Len(outputs')] = e
        BY <1>1, <3>4, LastAdded DEF ChunkInv, ChunkParts, NoTextYet
      <3>6. QED
        BY <3>1, <3>3, <3>5 DEF StubAddedAfterTwo
    <2>4. CASE Begin \/ Whole \/ Modules \/ ModulesMigrated \/ Agree \/ AskChunk \/ Transient \/ Fails
      BY <1>1, <2>4, NothingAdded
         DEF Begin, Whole, Modules, ModulesMigrated, Agree, AskChunk, Transient, Fails, chunking
    <2>5. CASE Chunks \/ WholeReply \/ Combine \/ StartCompletion \/ AskMissing \/ CompletionReply
      BY <1>1, <2>5, NothingAdded
         DEF Chunks, WholeReply, Combine, StartCompletion, AskMissing, CompletionReply, chunking
    <2>6. CASE CompletionFails \/ CompletionEnds \/ StartEnsemble \/ Launch \/ Await \/ Select
      BY <1>1, <2>6, NothingAdded
         DEF CompletionFails, CompletionEnds, StartEnsemble, Launch, Await, Select, chunking
    <2>7. CASE \E k \in DOMAIN tasks : TaskEnds(k)
      BY <1>1, <2>7, NothingAdded DEF TaskEnds, chunking
    <2>8. QED
      BY <1>1, <2>1, <2>2, <2>3, <2>4, <2>5, <2>6, <2>7 DEF Next
  <1>2. ASSUME ChunkInv, UNCHANGED vars PROVE StubAddedAfterTwo
    BY <1>2, NothingAdded DEF vars
  <1>3. ChunkInv /\ [Next]_vars =>
          [ Len(outputs') > Len(outputs) /\ ~parts[at].data
              /\ IsStub(parts[at].items, outputs'[Len(outputs')])
            => /\ ask.kind = "again"
               /\ outputs'[Len(outputs')] = kept ]_vars
    BY <1>1, <1>2 DEF StubAddedAfterTwo
  <1>4. QED
    BY <1>3, ChunkHolds, PTL DEF Spec, StubOnlyAfterTwo

-----------------------------------------------------------------------------
(***************************************************************************)
(* Each function once.  Parts of four kinds divide a set when each element *)
(* is at one place of one part: items, groups of items, modules, chunks.   *)
(***************************************************************************)
Content(kind, x) ==
  IF kind = "item" THEN <<x>>
  ELSE IF kind = "group" THEN x
  ELSE IF kind = "module" THEN x.functions
  ELSE IF x.data THEN <<>> ELSE x.items

Each(s) == IsASeq(s) /\ \A i, j \in 1 .. Len(s) : s[i] = s[j] => i = j

Divided(kind, p, S) ==
  /\ IsASeq(p)
  /\ \A i \in 1 .. Len(p) : Each(Content(kind, p[i]))
  /\ \A i, j \in 1 .. Len(p) : \A x : x \in ToSet(Content(kind, p[i])) /\ x \in ToSet(Content(kind, p[j])) => i = j
  /\ \A x : x \in S <=> \E i \in 1 .. Len(p) : x \in ToSet(Content(kind, p[i]))

LEMMA ItemContent ==
  ASSUME NEW x
  PROVE  Each(Content("item", x)) /\ \A y : y \in ToSet(Content("item", x)) <=> y = x
  <1>1. IsASeq(<<x>>) /\ Len(<<x>>) = 1 /\ ToSet(<<x>>) = {x}
    BY OneIsASeq
  <1>2. Each(<<x>>)
    BY <1>1 DEF Each
  <1>3. QED
    BY <1>1, <1>2 DEF Content

LEMMA ToSetOfASeq ==
  ASSUME NEW s, IsASeq(s)
  PROVE  \A x : x \in ToSet(s) <=> \E i \in 1 .. Len(s) : x = s[i]
  BY SeqFacts DEF ToSet

LEMMA EachIsDivided ==
  ASSUME NEW s
  PROVE  /\ Each(s) => Divided("item", s, ToSet(s))
         /\ \A S : Divided("item", s, S) => Each(s) /\ ToSet(s) = S
  <1>1. /\ \A i : Each(Content("item", s[i]))
        /\ \A i : \A y : y \in ToSet(Content("item", s[i])) <=> y = s[i]
    BY ItemContent
  <1>2. Each(s) => Divided("item", s, ToSet(s))
    <2>1. SUFFICES ASSUME Each(s) PROVE Divided("item", s, ToSet(s))
      OBVIOUS
    <2>2. \A x : x \in ToSet(s) <=> \E i \in 1 .. Len(s) : x = s[i]
      BY <2>1, ToSetOfASeq DEF Each
    <2>3. IsASeq(s) /\ \A i, j \in 1 .. Len(s) : s[i] = s[j] => i = j
      BY <2>1 DEF Each
    <2>4. \A i, j \in 1 .. Len(s) : \A x :
            x \in ToSet(Content("item", s[i])) /\ x \in ToSet(Content("item", s[j])) => i = j
      <3>1. SUFFICES ASSUME NEW i \in 1 .. Len(s), NEW j \in 1 .. Len(s), NEW x,
                            x \in ToSet(Content("item", s[i])), x \in ToSet(Content("item", s[j]))
                     PROVE  i = j
        OBVIOUS
      <3>2. x = s[i] /\ x = s[j]
        BY <1>1, <3>1
      <3>3. QED
        BY <2>3, <3>2
    <2>5. \A x : x \in ToSet(s) <=> \E i \in 1 .. Len(s) : x \in ToSet(Content("item", s[i]))
      BY <1>1, <2>2
    <2>6. QED
      BY <1>1, <2>3, <2>4, <2>5 DEF Divided
  <1>3. ASSUME NEW S, Divided("item", s, S) PROVE Each(s) /\ ToSet(s) = S
    <2>1. IsASeq(s)
      BY <1>3 DEF Divided
    <2>2. \A x : x \in ToSet(s) <=> \E i \in 1 .. Len(s) : x = s[i]
      BY <2>1, ToSetOfASeq
    <2>3. \A x : x \in S <=> \E i \in 1 .. Len(s) : x = s[i]
      BY <1>1, <1>3 DEF Divided
    <2>4. ToSet(s) = S
      BY <2>2, <2>3
    <2>5. \A i, j \in 1 .. Len(s) : s[i] = s[j] => i = j
      BY <1>1, <1>3 DEF Divided
    <2>6. QED
      BY <2>1, <2>4, <2>5 DEF Each
  <1>4. QED
    BY <1>2, <1>3

LEMMA DividedEmpty ==
  ASSUME NEW kind
  PROVE  Divided(kind, <<>>, {})
  BY EmptyIsASeq DEF Divided

LEMMA EachEmpty == Each(<<>>) /\ ToSet(<<>>) = {}
  BY EmptyIsASeq, SeqFacts DEF Each, ToSet

LEMMA DividedOne ==
  ASSUME NEW kind, NEW x, Each(Content(kind, x))
  PROVE  Divided(kind, <<x>>, ToSet(Content(kind, x)))
  <1>1. IsASeq(<<x>>) /\ Len(<<x>>) = 1 /\ <<x>>[1] = x
    BY OneIsASeq
  <1> DEFINE s == <<x>>
  <1>2. \A i \in 1 .. Len(s) : i = 1 /\ s[i] = x
    BY <1>1
  <1>3. 1 \in 1 .. Len(s)
    BY <1>1
  <1>4. IsASeq(s)
    BY <1>1
  <1> HIDE DEF s
  <1>5. Divided(kind, s, ToSet(Content(kind, x)))
    BY <1>2, <1>3, <1>4 DEF Divided
  <1>6. QED
    BY <1>5 DEF s

LEMMA DividedJoin ==
  ASSUME NEW kind, NEW p, NEW S, NEW q, NEW T, Divided(kind, p, S), Divided(kind, q, T),
         \A x : ~(x \in S /\ x \in T)
  PROVE  Divided(kind, p \o q, S \union T)
  <1> DEFINE r == p \o q
             In(x, i) == x \in ToSet(Content(kind, r[i]))
  <1>1. IsASeq(p) /\ IsASeq(q) /\ Len(p) \in Nat /\ Len(q) \in Nat
    BY SeqFacts DEF Divided
  <1>2. /\ IsASeq(r) /\ Len(r) = Len(p) + Len(q)
        /\ \A i \in 1 .. Len(p) : r[i] = p[i]
        /\ \A i \in 1 .. Len(q) : r[Len(p) + i] = q[i]
    BY <1>1, JoinFacts
  <1> HIDE DEF r
  <1>3. ASSUME NEW i \in 1 .. Len(r)
        PROVE  \/ i \in 1 .. Len(p) /\ r[i] = p[i]
               \/ i > Len(p) /\ i - Len(p) \in 1 .. Len(q) /\ r[i] = q[i - Len(p)]
    <2>1. CASE i \in 1 .. Len(p)
      BY <1>2, <2>1
    <2>2. CASE i \notin 1 .. Len(p)
      <3>1. i > Len(p) /\ i - Len(p) \in 1 .. Len(q) /\ Len(p) + (i - Len(p)) = i
        BY <1>1, <1>2, <2>2
      <3>2. QED
        BY <1>2, <3>1
    <2>3. QED
      BY <2>1, <2>2
  <1>4. ASSUME NEW i \in 1 .. Len(r) PROVE Each(Content(kind, r[i]))
    BY <1>3 DEF Divided
  <1>5. ASSUME NEW i \in 1 .. Len(r), NEW x, In(x, i)
        PROVE  \/ i \in 1 .. Len(p) /\ x \in ToSet(Content(kind, p[i])) /\ x \in S
               \/ i > Len(p) /\ i - Len(p) \in 1 .. Len(q) /\ x \in ToSet(Content(kind, q[i - Len(p)])) /\ x \in T
    BY <1>3, <1>5 DEF Divided
  <1>6. ASSUME NEW i \in 1 .. Len(r), NEW j \in 1 .. Len(r), NEW x, In(x, i), In(x, j)
        PROVE  i = j
    <2>1. \/ i \in 1 .. Len(p) /\ x \in ToSet(Content(kind, p[i])) /\ x \in S
          \/ i > Len(p) /\ i - Len(p) \in 1 .. Len(q) /\ x \in ToSet(Content(kind, q[i - Len(p)])) /\ x \in T
      BY <1>5, <1>6
    <2>2. \/ j \in 1 .. Len(p) /\ x \in ToSet(Content(kind, p[j])) /\ x \in S
          \/ j > Len(p) /\ j - Len(p) \in 1 .. Len(q) /\ x \in ToSet(Content(kind, q[j - Len(p)])) /\ x \in T
      BY <1>5, <1>6
    <2>3. CASE x \in S
      BY <2>1, <2>2, <2>3 DEF Divided
    <2>4. CASE x \notin S
      <3>1. i - Len(p) = j - Len(p)
        BY <2>1, <2>2, <2>4 DEF Divided
      <3>2. i \in Int /\ j \in Int
        OBVIOUS
      <3>3. QED
        BY <1>1, <3>1, <3>2
    <2>5. QED
      BY <2>3, <2>4
  <1>7. ASSUME NEW x, x \in S PROVE \E i \in 1 .. Len(r) : In(x, i)
    <2>1. PICK i \in 1 .. Len(p) : x \in ToSet(Content(kind, p[i]))
      BY <1>7 DEF Divided
    <2>2. i \in 1 .. Len(r) /\ r[i] = p[i]
      BY <1>1, <1>2
    <2>3. QED
      BY <2>1, <2>2
  <1>8. ASSUME NEW x, x \in T PROVE \E i \in 1 .. Len(r) : In(x, i)
    <2>1. PICK i \in 1 .. Len(q) : x \in ToSet(Content(kind, q[i]))
      BY <1>8 DEF Divided
    <2>2. Len(p) + i \in 1 .. Len(r) /\ r[Len(p) + i] = q[i]
      BY <1>1, <1>2
    <2>3. QED
      BY <2>1, <2>2
  <1>9. \A x : x \in S \union T <=> \E i \in 1 .. Len(r) : x \in ToSet(Content(kind, r[i]))
    BY <1>5, <1>7, <1>8
  <1>10. QED
    BY <1>2, <1>4, <1>6, <1>9 DEF Divided, r

LEMMA FlattenedIsAChain ==
  ASSUME NEW list, IsASeq(list), Len(list) >= 1
  PROVE  \E f : Chain("joined", list, {}, <<>>, Len(list), f) /\ FlattenSeq(list) = f[Len(list)]
  <1> DEFINE flatten == CHOOSE f : f = [i \in 1 .. Len(list) |->
                                          IF i = 1 THEN list[i] ELSE f[i - 1] \o list[i]]
             m == Len(list)
  <1>1. m \in Nat /\ m >= 1
    BY SeqFacts
  <1>2. PICK g : Chain("joined", list, {}, <<>>, m, g)
    BY <1>1, ChainExists
  <1> HIDE DEF m
  <1> DEFINE h == [i \in 1 .. m |-> g[i]]
             k == [n \in 0 .. m |-> IF n = 0 THEN <<>> ELSE flatten[n]]
  <1>3. \A n \in 1 .. m : g[n] = IF n = 1 THEN list[n] ELSE g[n - 1] \o list[n]
    <2>1. \A n \in 1 .. m : g[n] = StepOf("joined", list, {}, g[n - 1], n)
      BY <1>1, <1>2, ChainSteps
    <2>2. QED
      BY <2>1 DEF StepOf
  <1>4. h = [i \in 1 .. m |-> IF i = 1 THEN list[i] ELSE h[i - 1] \o list[i]]
    <2>1. ASSUME NEW i \in 1 .. m
          PROVE  h[i] = IF i = 1 THEN list[i] ELSE h[i - 1] \o list[i]
      <3>1. i # 1 => i - 1 \in 1 .. m
        BY <1>1
      <3>2. i # 1 => h[i - 1] = g[i - 1]
        BY <3>1
      <3>3. QED
        BY <1>3, <3>2
    <2>2. QED
      BY <2>1
  <1>5. flatten = [i \in 1 .. m |-> IF i = 1 THEN list[i] ELSE flatten[i - 1] \o list[i]]
    <2> HIDE DEF h
    <2>1. \E f : f = [i \in 1 .. m |-> IF i = 1 THEN list[i] ELSE f[i - 1] \o list[i]]
      BY <1>4
    <2>2. QED
      BY <2>1, Zenon DEF m
  <1>6. FlattenSeq(list) = flatten[m]
    BY <1>1 DEF FlattenSeq, m
  <1> HIDE DEF flatten
  <1>7. Chain("joined", list, {}, <<>>, m, k)
    <2>1. ASSUME NEW n \in 0 .. m
          PROVE  k[n] = IF n = 0 THEN <<>> ELSE StepOf("joined", list, {}, k[n - 1], n)
      <3>1. CASE n = 0
        BY <1>1, <3>1
      <3>2. CASE n = 1
        BY <1>1, <1>5, <3>2 DEF StepOf
      <3>3. CASE n # 0 /\ n # 1
        <4>1. n \in 1 .. m /\ n - 1 \in 1 .. m /\ n - 1 \in 0 .. m /\ n - 1 # 0
          BY <1>1, <3>3
        <4>2. flatten[n] = flatten[n - 1] \o list[n]
          BY <1>5, <3>3, <4>1
        <4>3. k[n] = flatten[n] /\ k[n - 1] = flatten[n - 1]
          BY <3>3, <4>1
        <4> HIDE DEF k
        <4>4. QED
          BY <3>3, <4>2, <4>3 DEF StepOf
      <3>4. QED
        BY <3>1, <3>2, <3>3
    <2>2. DOMAIN k = 0 .. m /\ k = [n \in 0 .. m |-> k[n]]
      OBVIOUS
    <2> HIDE DEF k
    <2>3. k = [n \in 0 .. m |-> IF n = 0 THEN <<>> ELSE StepOf("joined", list, {}, k[n - 1], n)]
      BY <2>1, <2>2
    <2>4. QED
      BY <2>3 DEF Chain
  <1>8. k[m] = flatten[m]
    BY <1>1
  <1> HIDE DEF k
  <1>9. QED
    BY <1>6, <1>7, <1>8 DEF m

LEMMA FlattenedEmpty == FlattenSeq(<<>>) = <<>>
  BY EmptyIsASeq DEF FlattenSeq

\* Lists that divide sets apart from each other, put together.
LEMMA DividedFlat ==
  ASSUME NEW kind, NEW lists, IsASeq(lists), NEW of,
         \A i \in 1 .. Len(lists) : Divided(kind, lists[i], of[i]),
         \A i, j \in 1 .. Len(lists) : \A x : x \in of[i] /\ x \in of[j] => i = j,
         NEW S, \A x : x \in S <=> \E i \in 1 .. Len(lists) : x \in of[i]
  PROVE  Divided(kind, FlattenSeq(lists), S)
  <1> DEFINE m == Len(lists)
             upTo(n) == UNION {of[i] : i \in 1 .. n}
  <1>1. m \in Nat
    BY SeqFacts
  <1>2. CASE m = 0
    <2>1. lists = <<>>
      BY <1>2 DEF IsASeq
    <2>2. S = {}
      BY <1>2
    <2>3. QED
      BY <2>1, <2>2, FlattenedEmpty, DividedEmpty
  <1>3. CASE m # 0
    <2>1. m >= 1
      BY <1>1, <1>3
    <2>2. PICK f : Chain("joined", lists, {}, <<>>, m, f) /\ FlattenSeq(lists) = f[m]
      BY <2>1, FlattenedIsAChain
    <2>3. f[0] = <<>> /\ \A n \in 1 .. m : f[n] = IF n = 1 THEN lists[1] ELSE f[n - 1] \o lists[n]
      <3>1. f[0] = <<>> /\ \A n \in 1 .. m : f[n] = StepOf("joined", lists, {}, f[n - 1], n)
        BY ONLY <1>1, <2>2 DEF Chain
      <3>2. QED
        BY <3>1 DEF StepOf
    <2> DEFINE T == {n \in Nat : n + 1 <= m => Divided(kind, f[n + 1], upTo(n + 1))}
    <2>4. 0 \in T
      <3>1. f[1] = lists[1] /\ 1 \in 1 .. m
        BY <1>1, <2>1, <2>3
      <3>2. upTo(1) = of[1]
        OBVIOUS
      <3>3. 0 + 1 = 1
        OBVIOUS
      <3> HIDE DEF upTo
      <3>4. QED
        BY <3>1, <3>2, <3>3
    <2>5. ASSUME NEW n \in Nat, n \in T PROVE n + 1 \in T
      <3>1. SUFFICES ASSUME (n + 1) + 1 <= m
                     PROVE  Divided(kind, f[(n + 1) + 1], upTo((n + 1) + 1))
        OBVIOUS
      <3> DEFINE k == (n + 1) + 1
      <3>2. k \in 1 .. m /\ k # 1 /\ k - 1 = n + 1
        BY <1>1, <3>1
      <3>3. f[k] = f[n + 1] \o lists[k]
        BY <2>3, <3>2
      <3>4. Divided(kind, f[n + 1], upTo(n + 1))
        BY <1>1, <2>5, <3>1
      <3>5. Divided(kind, lists[k], of[k])
        BY <3>2
      <3>6. \A x : ~(x \in upTo(n + 1) /\ x \in of[k])
        <4>1. ASSUME NEW i \in 1 .. n + 1 PROVE i \in 1 .. m /\ i # k
          BY <3>2
        <4>2. QED
          BY <3>2, <4>1
      <3>7. upTo(k) = upTo(n + 1) \union of[k]
        <4>1. 1 .. k = (1 .. n + 1) \union {k}
          OBVIOUS
        <4> HIDE DEF k
        <4>2. QED
          BY <4>1
      <3> HIDE DEF upTo, k
      <3>8. Divided(kind, f[n + 1] \o lists[k], upTo(n + 1) \union of[k])
        BY <3>4, <3>5, <3>6, DividedJoin
      <3>9. QED
        BY <3>3, <3>7, <3>8 DEF k
    <2>6. Nat \subseteq T
      <3> HIDE DEF T
      <3>1. QED
        BY <2>4, <2>5, SetInduction
    <2>7. m - 1 \in Nat /\ (m - 1) + 1 = m
      BY <1>1, <2>1
    <2>8. Divided(kind, f[m], upTo(m))
      <3> HIDE DEF upTo
      <3>1. QED
        BY <2>6, <2>7
    <2>9. upTo(m) = S
      OBVIOUS
    <2>10. QED
      BY <2>2, <2>8, <2>9
  <1>4. QED
    BY <1>2, <1>3

\* What the parts have, one after the other, has each element once.
LEMMA DividedContents ==
  ASSUME NEW kind, NEW p, NEW S, Divided(kind, p, S),
         NEW items, items = [i \in DOMAIN p |-> Content(kind, p[i])]
  PROVE  Each(FlattenSeq(items)) /\ ToSet(FlattenSeq(items)) = S
  <1>1. IsASeq(p) /\ Len(p) \in Nat /\ DOMAIN p = 1 .. Len(p)
    BY SeqFacts DEF Divided
  <1>2. DOMAIN items = 1 .. Len(p) /\ items = [i \in 1 .. Len(p) |-> items[i]]
    BY <1>1
  <1>3. IsASeq(items) /\ Len(items) = Len(p)
    BY <1>1, <1>2, FunctionIsASeq
  <1> DEFINE of == [i \in 1 .. Len(p) |-> ToSet(Content(kind, p[i]))]
  <1>4. ASSUME NEW i \in 1 .. Len(p) PROVE Divided("item", items[i], of[i])
    <2>1. items[i] = Content(kind, p[i]) /\ of[i] = ToSet(Content(kind, p[i]))
      BY <1>1
    <2>2. Each(Content(kind, p[i]))
      BY DEF Divided
    <2>3. QED
      BY <2>1, <2>2, EachIsDivided
  <1>5. \A i, j \in 1 .. Len(p) : \A x : x \in of[i] /\ x \in of[j] => i = j
    BY DEF Divided
  <1>6. \A x : x \in S <=> \E i \in 1 .. Len(p) : x \in of[i]
    BY DEF Divided
  <1> HIDE DEF of
  <1>7. Divided("item", FlattenSeq(items), S)
    <2>1. /\ \A i \in 1 .. Len(items) : Divided("item", items[i], of[i])
          /\ \A i, j \in 1 .. Len(items) : \A x : x \in of[i] /\ x \in of[j] => i = j
          /\ \A x : x \in S <=> \E i \in 1 .. Len(items) : x \in of[i]
      BY <1>3, <1>4, <1>5, <1>6
    <2>2. QED
      BY ONLY <1>3, <2>1, DividedFlat
  <1>8. QED
    BY <1>7, EachIsDivided

-----------------------------------------------------------------------------
(***************************************************************************)
(* The chunks and the modules of a file divide its functions.              *)
(***************************************************************************)
LEMMA TypedAppendIsJoin ==
  ASSUME NEW S, NEW s \in Seq(S), NEW e \in S
  PROVE  Append(s, e) = s \o <<e>>
  OBVIOUS

LEMMA AppendIsJoin ==
  ASSUME NEW s, IsASeq(s), NEW e
  PROVE  Append(s, e) = s \o <<e>>
  <1> DEFINE S == ToSet(s) \union {e}
  <1>1. s \in Seq(S)
    <2>1. Len(s) \in Nat /\ s \in [1 .. Len(s) -> S]
      BY DEF IsASeq
    <2>2. QED
      BY <2>1
  <1>2. e \in S
    OBVIOUS
  <1> HIDE DEF S
  <1>3. QED
    BY ONLY <1>1, <1>2, TypedAppendIsJoin

LEMMA EachAppend ==
  ASSUME NEW s, Each(s), NEW e, \A i \in 1 .. Len(s) : s[i] # e
  PROVE  /\ Each(Append(s, e))
         /\ \A x : x \in ToSet(Append(s, e)) <=> x \in ToSet(s) \/ x = e
  <1> DEFINE t == Append(s, e)
  <1>1. IsASeq(s) /\ Len(s) \in Nat
    BY SeqFacts DEF Each
  <1>2. /\ IsASeq(t) /\ Len(t) = Len(s) + 1 /\ t[Len(s) + 1] = e
        /\ \A i \in 1 .. Len(s) : t[i] = s[i]
    BY <1>1, AppendFacts
  <1> HIDE DEF t
  <1>3. \A i \in 1 .. Len(t) : i \in 1 .. Len(s) \/ i = Len(s) + 1
    BY <1>1, <1>2
  <1>4. ASSUME NEW i \in 1 .. Len(t), NEW j \in 1 .. Len(t), t[i] = t[j] PROVE i = j
    <2>1. CASE i \in 1 .. Len(s) /\ j \in 1 .. Len(s)
      BY <1>2, <1>4, <2>1 DEF Each
    <2>2. CASE ~(i \in 1 .. Len(s) /\ j \in 1 .. Len(s))
      BY <1>2, <1>3, <1>4, <2>2
    <2>3. QED
      BY <2>1, <2>2
  <1>5. /\ \A x : x \in ToSet(t) <=> \E i \in 1 .. Len(t) : x = t[i]
        /\ \A x : x \in ToSet(s) <=> \E i \in 1 .. Len(s) : x = s[i]
    BY <1>1, <1>2, ToSetOfASeq
  <1>6. \A i \in 1 .. Len(s) : i \in 1 .. Len(t)
    BY <1>1, <1>2
  <1>7. Len(s) + 1 \in 1 .. Len(t)
    BY <1>1, <1>2
  <1>8. ASSUME NEW x PROVE x \in ToSet(t) <=> x \in ToSet(s) \/ x = e
    BY <1>2, <1>3, <1>5, <1>6, <1>7
  <1>9. QED
    BY <1>2, <1>4, <1>8 DEF Each, t

\* Places of a list at which nothing is twice.
LEMMA ItemsAtOnce ==
  ASSUME NEW list, IsASeq(list), NEW places,
         \A i, j \in 1 .. Len(list) : i \in places /\ j \in places /\ list[i] = list[j] => i = j
  PROVE  /\ Each(ItemsAt(list, places))
         /\ \A x : x \in ToSet(ItemsAt(list, places)) <=> \E i \in 1 .. Len(list) : i \in places /\ x = list[i]
  <1>1. IsASeq(list) /\ Len(list) \in Nat
    BY SeqFacts
  <1>2. PICK f : Chain("taken", list, places, <<>>, Len(list), f) /\ ItemsAt(list, places) = f[Len(list)]
    BY <1>1, ItemsAtIsAChain
  <1>3. /\ f[0] = <<>>
        /\ \A n \in 1 .. Len(list) : f[n] = IF n \in places THEN Append(f[n - 1], list[n]) ELSE f[n - 1]
    <2>1. f[0] = <<>> /\ \A n \in 1 .. Len(list) : f[n] = StepOf("taken", list, places, f[n - 1], n)
      BY ONLY <1>1, <1>2 DEF Chain
    <2>2. QED
      BY <2>1 DEF StepOf
  <1> DEFINE Taken(s, n) ==
               /\ Each(s)
               /\ \A x : x \in ToSet(s) <=> \E i \in 1 .. n : i \in places /\ x = list[i]
             T == {n \in Nat : n <= Len(list) => Taken(f[n], n)}
  <1>4. 0 \in T
    BY <1>3, EachEmpty
  <1>5. ASSUME NEW n \in Nat, n \in T PROVE n + 1 \in T
    <2>1. SUFFICES ASSUME n + 1 <= Len(list) PROVE Taken(f[n + 1], n + 1)
      OBVIOUS
    <2>2. f[n + 1] = IF n + 1 \in places THEN Append(f[n], list[n + 1]) ELSE f[n]
      BY <1>1, <1>3, <2>1
    <2>3. Taken(f[n], n)
      BY <1>1, <1>5, <2>1
    <2>4. n + 1 \in 1 .. Len(list) /\ \A i \in 1 .. n : i \in 1 .. Len(list) /\ i # n + 1
      BY <1>1, <2>1
    <2>5. \A i : i \in 1 .. n + 1 <=> i \in 1 .. n \/ i = n + 1
      OBVIOUS
    <2>6. CASE n + 1 \in places
      <3>1. f[n + 1] = Append(f[n], list[n + 1])
        BY <2>2, <2>6
      <3>2. \A i \in 1 .. Len(f[n]) : f[n][i] # list[n + 1]
        <4>1. SUFFICES ASSUME NEW i \in 1 .. Len(f[n]), f[n][i] = list[n + 1] PROVE FALSE
          OBVIOUS
        <4>2. f[n][i] \in ToSet(f[n])
          BY <2>3, ToSetOfASeq DEF Each
        <4>3. PICK k \in 1 .. n : k \in places /\ f[n][i] = list[k]
          BY <2>3, <4>2
        <4>4. QED
          BY <2>4, <2>6, <4>1, <4>3
      <3>3. Each(f[n])
        BY <2>3
      <3>4. /\ Each(f[n + 1])
            /\ \A x : x \in ToSet(f[n + 1]) <=> x \in ToSet(f[n]) \/ x = list[n + 1]
        BY <3>1, <3>2, <3>3, EachAppend
      <3>5. ASSUME NEW x PROVE x \in ToSet(f[n + 1]) <=> \E i \in 1 .. n + 1 : i \in places /\ x = list[i]
        BY <2>3, <2>5, <2>6, <3>4
      <3>6. QED
        BY <3>4, <3>5
    <2>7. CASE n + 1 \notin places
      <3>1. f[n + 1] = f[n]
        BY <2>2, <2>7
      <3>2. ASSUME NEW x PROVE x \in ToSet(f[n]) <=> \E i \in 1 .. n + 1 : i \in places /\ x = list[i]
        BY <2>3, <2>5, <2>7
      <3>3. QED
        BY <2>3, <3>1, <3>2
    <2>8. QED
      BY <2>6, <2>7
  <1>6. Nat \subseteq T
    <2> HIDE DEF T
    <2>1. QED
      BY <1>4, <1>5, SetInduction
  <1>7. QED
    BY <1>1, <1>2, <1>6

\* Groups in their order: nothing is left out, nothing is in two.
LEMMA GroupsDivide ==
  ASSUME NEW fs, Each(fs), NEW target
  PROVE  Divided("group", Groups(fs, target), ToSet(fs))
  <1>1. IsASeq(fs) /\ Len(fs) \in Nat
    BY SeqFacts DEF Each
  <1>2. PICK f : /\ Chain("grouped", fs, target, NoGroups, Len(fs), f)
                 /\ Groups(fs, target) = IF f[Len(fs)].now = <<>> THEN f[Len(fs)].done
                                         ELSE Append(f[Len(fs)].done, f[Len(fs)].now)
    BY <1>1, GroupsAreAChain
  <1>3. f[0] = NoGroups /\ \A n \in 1 .. Len(fs) : f[n] = AddToGroups(f[n - 1], fs[n], target)
    <2>1. Chain("grouped", fs, target, NoGroups, Len(fs), f)
      BY <1>2
    <2>2. /\ f[0] = NoGroups
          /\ \A n \in 1 .. Len(fs) : f[n] = StepOf("grouped", fs, target, f[n - 1], n)
      BY ONLY <1>1, <2>1 DEF Chain
    <2>3. QED
      BY <2>2 DEF StepOf
  <1> DEFINE Grouped(g, D, N, n) ==
               /\ Divided("group", g.done, D) /\ Each(g.now) /\ ToSet(g.now) = N
               /\ \A x : ~(x \in D /\ x \in N)
               /\ \A x : x \in D \/ x \in N <=> \E i \in 1 .. n : x = fs[i]
             T == {n \in Nat : n <= Len(fs) => \E D, N : Grouped(f[n], D, N, n)}
  <1>4. 0 \in T
    <2>1. Divided("group", NoGroups.done, {}) /\ Each(NoGroups.now) /\ ToSet(NoGroups.now) = {}
      BY DividedEmpty, EachEmpty DEF NoGroups
    <2>2. Grouped(f[0], {}, {}, 0)
      BY <1>3, <2>1
    <2>3. QED
      BY <2>2
  <1>5. ASSUME NEW done, NEW now, NEW D, NEW N, Divided("group", done, D), Each(now), ToSet(now) = N,
               \A x : ~(x \in D /\ x \in N)
        PROVE  Divided("group", Append(done, now), D \union N)
    <2>1. IsASeq(done)
      BY <1>5 DEF Divided
    <2>2. Append(done, now) = done \o <<now>>
      BY <2>1, AppendIsJoin
    <2>3. Content("group", now) = now
      BY DEF Content
    <2>4. Divided("group", <<now>>, N)
      BY <1>5, <2>3, DividedOne
    <2>5. QED
      BY <1>5, <2>2, <2>4, DividedJoin
  <1>6. ASSUME NEW n \in Nat, n \in T PROVE n + 1 \in T
    <2>1. SUFFICES ASSUME n + 1 <= Len(fs) PROVE \E D, N : Grouped(f[n + 1], D, N, n + 1)
      OBVIOUS
    <2>2. f[n + 1] = AddToGroups(f[n], fs[n + 1], target)
      BY <1>1, <1>3, <2>1
    <2>3. PICK D, N : Grouped(f[n], D, N, n)
      BY <1>1, <1>6, <2>1
    <2> DEFINE g == f[n]
               e == fs[n + 1]
    <2>4. \A i : i \in 1 .. n + 1 <=> i \in 1 .. n \/ i = n + 1
      OBVIOUS
    <2>5. e \notin D /\ e \notin N
      <3>1. n + 1 \in 1 .. Len(fs) /\ \A i \in 1 .. n : i \in 1 .. Len(fs) /\ i # n + 1
        BY <1>1, <2>1
      <3>2. \A i \in 1 .. n : fs[i] # fs[n + 1]
        BY <3>1 DEF Each
      <3>3. QED
        BY <2>3, <3>2
    <2> HIDE DEF g, e
    <2>6. Grouped(g, D, N, n)
      BY <2>3 DEF g
    <2>7. \A x : x \in D \/ x \in N \/ x = e <=> \E i \in 1 .. n + 1 : x = fs[i]
      <3>1. SUFFICES ASSUME NEW x
                     PROVE  x \in D \/ x \in N \/ x = e <=> \E i \in 1 .. n + 1 : x = fs[i]
        OBVIOUS
      <3>2. QED
        BY <2>3, <2>4 DEF e
    <2>8. CASE g.now # <<>> /\ CLines(g.now) + e.lines > target
      <3>1. AddToGroups(g, e, target) = [done |-> Append(g.done, g.now), now |-> <<e>>]
        BY <2>8 DEF AddToGroups
      <3>2. Each(<<e>>) /\ ToSet(<<e>>) = {e}
        <4>1. ToSet(<<e>>) = {e}
          BY OneIsASeq
        <4>2. Content("item", e) = <<e>>
          BY DEF Content
        <4>3. QED
          BY <4>1, <4>2, ItemContent
      <3>3. Divided("group", Append(g.done, g.now), D \union N)
        <4>1. /\ Divided("group", g.done, D) /\ Each(g.now) /\ ToSet(g.now) = N
              /\ \A x : ~(x \in D /\ x \in N)
          BY <2>6
        <4> HIDE DEF Grouped
        <4>2. QED
          BY ONLY <4>1, <1>5
      <3>4. \A x : ~(x \in D \union N /\ x \in {e})
        BY <2>5
      <3>5. \A x : x \in D \union N \/ x \in {e} <=> \E i \in 1 .. n + 1 : x = fs[i]
        BY <2>7
      <3>6. Grouped(AddToGroups(g, e, target), D \union N, {e}, n + 1)
        BY <3>1, <3>2, <3>3, <3>4, <3>5
      <3> HIDE DEF Grouped
      <3>7. QED
        BY <2>2, <3>6 DEF g, e
    <2>9. CASE ~(g.now # <<>> /\ CLines(g.now) + e.lines > target)
      <3>1. AddToGroups(g, e, target) = [done |-> g.done, now |-> Append(g.now, e)]
        BY <2>9 DEF AddToGroups
      <3>2. Each(g.now) /\ ToSet(g.now) = N
        BY <2>6
      <3>3. \A i \in 1 .. Len(g.now) : g.now[i] # e
        <4>1. \A i \in 1 .. Len(g.now) : g.now[i] \in N
          BY <3>2, ToSetOfASeq DEF Each
        <4>2. QED
          BY <2>5, <4>1
      <3>4. /\ Each(Append(g.now, e))
            /\ \A x : x \in ToSet(Append(g.now, e)) <=> x \in ToSet(g.now) \/ x = e
        BY <3>2, <3>3, EachAppend
      <3>5. ToSet(Append(g.now, e)) = N \union {e}
        BY <3>2, <3>4
      <3>6. \A x : ~(x \in D /\ x \in N \union {e})
        BY <2>5, <2>6
      <3>7. \A x : x \in D \/ x \in N \union {e} <=> \E i \in 1 .. n + 1 : x = fs[i]
        BY <2>7
      <3>8. Divided("group", g.done, D)
        BY <2>6
      <3>9. Grouped(AddToGroups(g, e, target), D, N \union {e}, n + 1)
        BY <3>1, <3>4, <3>5, <3>6, <3>7, <3>8
      <3> HIDE DEF Grouped
      <3>10. QED
        BY <2>2, <3>9 DEF g, e
    <2>10. QED
      BY <2>8, <2>9
  <1>7. Nat \subseteq T
    <2> HIDE DEF T
    <2>1. QED
      BY <1>4, <1>6, SetInduction
  <1>8. PICK D, N : Grouped(f[Len(fs)], D, N, Len(fs))
    <2> HIDE DEF T
    <2>1. Len(fs) \in T /\ Len(fs) <= Len(fs)
      BY <1>1, <1>7
    <2> HIDE DEF Grouped
    <2>2. QED
      BY <2>1 DEF T
  <1>9. D \union N = ToSet(fs)
    <2>1. \A x : x \in ToSet(fs) <=> \E i \in 1 .. Len(fs) : x = fs[i]
      BY <1>1, ToSetOfASeq
    <2>2. \A x : x \in D \/ x \in N <=> \E i \in 1 .. Len(fs) : x = fs[i]
      BY <1>8
    <2>3. QED
      BY <2>1, <2>2
  <1>10. CASE f[Len(fs)].now = <<>>
    <2>1. N = {}
      BY <1>8, <1>10, EachEmpty
    <2>2. D = ToSet(fs)
      BY <1>9, <2>1
    <2>3. QED
      BY <1>2, <1>8, <1>10, <2>2
  <1>11. CASE f[Len(fs)].now # <<>>
    <2>1. Groups(fs, target) = Append(f[Len(fs)].done, f[Len(fs)].now)
      BY <1>2, <1>11
    <2>2. /\ Divided("group", f[Len(fs)].done, D) /\ Each(f[Len(fs)].now) /\ ToSet(f[Len(fs)].now) = N
          /\ \A x : ~(x \in D /\ x \in N)
      BY <1>8
    <2>3. Divided("group", Append(f[Len(fs)].done, f[Len(fs)].now), D \union N)
      BY ONLY <1>5, <2>2
    <2>4. QED
      BY <1>9, <2>1, <2>3
  <1>12. QED
    BY <1>10, <1>11

\* The same contents, in parts of another kind.
LEMMA DividedAlike ==
  ASSUME NEW one, NEW p, IsASeq(p), NEW other, NEW q, NEW S, Divided(other, q, S), Len(p) = Len(q),
         \A i \in 1 .. Len(q) : Content(one, p[i]) = Content(other, q[i])
  PROVE  Divided(one, p, S)
  BY DEF Divided

LEMMA ChunksDivide ==
  ASSUME NEW c, NEW groups, NEW S, Divided("group", groups, S)
  PROVE  Divided("chunk", ChunksOf(c, groups), S)
  <1> DEFINE p == ChunksOf(c, groups)
  <1>1. IsASeq(groups)
    BY DEF Divided
  <1>2. Hold(p, groups)
    BY <1>1, ChunksOfCode
  <1> HIDE DEF p
  <1>3. \A i \in 1 .. Len(groups) : Content("chunk", p[i]) = Content("group", groups[i])
    BY <1>2 DEF Hold, Content
  <1>4. Divided("chunk", p, S)
    BY <1>2, <1>3, DividedAlike DEF Hold
  <1>5. QED
    BY <1>4 DEF p

LEMMA SubSplitDivides ==
  ASSUME NEW name, NEW fs, Each(fs), NEW target
  PROVE  Divided("module", SubSplit(name, fs, target), ToSet(fs))
  <1> DEFINE groups == Groups(fs, target)
             Number(i) == IF Len(groups) = 1 THEN 0 ELSE i
             p == [i \in DOMAIN groups |-> NamedModule(name, Number(i), groups[i])]
  <1>1. SubSplit(name, fs, target) = p
    BY DEF SubSplit
  <1>2. Divided("group", groups, ToSet(fs))
    BY GroupsDivide
  <1> HIDE DEF groups
  <1>3. Len(groups) \in Nat /\ DOMAIN groups = 1 .. Len(groups)
    BY <1>2, SeqFacts DEF Divided
  <1> HIDE DEF Number
  <1>4. DOMAIN p = 1 .. Len(groups) /\ p = [i \in 1 .. Len(groups) |-> p[i]]
    BY <1>3
  <1>5. \A i \in 1 .. Len(groups) : p[i].functions = groups[i]
    BY <1>3 DEF NamedModule
  <1> HIDE DEF p
  <1>6. IsASeq(p) /\ Len(p) = Len(groups)
    BY <1>3, <1>4, FunctionIsASeq
  <1>7. \A i \in 1 .. Len(groups) : Content("module", p[i]) = Content("group", groups[i])
    BY <1>5 DEF Content
  <1>8. Divided("module", p, ToSet(fs))
    BY <1>2, <1>6, <1>7, DividedAlike
  <1>9. QED
    BY <1>1, <1>8

LEMMA OneModule ==
  ASSUME NEW name, NEW fs, Each(fs)
  PROVE  Divided("module", <<NamedModule(name, 0, fs)>>, ToSet(fs))
  <1>1. Content("module", NamedModule(name, 0, fs)) = fs
    BY DEF Content, NamedModule
  <1>2. QED
    BY <1>1, DividedOne

LEMMA ModulesOfGroupDivide ==
  ASSUME NEW name, NEW fs, Each(fs), NEW limit
  PROVE  Divided("module", ModulesOfGroup(name, fs, limit), ToSet(fs))
  BY SubSplitDivides, OneModule DEF ModulesOfGroup

LEMMA GroupOnce ==
  ASSUME NEW c, Each(Functions(c)), NEW prefix
  PROVE  /\ Each(Group(c, prefix))
         /\ \A x : x \in ToSet(Group(c, prefix)) <=> x \in ToSet(Functions(c)) /\ x.prefix = prefix
  <1> DEFINE fs == Functions(c)
             places == {i \in DOMAIN fs : fs[i].prefix = prefix}
  <1>1. IsASeq(fs) /\ DOMAIN fs = 1 .. Len(fs)
    BY SeqFacts DEF Each
  <1>2. \A i, j \in 1 .. Len(fs) : fs[i] = fs[j] => i = j
    BY DEF Each
  <1>3. Group(c, prefix) = ItemsAt(fs, places)
    BY DEF Group
  <1>4. \A x : x \in ToSet(fs) <=> \E i \in 1 .. Len(fs) : x = fs[i]
    BY <1>1, ToSetOfASeq
  <1>5. \A i \in 1 .. Len(fs) : i \in places <=> fs[i].prefix = prefix
    BY <1>1
  <1> HIDE DEF fs, places
  <1>6. /\ Each(ItemsAt(fs, places))
        /\ \A x : x \in ToSet(ItemsAt(fs, places)) <=> \E i \in 1 .. Len(fs) : i \in places /\ x = fs[i]
    BY <1>1, <1>2, ItemsAtOnce
  <1>7. QED
    BY <1>3, <1>4, <1>5, <1>6 DEF fs

\* A file of which the functions are each once, and an order of their prefixes.
Splittable(c, prefixes) ==
  /\ Each(Functions(c)) /\ Each(prefixes)
  /\ \A f \in ToSet(Functions(c)) : f.prefix \in ToSet(prefixes)

\* The functions that have one of some prefixes.
Having(c, prefixes) == {f \in ToSet(Functions(c)) : f.prefix \in prefixes}

LEMMA SharedDivide ==
  ASSUME NEW c, Each(Functions(c)), NEW shared, Each(shared), NEW limit
  PROVE  Divided("module", FlattenSeq([i \in DOMAIN shared |-> ModulesOfGroup(shared[i], Group(c, shared[i]), limit)]),
                 Having(c, ToSet(shared)))
  <1> DEFINE lists == [i \in DOMAIN shared |-> ModulesOfGroup(shared[i], Group(c, shared[i]), limit)]
             of == [i \in 1 .. Len(shared) |-> ToSet(Group(c, shared[i]))]
             S == Having(c, ToSet(shared))
  <1>1. IsASeq(shared) /\ Len(shared) \in Nat /\ DOMAIN shared = 1 .. Len(shared)
    BY SeqFacts DEF Each
  <1>2. DOMAIN lists = 1 .. Len(shared) /\ lists = [i \in 1 .. Len(shared) |-> lists[i]]
    BY <1>1
  <1>3. ASSUME NEW i \in 1 .. Len(shared) PROVE Divided("module", lists[i], of[i])
    <2>1. Each(Group(c, shared[i]))
      BY GroupOnce
    <2>2. Divided("module", ModulesOfGroup(shared[i], Group(c, shared[i]), limit), ToSet(Group(c, shared[i])))
      BY <2>1, ModulesOfGroupDivide
    <2>3. QED
      BY <1>1, <2>2
  <1> HIDE DEF lists
  <1>4. IsASeq(lists) /\ Len(lists) = Len(shared)
    BY <1>1, <1>2, FunctionIsASeq
  <1>5. \A i \in 1 .. Len(shared) : \A x : x \in of[i] <=> x \in ToSet(Functions(c)) /\ x.prefix = shared[i]
    BY GroupOnce
  <1>6. \A y : y \in ToSet(shared) <=> \E i \in 1 .. Len(shared) : y = shared[i]
    BY <1>1, ToSetOfASeq
  <1> HIDE DEF of
  <1>7. \A i, j \in 1 .. Len(shared) : \A x : x \in of[i] /\ x \in of[j] => i = j
    BY <1>5 DEF Each
  <1>8. \A x : x \in S <=> \E i \in 1 .. Len(shared) : x \in of[i]
    BY <1>5, <1>6 DEF Having
  <1> HIDE DEF S
  <1>9. Divided("module", FlattenSeq(lists), S)
    BY <1>3, <1>4, <1>7, <1>8, DividedFlat
  <1>10. QED
    BY <1>9 DEF lists, S

\* The functions whose groups are not modules of their own, one after the other.
LEMMA MiscOnce ==
  ASSUME NEW c, Each(Functions(c)), NEW prefixes, Each(prefixes), NEW alone,
         NEW misc, misc = FlattenSeq([i \in DOMAIN prefixes |-> IF i \in alone THEN Group(c, prefixes[i]) ELSE <<>>])
  PROVE  /\ Each(misc)
         /\ \A x : x \in ToSet(misc) <=> x \in ToSet(Functions(c))
                                         /\ \E i \in 1 .. Len(prefixes) : i \in alone /\ x.prefix = prefixes[i]
  <1> DEFINE lists == [i \in DOMAIN prefixes |-> IF i \in alone THEN Group(c, prefixes[i]) ELSE <<>>]
             of == [i \in 1 .. Len(prefixes) |-> ToSet(IF i \in alone THEN Group(c, prefixes[i]) ELSE <<>>)]
             S == {x \in ToSet(Functions(c)) : \E i \in 1 .. Len(prefixes) : i \in alone /\ x.prefix = prefixes[i]}
  <1>1. IsASeq(prefixes) /\ Len(prefixes) \in Nat /\ DOMAIN prefixes = 1 .. Len(prefixes)
    BY SeqFacts DEF Each
  <1>2. DOMAIN lists = 1 .. Len(prefixes) /\ lists = [i \in 1 .. Len(prefixes) |-> lists[i]]
    BY <1>1
  <1>3. ASSUME NEW i \in 1 .. Len(prefixes) PROVE Divided("item", lists[i], of[i])
    <2>1. Each(Group(c, prefixes[i])) /\ Each(<<>>)
      BY GroupOnce, EachEmpty
    <2>2. lists[i] = (IF i \in alone THEN Group(c, prefixes[i]) ELSE <<>>) /\ of[i] = ToSet(lists[i])
      BY <1>1
    <2> HIDE DEF lists, of
    <2>3. Each(lists[i])
      BY <2>1, <2>2
    <2>4. QED
      BY <2>2, <2>3, EachIsDivided
  <1>4. ASSUME NEW i \in 1 .. Len(prefixes), NEW x
        PROVE  x \in of[i] <=> x \in ToSet(Functions(c)) /\ i \in alone /\ x.prefix = prefixes[i]
    BY GroupOnce, EachEmpty
  <1> HIDE DEF lists, of
  <1>5. IsASeq(lists) /\ Len(lists) = Len(prefixes)
    BY <1>1, <1>2, FunctionIsASeq
  <1>6. \A i, j \in 1 .. Len(prefixes) : \A x : x \in of[i] /\ x \in of[j] => i = j
    BY <1>4 DEF Each
  <1>7. \A x : x \in S <=> \E i \in 1 .. Len(prefixes) : x \in of[i]
    BY <1>4
  <1> HIDE DEF S
  <1>8. Divided("item", FlattenSeq(lists), S)
    BY <1>3, <1>5, <1>6, <1>7, DividedFlat
  <1>9. misc = FlattenSeq(lists)
    BY DEF lists
  <1>10. Each(misc) /\ ToSet(misc) = S
    BY <1>8, <1>9, EachIsDivided
  <1>11. QED
    BY <1>10 DEF S

LEMMA SplitDivides ==
  ASSUME NEW c, NEW prefixes, Splittable(c, prefixes), NEW limit
  PROVE  Divided("module", SplitIntoModules(c, prefixes, limit), ToSet(Functions(c)))
  <1> DEFINE fs == Functions(c)
             Alone(p) == Len(Group(c, p)) < 2 \/ p = "main"
             alone == {i \in DOMAIN prefixes : Alone(prefixes[i])}
             own == {i \in DOMAIN prefixes : ~Alone(prefixes[i])}
             shared == ItemsAt(prefixes, own)
             misc == FlattenSeq([i \in DOMAIN prefixes |-> IF Alone(prefixes[i]) THEN Group(c, prefixes[i]) ELSE <<>>])
             large == FlattenSeq([i \in DOMAIN shared |-> ModulesOfGroup(shared[i], Group(c, shared[i]), limit)])
             rest == IF misc = <<>> THEN <<>> ELSE ModulesOfGroup("misc", misc, limit)
  <1>1. CASE Len(fs) < 4
    <2>1. SplitIntoModules(c, prefixes, limit) = <<NamedModule("main", 0, fs)>>
      BY <1>1 DEF SplitIntoModules
    <2>2. QED
      BY <2>1, OneModule DEF Splittable
  <1>2. CASE ~(Len(fs) < 4)
    <2>1. SplitIntoModules(c, prefixes, limit) = large \o rest
      BY <1>2 DEF SplitIntoModules
    <2>2. Each(Functions(c)) /\ Each(prefixes)
      BY DEF Splittable
    <2>3. IsASeq(prefixes) /\ Len(prefixes) \in Nat /\ DOMAIN prefixes = 1 .. Len(prefixes)
      BY <2>2, SeqFacts DEF Each
    <2>4. \A i \in 1 .. Len(prefixes) : (i \in alone <=> Alone(prefixes[i])) /\ (i \in own <=> i \notin alone)
      BY <2>3
    <2>5. misc = FlattenSeq([i \in DOMAIN prefixes |-> IF i \in alone THEN Group(c, prefixes[i]) ELSE <<>>])
      <3>1. [i \in DOMAIN prefixes |-> IF Alone(prefixes[i]) THEN Group(c, prefixes[i]) ELSE <<>>]
              = [i \in DOMAIN prefixes |-> IF i \in alone THEN Group(c, prefixes[i]) ELSE <<>>]
        BY <2>3, <2>4
      <3>2. QED
        BY <3>1
    <2> HIDE DEF Alone, alone, own, misc
    <2>6. /\ Each(misc)
          /\ \A x : x \in ToSet(misc) <=> x \in ToSet(Functions(c))
                                          /\ \E i \in 1 .. Len(prefixes) : i \in alone /\ x.prefix = prefixes[i]
      BY <2>2, <2>5, MiscOnce
    <2>7. /\ Each(shared)
          /\ \A x : x \in ToSet(shared) <=> \E i \in 1 .. Len(prefixes) : i \in own /\ x = prefixes[i]
      BY <2>2, <2>3, ItemsAtOnce DEF Each
    <2> HIDE DEF shared
    <2>8. Divided("module", large, Having(c, ToSet(shared)))
      BY <2>2, <2>7, SharedDivide
    <2>9. Divided("module", rest, ToSet(misc))
      <3>1. CASE misc = <<>>
        BY <3>1, DividedEmpty, EachEmpty
      <3>2. CASE misc # <<>>
        BY <2>6, <3>2, ModulesOfGroupDivide
      <3>3. QED
        BY <3>1, <3>2
    <2> HIDE DEF large, rest
    <2>10. ASSUME NEW x PROVE ~(x \in Having(c, ToSet(shared)) /\ x \in ToSet(misc))
      <3>1. SUFFICES ASSUME x \in Having(c, ToSet(shared)), x \in ToSet(misc) PROVE FALSE
        OBVIOUS
      <3>2. PICK i \in 1 .. Len(prefixes) : i \in own /\ x.prefix = prefixes[i]
        BY <2>7, <3>1 DEF Having
      <3>3. PICK j \in 1 .. Len(prefixes) : j \in alone /\ x.prefix = prefixes[j]
        BY <2>6, <3>1
      <3>4. i = j
        BY <2>2, <3>2, <3>3 DEF Each
      <3>5. QED
        BY <2>4, <3>2, <3>3, <3>4
    <2>11. Divided("module", large \o rest, Having(c, ToSet(shared)) \union ToSet(misc))
      BY <2>8, <2>9, <2>10, DividedJoin
    <2>12. ASSUME NEW x PROVE x \in Having(c, ToSet(shared)) \/ x \in ToSet(misc) <=> x \in ToSet(Functions(c))
      <3>1. x \in Having(c, ToSet(shared)) \/ x \in ToSet(misc) => x \in ToSet(Functions(c))
        BY <2>6 DEF Having
      <3>2. ASSUME x \in ToSet(Functions(c)) PROVE x \in Having(c, ToSet(shared)) \/ x \in ToSet(misc)
        <4>1. x.prefix \in ToSet(prefixes)
          BY <3>2 DEF Splittable
        <4>2. PICK i \in 1 .. Len(prefixes) : x.prefix = prefixes[i]
          BY <2>3, <4>1, ToSetOfASeq
        <4>3. i \in alone \/ i \in own
          BY <2>4
        <4>4. i \in alone => x \in ToSet(misc)
          BY <2>6, <3>2, <4>2
        <4>5. i \in own => x \in Having(c, ToSet(shared))
          BY <2>7, <3>2, <4>2 DEF Having
        <4>6. QED
          BY <4>3, <4>4, <4>5
      <3>3. QED
        BY <3>1, <3>2
    <2>13. Having(c, ToSet(shared)) \union ToSet(misc) = ToSet(Functions(c))
      BY <2>12
    <2>14. QED
      BY <2>1, <2>11, <2>13
  <1>3. QED
    BY <1>1, <1>2

LEMMA ChunkSourceDivides ==
  ASSUME NEW c, Each(Functions(c)), NEW target
  PROVE  Divided("chunk", ChunkSource(c, target), ToSet(Functions(c)))
  <1>1. CASE Functions(c) = <<>>
    <2> DEFINE e == [context |-> c, items |-> <<>>, data |-> FALSE]
    <2>1. Content("chunk", e) = <<>>
      BY DEF Content
    <2>2. ChunkSource(c, target) = <<e>>
      BY <1>1 DEF ChunkSource
    <2> HIDE DEF e
    <2>3. Divided("chunk", <<e>>, ToSet(<<>>))
      BY <2>1, EachEmpty, DividedOne
    <2>4. QED
      BY <1>1, <2>2, <2>3
  <1>2. CASE Functions(c) # <<>>
    BY <1>2, GroupsDivide, ChunksDivide DEF ChunkSource
  <1>3. QED
    BY <1>1, <1>2

LEMMA OneChunkDivides ==
  ASSUME NEW c, NEW items, Each(items)
  PROVE  /\ Divided("chunk", <<Chunk(c, items, FALSE)>>, ToSet(items))
         /\ \A tables : Divided("chunk", <<Chunk(c, tables, TRUE)>>, {})
  <1>1. Content("chunk", Chunk(c, items, FALSE)) = items
    BY DEF Content, Chunk
  <1>2. ASSUME NEW tables PROVE Content("chunk", Chunk(c, tables, TRUE)) = <<>>
    BY DEF Content, Chunk
  <1>3. Divided("chunk", <<Chunk(c, items, FALSE)>>, ToSet(items))
    BY <1>1, DividedOne
  <1>4. ASSUME NEW tables PROVE Divided("chunk", <<Chunk(c, tables, TRUE)>>, {})
    BY <1>2, DividedOne, EachEmpty
  <1>5. QED
    BY <1>3, <1>4

\* The functions of the data model and the others are all of them.
LEMMA StructuralDivides ==
  ASSUME NEW c, Each(Functions(c)), NEW target
  PROVE  Divided("chunk", Structural(c, target), ToSet(Functions(c)))
  <1> DEFINE fs == Functions(c)
             inModel == {i \in DOMAIN fs : fs[i].model}
             notInModel == {i \in DOMAIN fs : ~fs[i].model}
             models == ItemsAt(fs, inModel)
             others == ItemsAt(fs, notInModel)
             tables == StaticBlocks(c)
             top == <<Chunk(c, models, FALSE)>>
             data == IF tables = <<>> THEN <<>> ELSE <<Chunk(c, tables, TRUE)>>
             code == ChunksOf(c, Groups(others, target))
  <1>1. CASE ~HasTypes(c) \/ models = <<>>
    <2>1. Structural(c, target) = ChunkSource(c, target)
      BY <1>1 DEF Structural
    <2>2. QED
      BY <2>1, ChunkSourceDivides
  <1>2. CASE ~(~HasTypes(c) \/ models = <<>>)
    <2>1. Structural(c, target) = top \o data \o code
      BY <1>2 DEF Structural
    <2>2. IsASeq(fs) /\ DOMAIN fs = 1 .. Len(fs) /\ \A i, j \in 1 .. Len(fs) : fs[i] = fs[j] => i = j
      BY SeqFacts DEF Each
    <2>3. \A i \in 1 .. Len(fs) : i \in inModel <=> i \notin notInModel
      BY <2>2
    <2>4. \A x : x \in ToSet(fs) <=> \E i \in 1 .. Len(fs) : x = fs[i]
      BY <2>2, ToSetOfASeq
    <2> HIDE DEF fs, inModel, notInModel
    <2>5. /\ Each(models)
          /\ \A x : x \in ToSet(models) <=> \E i \in 1 .. Len(fs) : i \in inModel /\ x = fs[i]
      BY <2>2, ItemsAtOnce
    <2>6. /\ Each(others)
          /\ \A x : x \in ToSet(others) <=> \E i \in 1 .. Len(fs) : i \in notInModel /\ x = fs[i]
      BY <2>2, ItemsAtOnce
    <2> HIDE DEF models, others, tables
    <2>7. Divided("chunk", top, ToSet(models))
      BY <2>5, OneChunkDivides
    <2>8. Divided("chunk", data, {})
      BY <2>5, OneChunkDivides, DividedEmpty
    <2>9. Divided("chunk", code, ToSet(others))
      BY <2>6, GroupsDivide, ChunksDivide
    <2> HIDE DEF top, data, code
    <2>10. Divided("chunk", top \o data, ToSet(models) \union {})
      BY <2>7, <2>8, DividedJoin
    <2>11. Divided("chunk", top \o data, ToSet(models))
      BY <2>10
    <2>12. ASSUME NEW x PROVE ~(x \in ToSet(models) /\ x \in ToSet(others))
      <3>1. SUFFICES ASSUME x \in ToSet(models), x \in ToSet(others) PROVE FALSE
        OBVIOUS
      <3>2. PICK i \in 1 .. Len(fs) : i \in inModel /\ x = fs[i]
        BY <2>5, <3>1
      <3>3. PICK j \in 1 .. Len(fs) : j \in notInModel /\ x = fs[j]
        BY <2>6, <3>1
      <3>4. QED
        BY <2>2, <2>3, <3>2, <3>3
    <2>13. Divided("chunk", (top \o data) \o code, ToSet(models) \union ToSet(others))
      BY <2>9, <2>11, <2>12, DividedJoin
    <2>14. ASSUME NEW x PROVE x \in ToSet(models) \/ x \in ToSet(others) <=> x \in ToSet(fs)
      BY <2>3, <2>4, <2>5, <2>6
    <2>15. ToSet(models) \union ToSet(others) = ToSet(fs)
      BY <2>14
    <2>16. QED
      BY <2>1, <2>13, <2>15 DEF fs
  <1>3. QED
    BY <1>1, <1>2

-----------------------------------------------------------------------------
LEMMA FunctionsOnce ==
  ASSUME NEW c \in CFiles
  PROVE  Splittable(c, PrefixOrder)
  <1> DEFINE places == {i \in DOMAIN c : c[i].kind = "fn"}
  <1>1. IsASeq(c) /\ IsASeq(PrefixOrder)
    BY FirstTextAssumption DEF IsASeq
  <1>2. DOMAIN c = 1 .. Len(c) /\ DOMAIN PrefixOrder = 1 .. Len(PrefixOrder)
    BY <1>1, SeqFacts
  <1>3. \A i, j \in 1 .. Len(c) : i \in places /\ j \in places /\ c[i] = c[j] => i = j
    BY <1>2, FirstTextAssumption
  <1> HIDE DEF places
  <1>4. Each(ItemsAt(c, places))
    BY <1>1, <1>3, ItemsAtOnce
  <1>5. Each(Functions(c))
    BY <1>4 DEF Functions, places
  <1>6. Each(PrefixOrder)
    BY <1>1, <1>2, FirstTextAssumption DEF Each
  <1>7. QED
    BY <1>5, <1>6, FirstTextAssumption DEF Splittable

InModules == pc \in {"modules", "modular"}

\* The parts are those of the file that was given, of the kind that is being made.
PartsDivide ==
  /\ pc \in {"start", "begun"} => parts = <<>>
  /\ parts # <<>> =>
       Divided(IF InModules THEN "module" ELSE "chunk", parts, ToSet(Functions(cfile)))

OnceInv == ChunkInv /\ PartsDivide

LEMMA PartsKept ==
  ASSUME OnceInv, UNCHANGED <<parts, cfile>>, ~InModules, ~InModules',
         pc' \in {"start", "begun"} => pc \in {"start", "begun"}
  PROVE  PartsDivide'
  BY DEF OnceInv, PartsDivide

LEMMA ChunksMade ==
  ASSUME cfile \in CFiles
  PROVE  Divided("chunk", ChosenChunks, ToSet(Functions(cfile)))
  <1>1. Each(Functions(cfile))
    BY FunctionsOnce DEF Splittable
  <1>2. QED
    BY <1>1, ChunkSourceDivides, StructuralDivides DEF ChosenChunks

LEMMA PartsStep ==
  ASSUME OnceInv, Next PROVE PartsDivide'
  <1>1. CASE Begin
    <2>1. parts' = <<>>
      BY <1>1 DEF Begin, OnceInv, PartsDivide, chunking
    <2>2. QED
      BY <2>1 DEF PartsDivide
  <1>2. CASE Modules
    <2>1. /\ pc = "begun" /\ pc' = "modules" /\ cfile' = cfile
          /\ parts' = SplitIntoModules(cfile, PrefixOrder, 1000)
      BY <1>2 DEF Modules, given
    <2>2. cfile \in CFiles
      BY <2>1 DEF OnceInv, ChunkInv, ChunkParts, FileGiven
    <2>3. Divided("module", parts', ToSet(Functions(cfile')))
      BY <2>1, <2>2, FunctionsOnce, SplitDivides
    <2>4. QED
      BY <2>1, <2>3 DEF PartsDivide, InModules
  <1>3. CASE ModulesMigrated
    <2>1. pc = "modules" /\ pc' = "modular" /\ parts' = parts /\ cfile' = cfile
      BY <1>3 DEF ModulesMigrated, chunking, given
    <2>2. QED
      BY <2>1 DEF OnceInv, PartsDivide, InModules
  <1>4. CASE Chunks
    <2>1. pc \in {"begun", "modules"} /\ pc' \in {"agree", "chunk"} /\ cfile' = cfile /\ parts' = ChosenChunks
      BY <1>4 DEF Chunks, given
    <2>2. cfile \in CFiles
      BY <2>1 DEF OnceInv, ChunkInv, ChunkParts, FileGiven
    <2>3. Divided("chunk", parts', ToSet(Functions(cfile')))
      BY <2>1, <2>2, ChunksMade
    <2>4. QED
      BY <2>1, <2>3 DEF PartsDivide, InModules
  <1>5. CASE Whole \/ Agree \/ AskChunk \/ Fails \/ WholeReply
    BY <1>5, PartsKept DEF Whole, Agree, AskChunk, Fails, WholeReply, chunking, given, InModules
  <1>6. CASE Transient
    BY <1>6, PartsKept DEF Transient, chunking, given, InModules
  <1>7. CASE DataReply
    BY <1>7, PartsKept DEF DataReply, given, InModules
  <1>8. CASE ChunkReply
    <2>1. pc = "asked" /\ pc' \in {"asked", "chunk"} /\ UNCHANGED <<parts, cfile>>
      BY <1>8 DEF ChunkReply, Accept, given
    <2>2. QED
      BY <2>1, PartsKept DEF InModules
  <1>9. CASE SecondReply
    <2>1. pc = "asked" /\ pc' = "chunk" /\ UNCHANGED <<parts, cfile>>
      BY <1>9 DEF SecondReply, Accept, given
    <2>2. QED
      BY <2>1, PartsKept DEF InModules
  <1>10. CASE Combine \/ StartCompletion \/ AskMissing
    BY <1>10, PartsKept DEF Combine, StartCompletion, AskMissing, chunking, given, InModules
  <1>11. CASE CompletionReply
    <2>1. pc = "asked" /\ pc' \in {"done", "pass"} /\ UNCHANGED <<parts, cfile>>
      BY <1>11 DEF CompletionReply, chunking, given
    <2>2. QED
      BY <2>1, PartsKept DEF InModules
  <1>12. CASE CompletionFails \/ CompletionEnds
    BY <1>12, PartsKept DEF CompletionFails, CompletionEnds, chunking, given, InModules
  <1>13. CASE StartEnsemble
    BY <1>13, PartsKept DEF StartEnsemble, chunking, given, InModules
  <1>14. CASE (\E k \in DOMAIN tasks : TaskEnds(k)) \/ Launch \/ Await \/ Select
    BY <1>14, PartsKept DEF TaskEnds, Launch, Await, Select, chunking, given, InModules
  <1>15. QED
    BY <1>1, <1>2, <1>3, <1>4, <1>5, <1>6, <1>7, <1>8, <1>9, <1>10, <1>11, <1>12, <1>13, <1>14 DEF Next

LEMMA OnceHolds == Spec => []OnceInv
  <1>1. Init => PartsDivide
    BY DEF Init, PartsDivide
  <1>2. OnceInv /\ UNCHANGED vars => PartsDivide'
    BY DEF OnceInv, PartsDivide, InModules, vars
  <1>3. OnceInv /\ [Next]_vars => PartsDivide'
    BY <1>2, PartsStep
  <1>4. Spec => []ChunkInv
    BY ChunkHolds
  <1>5. ChunkInv /\ PartsDivide <=> OnceInv
    BY DEF OnceInv
  <1>6. QED
    BY <1>1, <1>3, <1>4, <1>5, PTL DEF Spec

\* A list that has each element once has it at one place.
LEMMA OnePlace ==
  ASSUME NEW s, Each(s), NEW x, x \in ToSet(s)
  PROVE  Cardinality({i \in DOMAIN s : s[i] = x}) = 1
  <1>1. IsASeq(s) /\ DOMAIN s = 1 .. Len(s)
    BY SeqFacts DEF Each
  <1>2. PICK i \in 1 .. Len(s) : x = s[i]
    BY <1>1, ToSetOfASeq
  <1>3. {k \in DOMAIN s : s[k] = x} = {i}
    BY <1>1, <1>2 DEF Each
  <1>4. QED
    BY <1>3, FS_Singleton

\* However a file is divided, into chunks by lines, by what is of its data model, or
\* into modules by prefix, each of its functions is translated in one place
\* (chunk_c_source, chunk_c_source_structural, split_into_modules).
THEOREM EachFunctionInOnePart == Spec => []EveryFunctionOnce
  <1>1. OnceInv => EveryFunctionOnce
    <2> DEFINE kind == IF InModules THEN "module" ELSE "chunk"
               of(p) == IF pc \in {"modules", "modular"} THEN p.functions
                        ELSE IF p.data THEN <<>> ELSE p.items
               contents == [i \in DOMAIN parts |-> of(parts[i])]
    <2>1. SUFFICES ASSUME OnceInv, parts # <<>>, NEW f \in ToSet(Functions(cfile))
                   PROVE  Cardinality({i \in DOMAIN FlattenSeq(contents) : FlattenSeq(contents)[i] = f}) = 1
      BY DEF EveryFunctionOnce
    <2>2. Divided(kind, parts, ToSet(Functions(cfile)))
      BY <2>1 DEF OnceInv, PartsDivide
    <2>3. \A p : of(p) = Content(kind, p)
      BY DEF Content, InModules
    <2>4. contents = [i \in DOMAIN parts |-> Content(kind, parts[i])]
      BY <2>3
    <2> HIDE DEF kind, contents
    <2>5. Each(FlattenSeq(contents)) /\ ToSet(FlattenSeq(contents)) = ToSet(Functions(cfile))
      BY ONLY <2>2, <2>4, DividedContents
    <2>6. QED
      BY <2>1, <2>5, OnePlace
  <1>2. QED
    BY <1>1, OnceHolds, PTL


-----------------------------------------------------------------------------
(***************************************************************************)
(* Texts of lines: what the assembly, the rules and the surgical repair    *)
(* make of sequences are sequences.                                        *)
(***************************************************************************)
LEMMA BoundedInduction ==
  ASSUME NEW m \in Nat, NEW T, 0 \in T, \A n \in 1 .. m : n - 1 \in T => n \in T
  PROVE  m \in T
  <1> DEFINE U == {n \in Nat : n <= m => n \in T}
  <1>1. 0 \in U
    OBVIOUS
  <1>2. ASSUME NEW n \in Nat, n \in U PROVE n + 1 \in U
    <2>1. SUFFICES ASSUME n + 1 <= m PROVE n + 1 \in T
      OBVIOUS
    <2>2. n \in T /\ n + 1 \in 1 .. m /\ (n + 1) - 1 = n
      BY <1>2, <2>1
    <2>3. QED
      BY <2>2
  <1>3. Nat \subseteq U
    <2> HIDE DEF U
    <2>1. QED
      BY <1>1, <1>2, SetInduction
  <1>4. QED
    BY <1>3

\* Two sequences that agree in length and at every place are one.
LEMMA SeqsAgree ==
  ASSUME NEW s, IsASeq(s), NEW t, IsASeq(t), Len(s) = Len(t), \A i \in 1 .. Len(s) : s[i] = t[i]
  PROVE  s = t
  <1> DEFINE S == ToSet(s) \union ToSet(t)
  <1>1. s \in Seq(S) /\ t \in Seq(S)
    <2>1. Len(s) \in Nat /\ s \in [1 .. Len(s) -> S] /\ Len(t) \in Nat /\ t \in [1 .. Len(t) -> S]
      BY DEF IsASeq
    <2>2. QED
      BY <2>1
  <1> HIDE DEF S
  <1>2. QED
    BY <1>1

LEMMA TypedSubSeq ==
  ASSUME NEW S, NEW s \in Seq(S), NEW m \in Nat \ {0}, NEW n \in Nat, n <= Len(s)
  PROVE  /\ SubSeq(s, m, n) \in Seq(S)
         /\ Len(SubSeq(s, m, n)) = IF m <= n THEN n - m + 1 ELSE 0
         /\ \A i \in 1 .. Len(SubSeq(s, m, n)) : SubSeq(s, m, n)[i] = s[m + i - 1]
  OBVIOUS

LEMMA SubSeqFacts ==
  ASSUME NEW s, IsASeq(s), NEW m \in Nat \ {0}, NEW n \in Nat, n <= Len(s)
  PROVE  /\ IsASeq(SubSeq(s, m, n))
         /\ Len(SubSeq(s, m, n)) = IF m <= n THEN n - m + 1 ELSE 0
         /\ \A i \in 1 .. Len(SubSeq(s, m, n)) : SubSeq(s, m, n)[i] = s[m + i - 1]
  <1>1. s \in Seq(ToSet(s))
    BY DEF IsASeq
  <1>2. QED
    BY <1>1, TypedSubSeq, TypedIsASeq


LEMMA PassedOrKept ==
  ASSUME NEW done, NEW t, NEW i, NEW ranges
  PROVE  \/ PassLine(done, t, i, ranges).lines = done.lines
         \/ PassLine(done, t, i, ranges).lines = Append(done.lines, t[i])
  <1>1. CASE i < done.next
    BY <1>1 DEF PassLine
  <1>2. CASE ~(i < done.next) /\ \E r \in ranges : r[1] = i
    <2> DEFINE last == (CHOOSE r \in ranges : r[1] = i)[2]
    <2>1. PassLine(done, t, i, ranges) = [lines |-> done.lines, next |-> last]
      BY <1>2 DEF PassLine
    <2> HIDE DEF last
    <2>2. QED
      BY <2>1
  <1>3. CASE ~(i < done.next) /\ ~(\E r \in ranges : r[1] = i)
    <2>1. PassLine(done, t, i, ranges) = [lines |-> Append(done.lines, t[i]), next |-> i + 1]
      BY <1>3 DEF PassLine
    <2>2. QED
      BY <2>1
  <1>4. QED
    BY <1>1, <1>2, <1>3

LEMMA WithoutIsASeq ==
  ASSUME NEW t, Len(t) \in Nat, NEW ranges
  PROVE  IsASeq(Without(t, ranges))
  <1> DEFINE base == [lines |-> <<>>, next |-> 1]
             after == CHOOSE f : f = [i \in 0 .. Len(t) |->
                        IF i = 0 THEN base ELSE PassLine(f[i - 1], t, i, ranges)]
  <1>1. \E f : f = [i \in 0 .. Len(t) |-> IF i = 0 THEN base ELSE PassLine(f[i - 1], t, i, ranges)]
    <2>1. PICK f : Chain("without", t, ranges, base, Len(t), f)
      BY ChainExists
    <2>2. QED
      BY <2>1 DEF Chain, StepOf, LineStepOf
  <1>2. after = [i \in 0 .. Len(t) |-> IF i = 0 THEN base ELSE PassLine(after[i - 1], t, i, ranges)]
    BY <1>1, Zenon
  <1>3. Without(t, ranges) = after[Len(t)].lines
    BY DEF Without
  <1> HIDE DEF after
  <1>4. after[0] = base /\ \A i \in 1 .. Len(t) : after[i] = PassLine(after[i - 1], t, i, ranges)
    BY <1>2
  <1> DEFINE T == {i \in 0 .. Len(t) : IsASeq(after[i].lines)}
  <1>5. 0 \in T
    BY <1>4, EmptyIsASeq
  <1>6. ASSUME NEW i \in 1 .. Len(t), i - 1 \in T PROVE i \in T
    <2>1. IsASeq(after[i - 1].lines)
      BY <1>6
    <2>2. IsASeq(Append(after[i - 1].lines, t[i]))
      BY <2>1, AppendFacts
    <2>3. after[i] = PassLine(after[i - 1], t, i, ranges)
      BY <1>4
    <2>4. after[i].lines = after[i - 1].lines \/ after[i].lines = Append(after[i - 1].lines, t[i])
      BY <2>3, PassedOrKept
    <2>5. IsASeq(after[i].lines)
      BY <2>1, <2>2, <2>4
    <2>6. QED
      BY <2>5
  <1>7. Len(t) \in T
    <2> HIDE DEF T
    <2>1. QED
      BY <1>5, <1>6, BoundedInduction
  <1>8. QED
    BY <1>3, <1>7

LEMMA WithoutLinesIsASeq ==
  ASSUME NEW t, Len(t) \in Nat, NEW places
  PROVE  IsASeq(WithoutLines(t, places))
  BY WithoutIsASeq DEF WithoutLines

LEMMA DeduplicatedIsASeq ==
  ASSUME NEW t, Len(t) \in Nat, NEW known
  PROVE  IsASeq(Deduplicated(t, known).lines) /\ IsASeq(Deduplicated(t, known).uses)
  <1> DEFINE base == [lines |-> <<>>, uses |-> <<>>, defined |-> known, next |-> 1]
             after == CHOOSE f : f = [i \in 0 .. Len(t) |->
                        IF i = 0 THEN base ELSE DeduplicateLine(f[i - 1], t, i)]
  <1>1. \E f : f = [i \in 0 .. Len(t) |-> IF i = 0 THEN base ELSE DeduplicateLine(f[i - 1], t, i)]
    <2>1. PICK f : Chain("deduplicated", t, {}, base, Len(t), f)
      BY ChainExists
    <2>2. QED
      BY <2>1 DEF Chain, StepOf, LineStepOf
  <1>2. after = [i \in 0 .. Len(t) |-> IF i = 0 THEN base ELSE DeduplicateLine(after[i - 1], t, i)]
    BY <1>1, Zenon
  <1>3. Deduplicated(t, known) = after[Len(t)]
    BY DEF Deduplicated
  <1> HIDE DEF after
  <1>4. after[0] = base /\ \A i \in 1 .. Len(t) : after[i] = DeduplicateLine(after[i - 1], t, i)
    BY <1>2
  <1> DEFINE Formed(d) == d = [lines |-> d.lines, uses |-> d.uses, defined |-> d.defined, next |-> d.next]
             T == {i \in 0 .. Len(t) : /\ IsASeq(after[i].lines) /\ IsASeq(after[i].uses)
                                       /\ Formed(after[i])}
  <1>5. 0 \in T
    BY <1>4, EmptyIsASeq
  <1>6. ASSUME NEW i \in 1 .. Len(t), i - 1 \in T PROVE i \in T
    <2>1. IsASeq(after[i - 1].lines) /\ IsASeq(after[i - 1].uses) /\ Formed(after[i - 1])
      BY <1>6
    <2>2. IsASeq(Append(after[i - 1].lines, t[i])) /\ IsASeq(Append(after[i - 1].uses, t[i]))
      BY <2>1, AppendFacts
    <2>3. after[i] = DeduplicateLine(after[i - 1], t, i)
      BY <1>4
    <2>4. /\ \/ after[i].lines = after[i - 1].lines
             \/ after[i].lines = Append(after[i - 1].lines, t[i])
          /\ \/ after[i].uses = after[i - 1].uses
             \/ after[i].uses = Append(after[i - 1].uses, t[i])
          /\ Formed(after[i])
      BY <2>1, <2>3 DEF DeduplicateLine
    <2>5. IsASeq(after[i].lines) /\ IsASeq(after[i].uses)
      BY <2>1, <2>2, <2>4
    <2>6. QED
      BY <2>4, <2>5
  <1>7. Len(t) \in T
    <2> HIDE DEF T
    <2>1. QED
      BY <1>5, <1>6, BoundedInduction
  <1>8. QED
    BY <1>3, <1>7

LEMMA AddedModule ==
  ASSUME NEW acc, IsASeq(acc.uses), IsASeq(acc.lines), NEW m, IsASeq(m)
  PROVE  IsASeq(AddModule(acc, m).uses) /\ IsASeq(AddModule(acc, m).lines)
  <1> DEFINE d == Deduplicated(NoFences(m), acc.defined)
             boundary == Code("boundary", "")
  <1>1. IsASeq(NoFences(m))
    BY SeqFacts, WithoutLinesIsASeq DEF NoFences
  <1>2. IsASeq(d.lines) /\ IsASeq(d.uses)
    BY <1>1, SeqFacts, DeduplicatedIsASeq
  <1>3. /\ AddModule(acc, m).uses = acc.uses \o d.uses
        /\ AddModule(acc, m).lines = IF d.lines = <<>> THEN acc.lines
                                     ELSE Append(acc.lines, boundary) \o d.lines
    BY DEF AddModule
  <1> HIDE DEF d, boundary
  <1>4. IsASeq(acc.uses \o d.uses)
    BY <1>2, JoinFacts
  <1>5. IsASeq(Append(acc.lines, boundary) \o d.lines)
    BY <1>2, AppendFacts, JoinFacts
  <1>6. QED
    BY <1>3, <1>4, <1>5

LEMMA AssembledIsASeq ==
  ASSUME NEW c, IsASeq(c), NEW ms, IsASeq(ms), \A i \in 1 .. Len(ms) : IsASeq(ms[i])
  PROVE  IsASeq(Assembled(c, ms))
  <1> DEFINE names == {DefinitionName(l) : l \in {m \in ToSet(c) : Defines(m)}}
             base == [uses |-> <<>>, lines |-> <<>>, defined |-> names]
             after == CHOOSE f : f = [n \in 0 .. Len(ms) |->
                        IF n = 0 THEN base ELSE AddModule(f[n - 1], ms[n])]
             all == after[Len(ms)]
  <1>0. Len(ms) \in Nat
    BY SeqFacts
  <1>1. \E f : f = [n \in 0 .. Len(ms) |-> IF n = 0 THEN base ELSE AddModule(f[n - 1], ms[n])]
    <2> HIDE DEF names
    <2>1. PICK f : Chain("assembled", ms, {}, base, Len(ms), f)
      BY <1>0, ChainExists
    <2>2. QED
      BY <2>1 DEF Chain, StepOf, LineStepOf
  <1>2. after = [n \in 0 .. Len(ms) |-> IF n = 0 THEN base ELSE AddModule(after[n - 1], ms[n])]
    BY <1>1, Zenon
  <1>3. Assembled(c, ms) = MergedUses(all.uses) \o c \o all.lines
    BY DEF Assembled
  <1> HIDE DEF after, names
  <1>4. after[0] = base /\ \A n \in 1 .. Len(ms) : after[n] = AddModule(after[n - 1], ms[n])
    BY <1>0, <1>2
  <1> DEFINE T == {n \in 0 .. Len(ms) : IsASeq(after[n].uses) /\ IsASeq(after[n].lines)}
  <1>5. 0 \in T
    BY <1>0, <1>4, EmptyIsASeq
  <1>6. ASSUME NEW n \in 1 .. Len(ms), n - 1 \in T PROVE n \in T
    <2>1. IsASeq(after[n - 1].uses) /\ IsASeq(after[n - 1].lines) /\ IsASeq(ms[n])
      BY <1>6
    <2>2. IsASeq(after[n].uses) /\ IsASeq(after[n].lines)
      BY <1>4, <2>1, AddedModule
    <2>3. QED
      BY <1>0, <2>2
  <1>7. Len(ms) \in T
    <2> HIDE DEF T
    <2>1. QED
      BY <1>0, <1>5, <1>6, BoundedInduction
  <1>8. IsASeq(all.uses) /\ IsASeq(all.lines)
    BY <1>7
  <1> HIDE DEF all
  <1>9. IsASeq(MergedUses(all.uses))
    BY <1>8, SeqFacts, WithoutLinesIsASeq DEF MergedUses
  <1>10. IsASeq(MergedUses(all.uses) \o c)
    BY <1>9, JoinFacts
  <1>11. IsASeq(MergedUses(all.uses) \o c \o all.lines)
    BY <1>8, <1>10, JoinFacts
  <1>12. QED
    BY <1>3, <1>11


\* A bounded set of places has a greatest one, and Max is it.
LEMMA GreatestExists ==
  ASSUME NEW n \in Nat, NEW S \in SUBSET (1 .. n), S # {}
  PROVE  Max(S) \in S /\ \A k \in S : k <= Max(S)
  <1> DEFINE U == {b \in Nat : \A k \in S : k <= b}
  <1>1. n \in U
    OBVIOUS
  <1>2. U \in SUBSET Nat /\ U # {}
    BY <1>1
  <1> HIDE DEF U
  <1>3. PICK b \in U : \A u \in U : b <= u
    BY <1>2, LeastExists
  <1>4. b \in Nat /\ \A k \in S : k <= b
    BY <1>3 DEF U
  <1>5. b \in S
    <2>1. SUFFICES ASSUME b \notin S PROVE FALSE
      OBVIOUS
    <2>2. b - 1 \in Nat /\ \A k \in S : k <= b - 1
      <3>1. PICK e \in S : TRUE
        OBVIOUS
      <3>2. e \in Nat /\ 1 <= e /\ e <= b
        BY <1>4, <3>1
      <3>3. ASSUME NEW k \in S PROVE k <= b - 1
        <4>1. k \in Nat /\ k <= b /\ k # b
          BY <1>4, <2>1
        <4>2. QED
          BY <1>4, <4>1
      <3>4. QED
        BY <1>4, <3>2, <3>3
    <2>3. b - 1 \in U
      BY <2>2 DEF U
    <2>4. b <= b - 1
      BY <1>3, <2>3
    <2>5. QED
      BY <1>4, <2>4
  <1>6. \E x \in S : \A y \in S : x >= y
    BY <1>4, <1>5
  <1>7. Max(S) = CHOOSE x \in S : \A y \in S : x >= y
    BY DEF Max
  <1>8. Max(S) \in S /\ \A y \in S : Max(S) >= y
    BY <1>6, <1>7
  <1>9. QED
    BY <1>8

LEMMA CutOffIsAPlace ==
  ASSUME NEW t, NEW i \in Nat
  PROVE  CutOffBefore(t, i) \in Nat
  <1> DEFINE far == {j \in 2 .. i - 1 : /\ j > i - 10
                                        /\ \A k \in j + 1 .. i - 1 : t[k].kind \in PassedOver}
             found == {j \in far : t[j].kind = "sig"}
  <1>1. CutOffBefore(t, i) = IF found = {} THEN 0 ELSE Max(found)
    BY DEF CutOffBefore
  <1>2. found \in SUBSET (1 .. i) /\ \A x \in found : x \in Nat
    OBVIOUS
  <1> HIDE DEF found
  <1>3. CASE found = {}
    BY <1>1, <1>3
  <1>4. CASE found # {}
    <2>1. Max(found) \in found
      BY <1>2, <1>4, GreatestExists
    <2>2. Max(found) \in Nat
      BY <1>2, <2>1
    <2>3. QED
      BY <1>1, <1>4, <2>2
  <1>5. QED
    BY <1>3, <1>4

LEMMA BoundaryLineIsASeq ==
  ASSUME NEW done, IsASeq(done), NEW t, NEW i \in Nat
  PROVE  IsASeq(BoundaryLine(done, t, i))
  <1> DEFINE j == IF t[i].kind = "boundary" THEN CutOffBefore(t, i) ELSE 0
             last == Min({j - 1, Len(done)})
             head == SubSeq(done, 1, last)
             stub == Append(Stub(t[j].name), t[i])
  <1>1. BoundaryLine(done, t, i) = IF j = 0 THEN Append(done, t[i]) ELSE head \o stub
    BY DEF BoundaryLine
  <1>2. j \in Nat
    BY CutOffIsAPlace
  <1> HIDE DEF j
  <1>3. CASE j = 0
    BY <1>1, <1>3, AppendFacts
  <1>4. CASE j # 0
    <2>1. {j - 1, Len(done)} \in SUBSET Nat
      BY <1>2, <1>4, SeqFacts
    <2>2. last \in Nat /\ last <= Len(done)
      BY <2>1, LeastExists
    <2> HIDE DEF last
    <2>3. IsASeq(head)
      BY <2>2, SubSeqFacts
    <2>4. IsASeq(Stub(t[j].name))
      <3> DEFINE a == Code("comment", "")
                 b == OneLine("fn", t[j].name)
      <3>1. Stub(t[j].name) = <<a, b, a>>
        BY DEF Stub
      <3> HIDE DEF a, b
      <3>2. <<a, b, a>> \in Seq({a, b})
        OBVIOUS
      <3>3. QED
        BY <3>1, <3>2, TypedIsASeq
    <2>5. IsASeq(stub)
      BY <2>4, AppendFacts
    <2> HIDE DEF head, stub
    <2>6. IsASeq(head \o stub)
      BY <2>3, <2>5, JoinFacts
    <2>7. QED
      BY <1>1, <1>4, <2>6
  <1>5. QED
    BY <1>3, <1>4

LEMMA TruncatedIsASeq ==
  ASSUME NEW t, Len(t) \in Nat, NEW es
  PROVE  IsASeq(TruncatedAtBoundary(t, es))
  <1> DEFINE after == CHOOSE f : f = [i \in 0 .. Len(t) |->
                        IF i = 0 THEN <<>> ELSE BoundaryLine(f[i - 1], t, i)]
  <1>1. \E f : f = [i \in 0 .. Len(t) |-> IF i = 0 THEN <<>> ELSE BoundaryLine(f[i - 1], t, i)]
    <2>1. PICK f : Chain("bounded", t, {}, <<>>, Len(t), f)
      BY ChainExists
    <2>2. QED
      BY <2>1 DEF Chain, StepOf, LineStepOf
  <1>2. after = [i \in 0 .. Len(t) |-> IF i = 0 THEN <<>> ELSE BoundaryLine(after[i - 1], t, i)]
    BY <1>1, Zenon
  <1>3. TruncatedAtBoundary(t, es) = after[Len(t)]
    BY DEF TruncatedAtBoundary
  <1> HIDE DEF after
  <1>4. after[0] = <<>> /\ \A i \in 1 .. Len(t) : after[i] = BoundaryLine(after[i - 1], t, i)
    BY <1>2
  <1> DEFINE T == {i \in 0 .. Len(t) : IsASeq(after[i])}
  <1>5. 0 \in T
    BY <1>4, EmptyIsASeq
  <1>6. ASSUME NEW i \in 1 .. Len(t), i - 1 \in T PROVE i \in T
    <2>1. IsASeq(after[i - 1]) /\ i \in Nat
      BY <1>6
    <2>2. IsASeq(after[i])
      BY <1>4, <2>1, BoundaryLineIsASeq
    <2>3. QED
      BY <2>2
  <1>7. Len(t) \in T
    <2> HIDE DEF T
    <2>1. QED
      BY <1>5, <1>6, BoundedInduction
  <1>8. QED
    BY <1>3, <1>7


LEMMA ClosedIsASeq ==
  ASSUME NEW t, IsASeq(t), NEW es
  PROVE  IsASeq(CloseBraces(t, es))
  <1> DEFINE whole == {i \in 1 .. Len(t) : NetDepth(t, i) = 0}
             note == Code("comment", "")
             close == Line("end", "", 0, BraceBalance(t))
             cut == SubSeq(t, 1, Max(whole))
  <1>1. CloseBraces(t, es) = IF BraceBalance(t) <= 0 THEN t
                             ELSE IF whole # {} THEN Append(cut, note) ELSE Append(t, close)
    BY DEF CloseBraces
  <1>2. Len(t) \in Nat /\ whole \in SUBSET (1 .. Len(t))
    BY SeqFacts
  <1>2a. \A x \in whole : x \in Nat /\ x <= Len(t)
    BY <1>2
  <1> HIDE DEF whole, note, close
  <1>3. whole # {} => IsASeq(Append(cut, note))
    <2>1. SUFFICES ASSUME whole # {} PROVE IsASeq(Append(cut, note))
      OBVIOUS
    <2>2. Max(whole) \in whole
      BY <1>2, <2>1, GreatestExists
    <2>3. Max(whole) \in Nat /\ Max(whole) <= Len(t)
      BY <1>2a, <2>2
    <2>4. IsASeq(cut)
      BY <2>3, SubSeqFacts
    <2>5. QED
      BY <2>4, AppendFacts
  <1>4. IsASeq(Append(t, close))
    BY AppendFacts
  <1> HIDE DEF cut
  <1>5. QED
    BY <1>1, <1>3, <1>4

LEMMA RuleIsASeq ==
  ASSUME NEW n \in 1 .. RuleCount, NEW t, IsASeq(t), NEW es
  PROVE  IsASeq(Rule(n, t, es))
  <1>0. Len(t) \in Nat
    BY SeqFacts
  <1>1. CASE n = 1
    <2>1. Rule(n, t, es) = StripFences(t, es)
      BY <1>1 DEF Rule
    <2>2. QED
      BY <1>0, <2>1, WithoutLinesIsASeq DEF StripFences
  <1>2. CASE n = 2
    <2>1. Rule(n, t, es) = InnerAttributes(t, es)
      BY <1>2 DEF Rule
    <2>2. QED
      BY <1>0, <2>1, FunctionIsASeq DEF InnerAttributes, Mapped
  <1>3. CASE n = 3
    <2>1. Rule(n, t, es) = InnerDocs(t, es)
      BY <1>3 DEF Rule
    <2>2. QED
      BY <1>0, <2>1, FunctionIsASeq DEF InnerDocs, Mapped
  <1>4. CASE n = 4
    <2>1. Rule(n, t, es) = DedupUses(t, es)
      BY <1>4 DEF Rule
    <2>2. QED
      BY <1>0, <2>1, WithoutLinesIsASeq DEF DedupUses
  <1>5. CASE n = 5
    <2>1. Rule(n, t, es) = OrphanedDerives(t, es)
      BY <1>5 DEF Rule
    <2>2. QED
      BY <1>0, <2>1, WithoutLinesIsASeq DEF OrphanedDerives
  <1>6. CASE n = 6
    <2>1. Rule(n, t, es) = DedupFunctions(t, es)
      BY <1>6 DEF Rule
    <2>2. QED
      BY <1>0, <2>1, WithoutIsASeq DEF DedupFunctions
  <1>7. CASE n = 7
    <2>1. Rule(n, t, es) = ConflictingImpls(t, es)
      BY <1>7 DEF Rule
    <2>2. QED
      BY <1>0, <2>1, WithoutIsASeq DEF ConflictingImpls
  <1>8. CASE n = 8
    <2>1. Rule(n, t, es) = ExternalImports(t, es)
      BY <1>8 DEF Rule
    <2>2. QED
      BY <1>0, <2>1, FunctionIsASeq DEF ExternalImports, Mapped
  <1>9. CASE n = 9
    <2>1. Rule(n, t, es) = WindowsCode(t, es)
      BY <1>9 DEF Rule
    <2>2. QED
      BY <1>0, <2>1, FunctionIsASeq DEF WindowsCode, Mapped
  <1>10. CASE n = 10
    <2>1. Rule(n, t, es) = CloneBounds(t, es)
      BY <1>10 DEF Rule
    <2>2. QED
      BY <1>0, <2>1, FunctionIsASeq DEF CloneBounds, Mapped
  <1>11. CASE n = 11
    <2>1. Rule(n, t, es) = MutOptionRefs(t, es)
      BY <1>11 DEF Rule
    <2>2. QED
      BY <1>0, <2>1, FunctionIsASeq DEF MutOptionRefs, Mapped
  <1>12. CASE n = 12
    <2>1. Rule(n, t, es) = TruncatedAtBoundary(t, es)
      BY <1>12 DEF Rule
    <2>2. QED
      BY <1>0, <2>1, TruncatedIsASeq
  <1>13. CASE n = 13
    <2>1. Rule(n, t, es) = FieldPrefixes(t, es)
      BY <1>13 DEF Rule
    <2>2. QED
      BY <1>0, <2>1, FunctionIsASeq DEF FieldPrefixes, Mapped
  <1>14. CASE n = 14
    <2>1. Rule(n, t, es) = MethodsToFunctions(t, es)
      BY <1>14 DEF Rule
    <2>2. QED
      BY <1>0, <2>1, FunctionIsASeq DEF MethodsToFunctions, Mapped
  <1>15. CASE n = 15
    <2>1. Rule(n, t, es) = CloseBraces(t, es)
      BY <1>15 DEF Rule
    <2>2. QED
      BY <2>1, ClosedIsASeq
  <1>16. n \in 1 .. 15
    BY DEF RuleCount
  <1>17. QED
    BY <1>1, <1>2, <1>3, <1>4, <1>5, <1>6, <1>7, <1>8, <1>9, <1>10, <1>11, <1>12, <1>13,
       <1>14, <1>15, <1>16


LEMMA AllRulesIsASeq ==
  ASSUME NEW t, IsASeq(t), NEW es
  PROVE  IsASeq(AllRules(t, es))
  <1> DEFINE after == CHOOSE f : f = [n \in 0 .. RuleCount |-> IF n = 0 THEN t ELSE Rule(n, f[n - 1], es)]
  <1>0. RuleCount \in Nat
    BY DEF RuleCount
  <1>1. \E f : f = [n \in 0 .. RuleCount |-> IF n = 0 THEN t ELSE Rule(n, f[n - 1], es)]
    <2>1. PICK f : Chain("ruled", <<>>, es, t, RuleCount, f)
      BY <1>0, ChainExists
    <2>2. QED
      BY <2>1 DEF Chain, StepOf, LineStepOf
  <1>2. after = [n \in 0 .. RuleCount |-> IF n = 0 THEN t ELSE Rule(n, after[n - 1], es)]
    BY <1>1, Zenon
  <1>3. AllRules(t, es) = after[RuleCount]
    BY DEF AllRules
  <1> HIDE DEF after
  <1>4. after[0] = t /\ \A n \in 1 .. RuleCount : after[n] = Rule(n, after[n - 1], es)
    BY <1>0, <1>2
  <1> DEFINE T == {n \in 0 .. RuleCount : IsASeq(after[n])}
  <1>5. 0 \in T
    BY <1>0, <1>4
  <1>6. ASSUME NEW n \in 1 .. RuleCount, n - 1 \in T PROVE n \in T
    <2>1. IsASeq(after[n - 1])
      BY <1>6
    <2>2. IsASeq(after[n])
      BY <1>4, <2>1, RuleIsASeq
    <2>3. QED
      BY <1>0, <2>2
  <1>7. RuleCount \in T
    <2> HIDE DEF T
    <2>1. QED
      BY <1>0, <1>5, <1>6, BoundedInduction
  <1>8. QED
    BY <1>3, <1>7

LEMMA AsContractIsASeq ==
  ASSUME NEW reply, IsASeq(reply)
  PROVE  IsASeq(AsContract(reply))
  <1>1. IsASeq(NoFences(reply))
    BY SeqFacts, WithoutLinesIsASeq DEF NoFences
  <1>2. IsASeq(WithoutImpls(NoFences(reply)))
    BY <1>1, SeqFacts, WithoutIsASeq DEF WithoutImpls
  <1> DEFINE c == WithoutImpls(NoFences(reply))
  <1>3. Len(c) \in Nat
    BY <1>2, SeqFacts
  <1>4. AsContract(reply) = Fixed(c)
    BY DEF AsContract
  <1> HIDE DEF c
  <1>5. IsASeq(Fixed(c))
    BY <1>3, FunctionIsASeq DEF Fixed, Mapped
  <1>6. QED
    BY <1>4, <1>5

\* A function ends on its first line or below it, inside the text.
LEMMA ClosingBraceIsInside ==
  ASSUME NEW t, IsASeq(t), NEW i \in 1 .. Len(t)
  PROVE  FindClosingBrace(t, i) \in i .. Len(t)
  <1> DEFINE S == {k \in i .. Len(t) : Opened(t, i, k) /\ RawDepth(t, i, k) = 0}
  <1>1. FindClosingBrace(t, i) = IF S = {} THEN i ELSE Min(S)
    BY DEF FindClosingBrace, FirstOr
  <1>2. Len(t) \in Nat
    BY SeqFacts
  <1>3. S \in SUBSET Nat /\ \A k \in S : k \in i .. Len(t)
    BY <1>2
  <1> HIDE DEF S
  <1>4. CASE S = {}
    BY <1>1, <1>2, <1>4
  <1>5. CASE S # {}
    <2>1. Min(S) \in S
      BY <1>3, <1>5, LeastExists
    <2>2. QED
      BY <1>1, <1>3, <1>5, <2>1
  <1>6. QED
    BY <1>4, <1>5


\* What two sequences put together begin with, and what they end with.
LEMMA HeadOfJoin ==
  ASSUME NEW s, IsASeq(s), NEW t, IsASeq(t), NEW n \in Nat, n <= Len(s)
  PROVE  SubSeq(s \o t, 1, n) = SubSeq(s, 1, n)
  <1> DEFINE u == s \o t
             head == SubSeq(u, 1, n)
             same == SubSeq(s, 1, n)
  <1>1. Len(s) \in Nat /\ Len(t) \in Nat /\ 1 \in Nat \ {0}
    BY SeqFacts
  <1>2. IsASeq(u) /\ Len(u) = Len(s) + Len(t) /\ \A i \in 1 .. Len(s) : u[i] = s[i]
    BY JoinFacts
  <1> HIDE DEF u
  <1>3. n <= Len(u)
    BY <1>1, <1>2
  <1>4. /\ IsASeq(head) /\ Len(head) = IF 1 <= n THEN n - 1 + 1 ELSE 0
        /\ \A i \in 1 .. Len(head) : head[i] = u[1 + i - 1]
    BY <1>1, <1>2, <1>3, SubSeqFacts
  <1>5. /\ IsASeq(same) /\ Len(same) = IF 1 <= n THEN n - 1 + 1 ELSE 0
        /\ \A i \in 1 .. Len(same) : same[i] = s[1 + i - 1]
    BY <1>1, SubSeqFacts
  <1> HIDE DEF head, same
  <1>6. Len(head) = n /\ Len(same) = n
    BY <1>4, <1>5
  <1>7. ASSUME NEW i \in 1 .. Len(head) PROVE head[i] = same[i]
    <2>1. i \in 1 .. Len(s) /\ 1 + i - 1 = i /\ i \in 1 .. Len(same)
      BY <1>1, <1>6
    <2>2. QED
      BY <1>2, <1>4, <1>5, <2>1
  <1>8. head = same
    BY <1>4, <1>5, <1>6, <1>7, SeqsAgree
  <1>9. QED
    BY <1>8 DEF head, same, u

LEMMA AllOfIt ==
  ASSUME NEW s, IsASeq(s)
  PROVE  SubSeq(s, 1, Len(s)) = s
  <1> DEFINE all == SubSeq(s, 1, Len(s))
  <1>1. Len(s) \in Nat /\ 1 \in Nat \ {0}
    BY SeqFacts
  <1>2. /\ IsASeq(all) /\ Len(all) = IF 1 <= Len(s) THEN Len(s) - 1 + 1 ELSE 0
        /\ \A i \in 1 .. Len(all) : all[i] = s[1 + i - 1]
    BY <1>1, SubSeqFacts
  <1> HIDE DEF all
  <1>3. Len(all) = Len(s) /\ \A i \in 1 .. Len(all) : all[i] = s[i]
    BY <1>1, <1>2
  <1>4. all = s
    BY <1>2, <1>3, SeqsAgree
  <1>5. QED
    BY <1>4 DEF all

LEMMA TailOfJoin ==
  ASSUME NEW s, IsASeq(s), NEW t, IsASeq(t)
  PROVE  SubSeq(s \o t, Len(s) + 1, Len(s \o t)) = t
  <1> DEFINE u == s \o t
             k == Len(s)
             tail == SubSeq(u, k + 1, Len(u))
  <1>1. k \in Nat /\ Len(t) \in Nat /\ k + 1 \in Nat \ {0}
    BY SeqFacts
  <1>2. IsASeq(u) /\ Len(u) = k + Len(t) /\ \A i \in 1 .. Len(t) : u[k + i] = t[i]
    BY JoinFacts
  <1> HIDE DEF u, k
  <1>3. Len(u) \in Nat
    BY <1>1, <1>2
  <1>4. /\ IsASeq(tail) /\ Len(tail) = IF k + 1 <= Len(u) THEN Len(u) - (k + 1) + 1 ELSE 0
        /\ \A i \in 1 .. Len(tail) : tail[i] = u[(k + 1) + i - 1]
    BY <1>1, <1>2, <1>3, SubSeqFacts
  <1> HIDE DEF tail
  <1>5. Len(tail) = Len(t)
    BY <1>1, <1>2, <1>4
  <1>6. ASSUME NEW i \in 1 .. Len(tail) PROVE tail[i] = t[i]
    <2>1. i \in 1 .. Len(t) /\ (k + 1) + i - 1 = k + i
      BY <1>1, <1>5
    <2>2. QED
      BY <1>2, <1>4, <2>1
  <1>7. tail = t
    BY <1>4, <1>5, <1>6, SeqsAgree
  <1>8. QED
    BY <1>7 DEF tail, u, k

\* Text u is text t but for what stands at the places a to b.
Framed(u, t, a, b) ==
  /\ IsASeq(u)
  /\ SubSeq(u, 1, a - 1) = SubSeq(t, 1, a - 1)
  /\ \E k \in 0 .. Len(u) : SubSeq(u, k + 1, Len(u)) = SubSeq(t, b + 1, Len(t))

\* A part of a sequence is replaced by another sequence: what is before it and what
\* is behind it are as they were.
LEMMA Replaced ==
  ASSUME NEW t, IsASeq(t), NEW fn, IsASeq(fn), NEW a \in 1 .. Len(t), NEW b \in a .. Len(t),
         NEW u, u = SubSeq(t, 1, a - 1) \o fn \o SubSeq(t, b + 1, Len(t))
  PROVE  Framed(u, t, a, b)
  <1> DEFINE head == SubSeq(t, 1, a - 1)
             tail == SubSeq(t, b + 1, Len(t))
  <1>1. /\ Len(t) \in Nat /\ a \in Nat /\ b \in Nat
        /\ 1 <= a /\ a <= b /\ b <= Len(t) /\ a - 1 \in Nat /\ a - 1 <= Len(t) /\ b + 1 \in Nat \ {0}
        /\ 1 \in Nat \ {0}
    BY SeqFacts
  <1>2. IsASeq(head) /\ Len(head) = IF 1 <= a - 1 THEN (a - 1) - 1 + 1 ELSE 0
    BY <1>1, SubSeqFacts
  <1>3. IsASeq(tail)
    BY <1>1, SubSeqFacts
  <1>4. u = head \o fn \o tail
    OBVIOUS
  <1> HIDE DEF head, tail
  <1>5. Len(head) = a - 1
    BY <1>1, <1>2
  <1>6. IsASeq(head \o fn)
    BY <1>2, JoinFacts
  <1>7. IsASeq(u) /\ Len(u) = Len(head \o fn) + Len(tail) /\ Len(tail) \in Nat /\ Len(head \o fn) \in Nat
    BY <1>3, <1>4, <1>6, JoinFacts, SeqFacts
  <1>8. SubSeq(u, 1, a - 1) = head
    <2>1. Len(head \o fn) = Len(head) + Len(fn) /\ Len(fn) \in Nat
      BY <1>2, JoinFacts, SeqFacts
    <2>2. a - 1 <= Len(head \o fn)
      BY <1>1, <1>5, <2>1
    <2>3. SubSeq(u, 1, a - 1) = SubSeq(head \o fn, 1, a - 1)
      <3> DEFINE most == head \o fn
                 n == a - 1
      <3>1. IsASeq(most) /\ n \in Nat /\ n <= Len(most) /\ u = most \o tail
        BY <1>1, <1>4, <1>6, <2>2
      <3> HIDE DEF most, n
      <3>2. SubSeq(u, 1, n) = SubSeq(most, 1, n)
        BY ONLY <1>3, <3>1, HeadOfJoin
      <3>3. QED
        BY <3>2 DEF most, n
    <2>4. SubSeq(head \o fn, 1, a - 1) = SubSeq(head, 1, a - 1)
      BY <1>1, <1>2, <1>5, HeadOfJoin
    <2>5. SubSeq(head, 1, a - 1) = head
      BY <1>2, <1>5, AllOfIt
    <2>6. QED
      BY <2>3, <2>4, <2>5
  <1> DEFINE k == Len(head \o fn)
  <1>9. SubSeq(u, k + 1, Len(u)) = tail
    BY <1>3, <1>4, <1>6, TailOfJoin
  <1>10. k \in 0 .. Len(u)
    <2>1. k \in Nat /\ Len(tail) \in Nat /\ Len(u) = k + Len(tail)
      BY <1>7
    <2> HIDE DEF k
    <2>2. QED
      BY ONLY <2>1
  <1> HIDE DEF k
  <1>11. QED
    BY <1>7, <1>8, <1>9, <1>10 DEF head, tail, Framed


-----------------------------------------------------------------------------
(***************************************************************************)
(* Surgical repair.  What is kept of the function that was asked for is    *)
(* where it is in the text that waits for the answer; that text is the     *)
(* same until the answer comes.                                            *)
(***************************************************************************)
Located ==
  \E i \in 1 .. Len(rust) : /\ BeginsFn(rust[i])
                            /\ wanted.name = rust[i].name /\ wanted.at = Extent(rust, i)

RepairInv ==
  /\ IsASeq(contract) /\ IsASeq(rust) /\ IsASeq(translated)
  /\ \A i \in 1 .. Len(translated) : IsASeq(translated[i])
  /\ rule \in Nat \ {0}
  /\ stage = "asked" => Located

LEMMA ModulesAreSeqs ==
  ASSUME NEW ts \in ModuleTexts
  PROVE  IsASeq(ts) /\ \A i \in 1 .. Len(ts) : IsASeq(ts[i])
  <1>1. IsASeq(ts) /\ \A t \in ToSet(ts) : IsASeq(t)
    BY AssembledRepairAssumption DEF IsASeq
  <1>2. DOMAIN ts = 1 .. Len(ts)
    BY <1>1, SeqFacts
  <1>3. \A i \in 1 .. Len(ts) : ts[i] \in ToSet(ts)
    BY <1>2 DEF ToSet
  <1>4. QED
    BY <1>1, <1>3

LEMMA RepairBegins == RepairInit => RepairInv
  <1>1. SUFFICES ASSUME RepairInit PROVE RepairInv
    OBVIOUS
  <1>2. /\ stage = "contract" /\ translated \in ModuleTexts /\ contract = <<>> /\ rust = <<>>
        /\ rule = 1
    BY <1>1 DEF RepairInit
  <1>3. IsASeq(contract) /\ IsASeq(rust)
    BY <1>2, EmptyIsASeq
  <1>4. IsASeq(translated) /\ \A i \in 1 .. Len(translated) : IsASeq(translated[i])
    BY <1>2, ModulesAreSeqs
  <1>5. QED
    BY <1>2, <1>3, <1>4 DEF RepairInv

LEMMA ContractKept ==
  ASSUME RepairInv, AskContract
  PROVE  RepairInv'
  <1>1. PICK reply \in ContractReplies :
          LET c == AsContract(reply)
              ruled == AllRules(c, Rustc(c))
              accepted == IF Compiles(c) THEN c ELSE IF Compiles(ruled) THEN ruled ELSE <<>>
          IN IF accepted = <<>>
             THEN attempts' = attempts + 1 /\ UNCHANGED <<stage, contract>>
             ELSE contract' = accepted /\ stage' = "assemble" /\ UNCHANGED attempts
    BY DEF AskContract
  <1> DEFINE c == AsContract(reply)
             told == Rustc(c)
             ruled == AllRules(c, told)
             accepted == IF Compiles(c) THEN c ELSE IF Compiles(ruled) THEN ruled ELSE <<>>
  <1>2. IF accepted = <<>> THEN contract' = contract /\ stage' = stage
        ELSE contract' = accepted /\ stage' = "assemble"
    BY <1>1
  <1>3. IsASeq(reply)
    BY AssembledRepairAssumption DEF IsASeq
  <1>4. IsASeq(c)
    BY <1>3, AsContractIsASeq
  <1> HIDE DEF c, told
  <1>5. IsASeq(ruled)
    BY <1>4, AllRulesIsASeq
  <1> HIDE DEF ruled
  <1>6. IsASeq(accepted)
    BY <1>4, <1>5, EmptyIsASeq
  <1> HIDE DEF accepted
  <1>7. UNCHANGED <<translated, rust, rule>> /\ stage = "contract"
    BY DEF AskContract
  <1>8. IsASeq(contract') /\ stage' # "asked"
    BY <1>6, <1>2, <1>7 DEF RepairInv
  <1>9. QED
    BY <1>7, <1>8 DEF RepairInv

LEMMA FunctionAtIsOne ==
  ASSUME NEW t, IsASeq(t), NEW line, FunctionAt(t, line) # Nowhere
  PROVE  \E i \in 1 .. Len(t) : BeginsFn(t[i]) /\ FunctionAt(t, line) = Extent(t, i)
  <1> DEFINE above == {i \in 1 .. line : BeginsFn(t[i])}
             e == Extent(t, Max(above))
  <1>1. FunctionAt(t, line) = IF line \notin 1 .. Len(t) \/ above = {} \/ line > e.last
                              THEN Nowhere ELSE e
    BY DEF FunctionAt
  <1>2. line \in 1 .. Len(t) /\ above # {} /\ FunctionAt(t, line) = e
    BY <1>1
  <1>3. Len(t) \in Nat
    BY SeqFacts
  <1>4. line \in Nat /\ line <= Len(t) /\ above \in SUBSET (1 .. line)
    BY <1>2, <1>3
  <1>5. \A i \in above : i \in 1 .. Len(t) /\ BeginsFn(t[i])
    BY <1>3, <1>4
  <1> HIDE DEF above
  <1>6. Max(above) \in above
    BY <1>2, <1>4, GreatestExists
  <1>7. QED
    BY <1>2, <1>5, <1>6

LEMMA AskedIsLocated ==
  ASSUME RepairInv, AskFunction
  PROVE  RepairInv'
  <1> DEFINE first == Min({e.line : e \in Rustc(rust)})
             place == FunctionAt(rust, first)
  <1>1. \/ place = Nowhere /\ stage' = "check" /\ wanted' = wanted
        \/ /\ place # Nowhere /\ stage' = "asked"
           /\ wanted' = [name |-> rust[place.first].name, at |-> place,
                         context |-> ContextOf(rust, rust[place.first].name)]
    BY DEF AskFunction
  <1>2. UNCHANGED <<translated, contract, rust, rule>>
    BY DEF AskFunction
  <1> HIDE DEF first
  <1>3. ASSUME stage' = "asked" PROVE Located'
    <2>1. /\ place # Nowhere
          /\ wanted' = [name |-> rust[place.first].name, at |-> place,
                        context |-> ContextOf(rust, rust[place.first].name)]
      BY <1>1, <1>3
    <2>2. PICK i \in 1 .. Len(rust) : BeginsFn(rust[i]) /\ place = Extent(rust, i)
      BY <2>1, FunctionAtIsOne DEF RepairInv
    <2>3. place.first = i
      BY <2>2 DEF Extent
    <2> HIDE DEF place
    <2>4. wanted'.name = rust[i].name /\ wanted'.at = Extent(rust, i)
      BY <2>1, <2>2, <2>3
    <2>5. rust' = rust
      BY <1>2
    <2>6. QED
      BY <2>2, <2>4, <2>5 DEF Located
  <1>4. QED
    BY <1>2, <1>3 DEF RepairInv

\* An answer replaces the first function of the name, and with only one of the name
\* that is the one that was asked for.
LEMMA AnswerReplaces ==
  ASSUME RepairInv, Answer
  PROVE  /\ IsASeq(rust')
         /\ \/ \E i, j \in 1 .. Len(rust) : /\ BeginsFn(rust[i]) /\ BeginsFn(rust[j]) /\ i # j
                                            /\ rust[i].name = wanted.name /\ rust[j].name = wanted.name
            \/ /\ SubSeq(rust', 1, wanted.at.first - 1) = SubSeq(rust, 1, wanted.at.first - 1)
               /\ \E k \in 0 .. Len(rust') :
                    SubSeq(rust', k + 1, Len(rust')) = SubSeq(rust, wanted.at.last + 1, Len(rust))
  <1>1. PICK fn \in FunctionReplies : rust' = Splice(rust, wanted.name, fn)
    BY DEF Answer
  <1>2. IsASeq(fn) /\ IsASeq(rust)
    BY AssembledRepairAssumption DEF IsASeq, RepairInv
  <1>3. PICK i \in 1 .. Len(rust) : /\ BeginsFn(rust[i])
                                    /\ wanted.name = rust[i].name /\ wanted.at = Extent(rust, i)
    BY DEF Answer, RepairInv, Located
  <1> DEFINE named == {j \in 1 .. Len(rust) : BeginsFn(rust[j]) /\ rust[j].name = wanted.name}
             a == Min(named)
             b == FindClosingBrace(rust, a)
  <1>4. Len(rust) \in Nat
    BY <1>2, SeqFacts
  <1>5. i \in named /\ named \in SUBSET Nat /\ \A j \in named : j \in 1 .. Len(rust)
    BY <1>3, <1>4
  <1>6. FunctionNamed(rust, wanted.name) = IF named = {} THEN Nowhere ELSE Extent(rust, a)
    BY DEF FunctionNamed
  <1> HIDE DEF named
  <1>7. a \in named
    BY <1>5, LeastExists
  <1>8. a \in 1 .. Len(rust)
    BY <1>5, <1>7
  <1>9. FunctionNamed(rust, wanted.name) = [first |-> a, last |-> b]
    BY <1>5, <1>6 DEF Extent
  <1> HIDE DEF a
  <1>10. b \in a .. Len(rust)
    BY <1>2, <1>8, ClosingBraceIsInside
  <1> HIDE DEF b
  <1>11. [first |-> a, last |-> b] # Nowhere
    <2>1. a # 0
      BY <1>8
    <2>2. QED
      BY <2>1 DEF Nowhere
  <1>12. rust' = SubSeq(rust, 1, a - 1) \o fn \o SubSeq(rust, b + 1, Len(rust))
    <2> DEFINE e == FunctionNamed(rust, wanted.name)
    <2>1. Splice(rust, wanted.name, fn)
            = IF e = Nowhere THEN rust
              ELSE SubSeq(rust, 1, e.first - 1) \o fn \o SubSeq(rust, e.last + 1, Len(rust))
      BY DEF Splice
    <2>2. e # Nowhere /\ e.first = a /\ e.last = b
      BY <1>9, <1>11
    <2> HIDE DEF e
    <2>3. QED
      BY <1>1, <2>1, <2>2
  <1> DEFINE u == rust'
  <1>13. /\ IsASeq(u)
         /\ SubSeq(u, 1, a - 1) = SubSeq(rust, 1, a - 1)
         /\ \E k \in 0 .. Len(u) : SubSeq(u, k + 1, Len(u)) = SubSeq(rust, b + 1, Len(rust))
    <2>1. u = SubSeq(rust, 1, a - 1) \o fn \o SubSeq(rust, b + 1, Len(rust))
      BY <1>12
    <2> HIDE DEF u, a, b
    <2>2. IsASeq(rust) /\ IsASeq(fn)
      BY <1>2
    <2>3. Framed(u, rust, a, b)
      BY <1>8, <1>10, <2>1, <2>2, Replaced
    <2>4. QED
      BY <2>2, <2>3 DEF Framed
  <1>14. CASE a = i
    <2>1. wanted.at.first = a /\ wanted.at.last = b
      BY <1>3, <1>14 DEF Extent, b
    <2>2. QED
      BY <1>13, <2>1
  <1>15. CASE a # i
    <2>1. BeginsFn(rust[a]) /\ rust[a].name = wanted.name
      BY <1>7 DEF named
    <2>2. QED
      BY <1>3, <1>8, <1>13, <1>15, <2>1
  <1>16. QED
    BY <1>14, <1>15

LEMMA RepairStep ==
  ASSUME RepairInv, [RepairNext]_repairVars
  PROVE  RepairInv'
  <1>1. CASE AskContract
    BY <1>1, ContractKept
  <1>2. CASE NoContract
    BY <1>2 DEF NoContract, RepairInv
  <1>3. CASE Assemble
    <2>1. rust' = Assembled(contract, translated) /\ stage' = "compile"
          /\ UNCHANGED <<translated, contract, rule>>
      BY <1>3 DEF Assemble
    <2>2. IsASeq(rust')
      BY <2>1, AssembledIsASeq DEF RepairInv
    <2>3. QED
      BY <2>1, <2>2 DEF RepairInv
  <1>4. CASE Compile
    <2>1. UNCHANGED <<translated, contract, rust, rule>> /\ stage' # "asked"
      BY <1>4 DEF Compile, Done
    <2>2. QED
      BY <2>1 DEF RepairInv
  <1>5. CASE ApplyRule
    <2>1. /\ rust' = Rule(rule, rust, errors) /\ rule \in 1 .. RuleCount /\ rule' = rule + 1
          /\ stage' = "rules" /\ UNCHANGED <<translated, contract>>
      BY <1>5 DEF ApplyRule, RepairInv, RuleCount
    <2>2. IsASeq(rust')
      BY <2>1, RuleIsASeq DEF RepairInv
    <2>3. rule' \in Nat \ {0}
      BY <2>1 DEF RepairInv
    <2>4. QED
      BY <2>1, <2>2, <2>3 DEF RepairInv
  <1>6. CASE Recompile
    <2>1. UNCHANGED <<translated, contract, rust, rule>> /\ stage' # "asked"
      BY <1>6 DEF Recompile, Done
    <2>2. QED
      BY <2>1 DEF RepairInv
  <1>7. CASE AskFunction
    BY <1>7, AskedIsLocated
  <1>8. CASE Answer
    <2>1. UNCHANGED <<translated, contract, rule>> /\ stage' = "surgical"
      BY <1>8 DEF Answer
    <2>2. IsASeq(rust')
      BY <1>8, AnswerReplaces
    <2>3. QED
      BY <2>1, <2>2 DEF RepairInv
  <1>9. CASE AnswerFails
    <2>1. UNCHANGED <<translated, contract, rust, rule>> /\ stage' # "asked"
      BY <1>9 DEF AnswerFails
    <2>2. QED
      BY <2>1 DEF RepairInv
  <1>10. CASE FinishSurgical
    <2>1. UNCHANGED <<translated, contract, rust, rule>> /\ stage' # "asked"
      BY <1>10 DEF FinishSurgical, Done
    <2>2. QED
      BY <2>1 DEF RepairInv
  <1>11. CASE UNCHANGED repairVars
    BY <1>11 DEF repairVars, RepairInv, Located
  <1>12. QED
    BY <1>1, <1>2, <1>3, <1>4, <1>5, <1>6, <1>7, <1>8, <1>9, <1>10, <1>11 DEF RepairNext

\* Whatever the modules, the contract, the rules and the answers made of the text, a
\* surgical repair changes nothing of it outside the function it asked for, as long
\* as that is the only one of its name (hybrid_repair and splice_function).
THEOREM RepairsStayInside == RepairSpec => OthersUntouched
  <1>1. RepairInit => RepairInv
    BY RepairBegins
  <1>2. RepairInv /\ [RepairNext]_repairVars => RepairInv'
    BY RepairStep
  <1> DEFINE Inside ==
        stage = "asked" /\ stage' = "surgical" =>
          \/ \E i, j \in 1 .. Len(rust) : /\ BeginsFn(rust[i]) /\ BeginsFn(rust[j]) /\ i # j
                                          /\ rust[i].name = wanted.name /\ rust[j].name = wanted.name
          \/ /\ SubSeq(rust', 1, wanted.at.first - 1) = SubSeq(rust, 1, wanted.at.first - 1)
             /\ \E k \in 0 .. Len(rust') :
                  SubSeq(rust', k + 1, Len(rust')) = SubSeq(rust, wanted.at.last + 1, Len(rust))
  <1>3. RepairInv /\ [RepairNext]_repairVars => [Inside]_repairVars
    <2>1. SUFFICES ASSUME RepairInv, RepairNext, stage = "asked", stage' = "surgical" PROVE Inside
      OBVIOUS
    <2>2. Answer
      BY <2>1 DEF RepairNext, AskContract, NoContract, Assemble, Compile, ApplyRule, Recompile,
                  AskFunction, AnswerFails, FinishSurgical, Done
    <2>3. QED
      BY <2>1, <2>2, AnswerReplaces
  <1>4. QED
    BY <1>1, <1>2, <1>3, PTL DEF RepairSpec, OthersUntouched

=============================================================================
