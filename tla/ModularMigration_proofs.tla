----------------------- MODULE ModularMigration_proofs ------------------------
(***************************************************************************)
(* Proofs about ModularMigration, for any number of modules, every way to  *)
(* order them into waves, every set of results and every budget.           *)
(***************************************************************************)
EXTENDS ModularMigration, WarmStart, TLAPS, WellFoundedInduction

-----------------------------------------------------------------------------
(***************************************************************************)
(* Induction over the natural numbers, for a set of them.                  *)
(***************************************************************************)
Less == {p \in Nat \X Nat : p[1] < p[2]}

LEMMA LessIsWellFounded == IsWellFoundedOn(Less, Nat)
  BY NatLessThanWellFounded DEF OpToRel, Less

LEMMA SetInduction ==
  ASSUME NEW S, 0 \in S, \A n \in Nat : n \in S => n + 1 \in S
  PROVE  Nat \subseteq S
  <1> SUFFICES ASSUME Nat \ S # {} PROVE FALSE
    OBVIOUS
  <1>1. PICK n \in Nat \ S : \A k \in Nat \ S : ~(<<k, n>> \in Less)
    BY LessIsWellFounded, WFMin
  <1>2. n # 0 /\ n - 1 \in Nat
    BY <1>1
  <1>3. <<n - 1, n>> \in Less
    BY <1>2 DEF Less
  <1>4. n - 1 \in S
    BY <1>1, <1>2, <1>3
  <1>5. (n - 1) + 1 = n
    BY <1>2
  <1>6. QED
    BY <1>1, <1>2, <1>4, <1>5

-----------------------------------------------------------------------------
(***************************************************************************)
(* What Total computes: its partial sums exist, are natural numbers, and   *)
(* add up when amounts do.                                                 *)
(***************************************************************************)
\* The first n partial sums of the amounts.
Sums(amount, n, f) ==
  f = [k \in 0 .. n |-> IF k = 0 THEN 0 ELSE f[k - 1] + amount[k - 1]]

LEMMA SumsExist ==
  ASSUME NEW a \in [Modules -> Nat]
  PROVE  \E f \in [0 .. N -> Nat] : Sums(a, N, f)
  <1> DEFINE S == {n \in Nat : n <= N => \E f \in [0 .. n -> Nat] : Sums(a, n, f)}
  <1>1. 0 \in S
    <2> DEFINE f == [k \in 0 .. 0 |-> 0]
    <2>1. f \in [0 .. 0 -> Nat] /\ Sums(a, 0, f)
      BY DEF Sums
    <2>2. QED
      BY <2>1
  <1>2. ASSUME NEW n \in Nat, n \in S PROVE n + 1 \in S
    <2> SUFFICES ASSUME n + 1 <= N
                 PROVE  \E f \in [0 .. n + 1 -> Nat] : Sums(a, n + 1, f)
      OBVIOUS
    <2>1. n <= N /\ n \in Modules
      BY ModularAssumption DEF Modules
    <2>2. PICK f \in [0 .. n -> Nat] : Sums(a, n, f)
      BY <1>2, <2>1
    <2> DEFINE g == [k \in 0 .. n + 1 |-> IF k = n + 1 THEN f[n] + a[n] ELSE f[k]]
    <2>3. g \in [0 .. n + 1 -> Nat]
      BY <2>1, <2>2
    <2>4. ASSUME NEW k \in 0 .. n + 1
          PROVE  g[k] = IF k = 0 THEN 0 ELSE g[k - 1] + a[k - 1]
      <3>1. CASE k = n + 1
        BY <3>1
      <3>2. CASE k # n + 1
        <4>1. k \in 0 .. n /\ g[k] = f[k]
          BY <3>2
        <4>2. k # 0 => k - 1 \in 0 .. n /\ g[k - 1] = f[k - 1]
          BY <4>1
        <4>3. f[k] = IF k = 0 THEN 0 ELSE f[k - 1] + a[k - 1]
          BY <2>2, <4>1 DEF Sums
        <4>4. QED
          BY <4>1, <4>2, <4>3
      <3>3. QED
        BY <3>1, <3>2
    <2>5. g = [k \in 0 .. n + 1 |-> IF k = 0 THEN 0 ELSE g[k - 1] + a[k - 1]]
      BY <2>4, Zenon
    <2>6. QED
      BY <2>3, <2>5 DEF Sums
  <1> HIDE DEF S
  <1>3. Nat \subseteq S
    BY <1>1, <1>2, SetInduction
  <1>4. N \in S
    BY <1>3, ModularAssumption
  <1>5. QED
    BY <1>4, ModularAssumption DEF S

\* The recursive function inside Total has partial sums, and Total is the last.
LEMMA TotalIsASum ==
  ASSUME NEW a \in [Modules -> Nat]
  PROVE  \E f : Sums(a, N, f) /\ Total(a) = f[N]
  <1> DEFINE sum == CHOOSE f : f = [k \in 0 .. N |-> IF k = 0 THEN 0 ELSE f[k - 1] + a[k - 1]]
  <1>1. \E f : f = [k \in 0 .. N |-> IF k = 0 THEN 0 ELSE f[k - 1] + a[k - 1]]
    BY SumsExist DEF Sums
  <1>2. sum = [k \in 0 .. N |-> IF k = 0 THEN 0 ELSE sum[k - 1] + a[k - 1]]
    BY <1>1, Zenon
  <1>3. Total(a) = sum[N]
    BY DEF Total
  <1>4. QED
    BY <1>2, <1>3 DEF Sums

LEMMA SumsSteps ==
  ASSUME NEW a \in [Modules -> Nat], NEW f, Sums(a, N, f)
  PROVE  f[0] = 0 /\ \A k \in Modules : f[k + 1] = f[k] + a[k]
  <1>1. \A k \in 0 .. N : f[k] = IF k = 0 THEN 0 ELSE f[k - 1] + a[k - 1]
    BY DEF Sums
  <1>2. ASSUME NEW k \in Modules PROVE f[k + 1] = f[k] + a[k]
    <2>1. k + 1 \in 0 .. N /\ k + 1 # 0 /\ (k + 1) - 1 = k
      BY ModularAssumption DEF Modules
    <2>2. QED
      BY <1>1, <2>1
  <1>3. 0 \in 0 .. N
    BY ModularAssumption
  <1>4. QED
    BY <1>1, <1>2, <1>3

LEMMA SumsType ==
  ASSUME NEW a \in [Modules -> Nat], NEW f, Sums(a, N, f)
  PROVE  \A k \in 0 .. N : f[k] \in Nat
  <1> DEFINE S == {n \in Nat : n <= N => f[n] \in Nat}
  <1>1. 0 \in S
    BY SumsSteps
  <1>2. ASSUME NEW n \in Nat, n \in S PROVE n + 1 \in S
    <2> SUFFICES ASSUME n + 1 <= N PROVE f[n + 1] \in Nat
      OBVIOUS
    <2>1. n \in Modules /\ f[n] \in Nat
      BY <1>2, ModularAssumption DEF Modules
    <2>2. QED
      BY <2>1, SumsSteps
  <1> HIDE DEF S
  <1>3. Nat \subseteq S
    BY <1>1, <1>2, SetInduction
  <1>4. QED
    BY <1>3, ModularAssumption DEF S

\* Amounts that add up module by module add up in total.
LEMMA SumsAdd ==
  ASSUME NEW a \in [Modules -> Nat], NEW b \in [Modules -> Nat], NEW c \in [Modules -> Nat],
         \A m \in Modules : c[m] = a[m] + b[m],
         NEW f, NEW g, NEW h, Sums(a, N, f), Sums(b, N, g), Sums(c, N, h)
  PROVE  h[N] = f[N] + g[N]
  <1> DEFINE S == {n \in Nat : n <= N => h[n] = f[n] + g[n]}
  <1>1. 0 \in S
    BY SumsSteps
  <1>2. ASSUME NEW n \in Nat, n \in S PROVE n + 1 \in S
    <2> SUFFICES ASSUME n + 1 <= N PROVE h[n + 1] = f[n + 1] + g[n + 1]
      OBVIOUS
    <2>1. n \in Modules /\ n \in 0 .. N /\ h[n] = f[n] + g[n]
      BY <1>2, ModularAssumption DEF Modules
    <2>2. h[n + 1] = h[n] + c[n] /\ f[n + 1] = f[n] + a[n] /\ g[n + 1] = g[n] + b[n]
      BY <2>1, SumsSteps
    <2>3. f[n] \in Nat /\ g[n] \in Nat /\ a[n] \in Nat /\ b[n] \in Nat /\ c[n] = a[n] + b[n]
      BY <2>1, SumsType
    <2>4. QED
      BY <2>1, <2>2, <2>3
  <1> HIDE DEF S
  <1>3. N \in S
    BY <1>1, <1>2, SetInduction, ModularAssumption
  <1>4. QED
    BY <1>3, ModularAssumption DEF S

LEMMA TotalType ==
  ASSUME NEW a \in [Modules -> Nat]
  PROVE  Total(a) \in Nat
  <1>1. PICK f : Sums(a, N, f) /\ Total(a) = f[N]
    BY TotalIsASum
  <1>2. N \in 0 .. N
    BY ModularAssumption
  <1>3. QED
    BY <1>1, <1>2, SumsType

LEMMA TotalAdds ==
  ASSUME NEW a \in [Modules -> Nat], NEW b \in [Modules -> Nat], NEW c \in [Modules -> Nat],
         \A m \in Modules : c[m] = a[m] + b[m]
  PROVE  Total(c) = Total(a) + Total(b)
  <1>1. PICK f : Sums(a, N, f) /\ Total(a) = f[N]
    BY TotalIsASum
  <1>2. PICK g : Sums(b, N, g) /\ Total(b) = g[N]
    BY TotalIsASum
  <1>3. PICK h : Sums(c, N, h) /\ Total(c) = h[N]
    BY TotalIsASum
  <1>4. QED
    BY <1>1, <1>2, <1>3, SumsAdd

LEMMA TotalOfNothing ==
  ASSUME NEW a \in [Modules -> Nat], \A m \in Modules : a[m] = 0
  PROVE  Total(a) = 0
  <1>1. Total(a) = Total(a) + Total(a)
    BY TotalAdds
  <1>2. QED
    BY <1>1, TotalType

-----------------------------------------------------------------------------
(***************************************************************************)
(* The budget.                                                             *)
(***************************************************************************)
LEMMA LimitType == Limit \in Nat /\ Limit > 0
  BY ModularAssumption, BudgetAssumption DEF Limit, AdaptiveBudget

\* A percentage that is rounded down compares with a whole one as it should.
LEMMA Percentage ==
  ASSUME NEW c \in Nat, NEW b \in Nat, b > 0, NEW p \in Nat
  PROVE  (c \div b < p) <=> (c < p * b)
  <1>1. c = b * (c \div b) + (c % b) /\ c % b \in 0 .. b - 1 /\ c \div b \in Nat
    OBVIOUS
  <1>2. CASE c \div b < p
    <2>1. c \div b + 1 <= p
      BY <1>1, <1>2
    <2>2. b * (c \div b + 1) <= b * p
      BY <1>1, <2>1
    <2>3. QED
      BY <1>1, <1>2, <2>2
  <1>3. CASE ~(c \div b < p)
    <2>1. b * p <= b * (c \div b)
      BY <1>1, <1>3
    <2>2. QED
      BY <1>1, <1>3, <2>1
  <1>4. QED
    BY <1>2, <1>3

\* budget_phase, of calls below and above 95% and 80% of the limit.
LEMMA PhaseFacts ==
  ASSUME NEW calls \in Nat
  PROVE  /\ BudgetPhase(Limit, calls) \in {"AssembleNow", "SaveAndExit"}
              <=> calls * 100 >= 95 * Limit
         /\ BudgetPhase(Limit, calls) \in {"AssembleNow", "SaveAndExit", "SkipRepairs"}
              <=> calls * 100 >= 80 * Limit
         /\ BudgetPhase(Limit, calls) \in {"AssembleNow", "SaveAndExit", "SkipRepairs", "Normal"}
  <1> DEFINE pct == (calls * 100) \div Limit
  <1>1. Limit # None /\ Limit # 0
    BY LimitType, BudgetAssumption
  <1>2. calls * 100 \in Nat /\ pct \in Nat
    BY LimitType
  <1>3. (pct < 95 <=> calls * 100 < 95 * Limit) /\ (pct < 80 <=> calls * 100 < 80 * Limit)
    BY <1>2, LimitType, Percentage
  <1>4. BudgetPhase(Limit, calls) =
          IF pct >= 100 THEN "SaveAndExit" ELSE IF pct >= 95 THEN "AssembleNow"
          ELSE IF pct >= 80 THEN "SkipRepairs" ELSE "Normal"
    BY <1>1 DEF BudgetPhase
  <1> HIDE DEF pct
  <1>5. QED
    BY <1>2, <1>3, <1>4, LimitType

-----------------------------------------------------------------------------
(***************************************************************************)
(* Waves and results.                                                      *)
(***************************************************************************)
\* The waves are disjoint and together all modules.
LEMMA WaveFacts ==
  ASSUME NEW p \in OrderedPartitions
  PROVE  /\ Len(p) \in Nat /\ DOMAIN p = 1 .. Len(p) /\ Len(p) >= 1
         /\ \A i \in DOMAIN p : p[i] \subseteq Modules
         /\ \A i, j \in DOMAIN p : i # j => p[i] \intersect p[j] = {}
         /\ \A m \in Modules : \E i \in DOMAIN p : m \in p[i]
  <1>1. PICK k \in 1 .. N : p \in [1 .. k -> (SUBSET Modules) \ {{}}]
    BY DEF OrderedPartitions
  <1>2. k \in Nat /\ k >= 1
    BY ModularAssumption
  <1>3. Len(p) = k /\ DOMAIN p = 1 .. k
    BY <1>1, <1>2
  <1>4. \A i \in DOMAIN p : p[i] \subseteq Modules
    BY <1>1, <1>3
  <1>5. /\ UNION {p[i] : i \in DOMAIN p} = Modules
        /\ \A i, j \in DOMAIN p : i # j => p[i] \intersect p[j] = {}
    BY DEF OrderedPartitions
  <1>6. QED
    BY <1>2, <1>3, <1>4, <1>5

LEMMA ResultFacts ==
  ASSUME NEW r \in Results
  PROVE  /\ r.kind \in {"output", "none", "tokens", "error"}
         /\ r.calls \in Nat /\ r.tokens \in Nat /\ r.validated \in BOOLEAN
         /\ r.validated => r.kind = "output"
         /\ r # None
  BY ModularAssumption

\* Of modules that have ended, the calls and tokens are numbers.
LEMMA AmountType ==
  ASSUME TypeOK, NEW S, \A m \in S : m \in Modules /\ results[m] # None
  PROVE  /\ CallsOf(S) \in [Modules -> Nat] /\ TokensOf(S) \in [Modules -> Nat]
         /\ Total(CallsOf(S)) \in Nat /\ Total(TokensOf(S)) \in Nat
  <1>1. ASSUME NEW m \in S PROVE results[m] \in Results
    BY DEF TypeOK
  <1>2. CallsOf(S) \in [Modules -> Nat]
    BY <1>1, ResultFacts DEF CallsOf
  <1>3. TokensOf(S) \in [Modules -> Nat]
    BY <1>1, ResultFacts DEF TokensOf
  <1>4. QED
    BY <1>2, <1>3, TotalType

\* The calls of two disjoint groups of modules add up.
LEMMA CallsAdd ==
  ASSUME TypeOK, NEW S, NEW T, NEW U,
         \A m \in S \union T : m \in Modules /\ results[m] # None,
         S \intersect T = {}, U = S \union T
  PROVE  Total(CallsOf(U)) = Total(CallsOf(S)) + Total(CallsOf(T))
  <1>1. /\ CallsOf(S) \in [Modules -> Nat] /\ CallsOf(T) \in [Modules -> Nat]
        /\ CallsOf(U) \in [Modules -> Nat]
    BY AmountType
  <1>2. ASSUME NEW m \in Modules PROVE CallsOf(U)[m] = CallsOf(S)[m] + CallsOf(T)[m]
    <2>1. CASE m \in S
      <3>1. /\ CallsOf(U)[m] = results[m].calls /\ CallsOf(S)[m] = results[m].calls
            /\ CallsOf(T)[m] = 0
        BY <2>1 DEF CallsOf
      <3>2. QED
        BY <1>1, <3>1
    <2>2. CASE m \in T
      <3>1. /\ CallsOf(U)[m] = results[m].calls /\ CallsOf(T)[m] = results[m].calls
            /\ CallsOf(S)[m] = 0
        BY <2>2 DEF CallsOf
      <3>2. QED
        BY <1>1, <3>1
    <2>3. CASE m \notin U
      BY <2>3 DEF CallsOf
    <2>4. QED
      BY <2>1, <2>2, <2>3
  <1>3. QED
    BY <1>1, <1>2, TotalAdds

-----------------------------------------------------------------------------
(***************************************************************************)
(* The inductive invariant.                                                *)
(***************************************************************************)
LEMMA InitIInv == Init => IInv
  <1> SUFFICES ASSUME Init PROVE IInv
    OBVIOUS
  <1>1. w = 1 /\ w \in DOMAIN waves
    BY WaveFacts DEF Init
  <1>2. TypeOK
    <2>1. results \in [Modules -> Results \union {None}] /\ outputs \subseteq Modules
      BY DEF Init
    <2>2. metered \in [calls: Nat, tokens: Nat]
      BY DEF Init
    <2>3. QED
      BY <1>1, <2>1, <2>2 DEF Init, TypeOK
  <1>3. Merged = {}
    <2>1. pc = "running" /\ 1 .. w - 1 = {}
      BY <1>1 DEF Init
    <2>2. QED
      BY <2>1 DEF Merged
  <1>4. metered.calls = Total(CallsOf({}))
    <2>1. CallsOf({}) \in [Modules -> Nat] /\ \A m \in Modules : CallsOf({})[m] = 0
      BY DEF CallsOf
    <2>2. QED
      BY <2>1, TotalOfNothing DEF Init
  <1>5. {m \in Merged : results[m].kind # "error"} = {} /\ {m \in Merged : results[m].kind = "output"} = {}
    BY <1>3
  <1>6. MergeInv
    BY <1>3, <1>4, <1>5 DEF Init, MergeInv
  <1>7. QED
    BY <1>2, <1>6 DEF Init, IInv

\* A module of the running wave is in no wave before.
LEMMA RunningIsNotMerged ==
  ASSUME TypeOK, pc = "running", NEW m \in waves[w]
  PROVE  m \notin Merged
  <1> SUFFICES ASSUME m \in Merged PROVE FALSE
    OBVIOUS
  <1>1. PICK i \in 1 .. w - 1 : m \in waves[i]
    BY DEF Merged
  <1>2. DOMAIN waves = 1 .. Len(waves) /\ w \in DOMAIN waves /\ Len(waves) \in Nat
    BY WaveFacts DEF TypeOK
  <1>3. i \in DOMAIN waves /\ i # w
    BY <1>2
  <1>4. QED
    BY <1>1, <1>2, <1>3, WaveFacts DEF TypeOK

LEMMA FinishKeepsIInv ==
  ASSUME IInv, NEW m \in Modules, NEW r \in Results, Finish(m, r)
  PROVE  IInv'
  <1>1. /\ pc = "running" /\ m \in waves[w] /\ results' = [results EXCEPT ![m] = r]
        /\ UNCHANGED <<pc, waves, w, repairs, outputs, metered, allValidated>>
    BY DEF Finish
  <1>2. TypeOK'
    BY <1>1 DEF IInv, TypeOK
  <1>3. TypeOK /\ MergeInv /\ results \in [Modules -> Results \union {None}] /\ w \in Nat /\ w >= 1
    BY <1>1, WaveFacts DEF IInv, TypeOK
  <1>4. Merged' = Merged /\ Started' = Started /\ m \in Started /\ Merged \subseteq Modules
    BY <1>1, <1>3 DEF Merged, Started
  <1>5. m \notin Merged
    BY <1>1, <1>3, RunningIsNotMerged
  <1>6. \A n \in Modules : n # m => results'[n] = results[n]
    BY <1>1, <1>3
  <1>7. \A n \in Merged : results'[n] = results[n]
    BY <1>4, <1>5, <1>6
  <1> DEFINE S == {n \in Merged : results[n].kind # "error"}
  <1>8. S' = S
    BY <1>4, <1>7
  <1>9. CallsOf(S)' = CallsOf(S)
    <2>1. \A n \in S : results'[n] = results[n]
      BY <1>7
    <2>2. CallsOf(S)' = [n \in Modules |-> IF n \in S THEN results'[n].calls ELSE 0]
      BY <1>8 DEF CallsOf
    <2> HIDE DEF S
    <2>3. QED
      BY <2>1, <2>2 DEF CallsOf
  <1>10. metered'.calls = Total(CallsOf(S)')
    BY <1>1, <1>3, <1>9 DEF MergeInv
  <1>11. MergeInv'
    <2>1. \A n \in Merged' : results'[n] # None /\ results'[n].kind # "tokens"
      BY <1>3, <1>4, <1>7 DEF MergeInv
    <2>2. outputs' = {n \in Merged' : results'[n].kind = "output"}
      BY <1>1, <1>3, <1>4, <1>7 DEF MergeInv
    <2>3. allValidated' => \A n \in Merged' : results'[n].validated
      BY <1>1, <1>3, <1>4, <1>7 DEF MergeInv
    <2>4. \A n \in Modules \ Started' : results'[n] = None
      BY <1>3, <1>4, <1>6 DEF MergeInv
    <2>5. QED
      BY <1>10, <2>1, <2>2, <2>3, <2>4 DEF MergeInv
  <1>12. QED
    BY <1>1, <1>2, <1>11 DEF IInv

\* What the running wave gave, when it has ended without a fatal error.
LEMMA WaveResults ==
  ASSUME IInv, WaveEnded, Ended({"tokens"}) = {}
  PROVE  /\ TypeOK /\ MergeInv /\ pc = "running"
         /\ waves[w] \subseteq Modules
         /\ \A m \in waves[w] : results[m] \in Results /\ results[m].kind # "tokens"
         /\ Ended({"output", "none"}) = {m \in waves[w] : results[m].kind # "error"}
         /\ Metered \in [calls: Nat, tokens: Nat]
  <1>1. TypeOK /\ MergeInv /\ pc = "running" /\ waves[w] \subseteq Modules
    BY WaveFacts DEF IInv, TypeOK, WaveEnded
  <1>2. \A m \in waves[w] : results[m] \in Results /\ results[m] # None
    BY <1>1 DEF WaveEnded, TypeOK
  <1>3. \A m \in waves[w] : results[m].kind # "tokens"
    BY DEF Ended
  <1>4. Ended({"output", "none"}) = {m \in waves[w] : results[m].kind # "error"}
    BY <1>2, <1>3, ResultFacts DEF Ended
  <1>5. /\ Total(CallsOf(Ended({"output", "none"}))) \in Nat
        /\ Total(TokensOf(Ended({"output", "none"}))) \in Nat
    BY <1>1, <1>2, <1>4, AmountType
  <1>6. Metered \in [calls: Nat, tokens: Nat]
    BY <1>1, <1>5 DEF Metered, TypeOK
  <1>7. QED
    BY <1>1, <1>2, <1>3, <1>4, <1>6

\* The next step of a run after a wave.
LEMMA MergeCases ==
  ASSUME IInv, MergeWave
  PROVE  /\ metered' = Metered /\ metered' \in [calls: Nat, tokens: Nat]
         /\ UNCHANGED <<waves, results>> /\ repairs' \in BOOLEAN
         /\ \/ pc' = "aborted" /\ w' = w
            \/ /\ pc' = "assemble" /\ w' = w
               /\ \/ metered'.calls * 100 >= 95 * Limit
                  \/ w = Len(waves) /\ WithinTokens(metered'.tokens)
            \/ /\ pc' = "running" /\ w' = w + 1 /\ w # Len(waves)
               /\ ~(metered'.calls * 100 >= 95 * Limit)
               /\ metered'.calls * 100 >= 80 * Limit => ~repairs'
  <1>1. Metered \in [calls: Nat, tokens: Nat] /\ metered' = Metered /\ UNCHANGED <<waves, results>>
    BY WaveResults DEF MergeWave
  <1>2. /\ Phase \in {"AssembleNow", "SaveAndExit"} <=> metered'.calls * 100 >= 95 * Limit
        /\ Phase \in {"AssembleNow", "SaveAndExit", "SkipRepairs"}
             <=> metered'.calls * 100 >= 80 * Limit
    <2>1. Metered.calls \in Nat
      BY <1>1
    <2>2. QED
      BY <1>1, <2>1, PhaseFacts DEF Phase
  <1>3. Effective!WithinBudget(metered'.calls, metered'.tokens) => WithinTokens(metered'.tokens)
    BY DEF Effective!WithinBudget, Effective!WithinTokens, WithinTokens
  <1>4. CASE Phase \in {"AssembleNow", "SaveAndExit"} /\ pc' = "assemble" /\ UNCHANGED <<w, repairs>>
    BY <1>1, <1>2, <1>4 DEF IInv, TypeOK
  <1>5. CASE /\ Phase \in {"SkipRepairs", "Normal"}
             /\ repairs' = (repairs /\ Phase # "SkipRepairs")
             /\ IF ~Effective!WithinBudget(metered'.calls, metered'.tokens)
                THEN pc' = "aborted" /\ w' = w
                ELSE IF w = Len(waves) THEN pc' = "assemble" /\ w' = w
                ELSE pc' = "running" /\ w' = w + 1
    <2>1. repairs' \in BOOLEAN
      BY <1>5 DEF IInv, TypeOK
    <2>2. ~(metered'.calls * 100 >= 95 * Limit)
      BY <1>2, <1>5
    <2>3. metered'.calls * 100 >= 80 * Limit => ~repairs'
      BY <1>2, <1>5
    <2>4. CASE ~Effective!WithinBudget(metered'.calls, metered'.tokens)
      BY <1>1, <1>5, <2>1, <2>4
    <2>5. CASE Effective!WithinBudget(metered'.calls, metered'.tokens) /\ w = Len(waves)
      BY <1>1, <1>3, <1>5, <2>1, <2>5
    <2>6. CASE Effective!WithinBudget(metered'.calls, metered'.tokens) /\ w # Len(waves)
      BY <1>1, <1>5, <2>1, <2>2, <2>3, <2>6
    <2>7. QED
      BY <2>4, <2>5, <2>6
  <1>6. QED
    BY <1>4, <1>5 DEF MergeWave

LEMMA MergeWaveKeepsIInv ==
  ASSUME IInv, MergeWave
  PROVE  IInv'
  <1>1. /\ WaveEnded /\ Ended({"tokens"}) = {} /\ outputs' = Outputs /\ allValidated' = Validated
        /\ UNCHANGED <<waves, results>>
    BY DEF MergeWave
  <1>2. /\ TypeOK /\ MergeInv /\ pc = "running" /\ waves[w] \subseteq Modules
        /\ \A m \in waves[w] : results[m] \in Results /\ results[m].kind # "tokens"
        /\ Ended({"output", "none"}) = {m \in waves[w] : results[m].kind # "error"}
    BY <1>1, WaveResults
  <1>3. /\ metered' = Metered /\ metered' \in [calls: Nat, tokens: Nat] /\ repairs' \in BOOLEAN
        /\ \/ pc' = "aborted" /\ w' = w
           \/ /\ pc' = "assemble" /\ w' = w
              /\ \/ metered'.calls * 100 >= 95 * Limit
                 \/ w = Len(waves) /\ WithinTokens(metered'.tokens)
           \/ pc' = "running" /\ w' = w + 1 /\ w # Len(waves)
    BY MergeCases
  <1>4. DOMAIN waves = 1 .. Len(waves) /\ Len(waves) \in Nat /\ w \in 1 .. Len(waves)
    BY <1>2, WaveFacts DEF TypeOK
  <1>5. /\ w \in Nat /\ w' \in 1 .. Len(waves) /\ w <= w'
        /\ pc' = "running" => w' - 1 = w
        /\ pc' = "assemble" => w' = w
    <2>1. /\ w' = w \/ (w' = w + 1 /\ w # Len(waves))
          /\ pc' = "running" => w' = w + 1
          /\ pc' = "assemble" => w' = w
      BY <1>3
    <2>2. w \in Nat /\ w \in 1 .. Len(waves) /\ Len(waves) \in Nat
      BY <1>4
    <2>3. CASE w' = w
      BY <2>1, <2>2, <2>3
    <2>4. CASE w' = w + 1 /\ w # Len(waves)
      BY <2>1, <2>2, <2>4
    <2>5. QED
      BY <2>1, <2>3, <2>4
  <1>6. TypeOK'
    <2>1. w' \in DOMAIN waves'
      BY <1>1, <1>4, <1>5
    <2>2. outputs' \subseteq Modules
      BY <1>1, <1>2 DEF Outputs, Ended, TypeOK
    <2>3. allValidated' \in BOOLEAN
      BY <1>1 DEF Validated
    <2>4. pc' \in {"running", "assemble", "success", "fallback", "aborted"}
      BY <1>3
    <2>5. QED
      BY <1>1, <1>2, <1>3, <2>1, <2>2, <2>3, <2>4 DEF TypeOK
  <1>7. CASE pc' = "aborted"
    BY <1>6, <1>7 DEF IInv
  <1>8. CASE pc' \in {"assemble", "running"}
    <2>1. Merged' = Merged \union waves[w]
      <3>1. (IF pc' = "running" THEN w' - 1 ELSE w') = w
        BY <1>8, <1>5
      <3>2. Merged' = {m \in Modules : \E i \in 1 .. w : m \in waves[i]}
        BY <1>1, <3>1 DEF Merged
      <3>3. Merged = {m \in Modules : \E i \in 1 .. w - 1 : m \in waves[i]}
        BY <1>2 DEF Merged
      <3>4. \A i : i \in 1 .. w <=> (i \in 1 .. w - 1 \/ i = w)
        BY <1>4
      <3>5. QED
        BY <1>2, <3>2, <3>3, <3>4
    <2> DEFINE S == {m \in Merged : results[m].kind # "error"}
               T == {m \in waves[w] : results[m].kind # "error"}
    <2>2. metered'.calls = Total(CallsOf(S \union T))
      <3>1. \A m \in S \union T : m \in Modules /\ results[m] # None
        BY <1>2, ResultFacts DEF MergeInv, Merged
      <3>2. S \intersect T = {}
        BY <1>2, RunningIsNotMerged
      <3>3. metered'.calls = Total(CallsOf(S)) + Total(CallsOf(T))
        BY <1>2, <1>3 DEF Metered, MergeInv
      <3> HIDE DEF S, T
      <3>4. QED
        BY <1>2, <3>1, <3>2, <3>3, CallsAdd
    <2>3. {m \in Merged' : results'[m].kind # "error"} = S \union T
      BY <1>1, <2>1
    <2>4. CallsOf({m \in Merged : results[m].kind # "error"})' = CallsOf(S \union T)
      <3>1. CallsOf({m \in Merged : results[m].kind # "error"})' =
              [m \in Modules |-> IF m \in {n \in Merged' : results'[n].kind # "error"}
                                 THEN results'[m].calls ELSE 0]
        BY DEF CallsOf
      <3> HIDE DEF S, T
      <3>2. QED
        BY <1>1, <2>3, <3>1 DEF CallsOf
    <2>5. \A m \in Merged' : results'[m] # None /\ results'[m].kind # "tokens"
      BY <1>1, <1>2, <2>1, ResultFacts DEF MergeInv
    <2>6. outputs' = {m \in Merged' : results'[m].kind = "output"}
      BY <1>1, <1>2, <2>1 DEF MergeInv, Outputs, Ended
    <2>7. allValidated' => \A m \in Merged' : results'[m].validated
      BY <1>1, <1>2, <2>1 DEF MergeInv, Validated
    <2>8. \A m \in Modules \ Started' : results'[m] = None
      <3>1. Started \subseteq Started'
        <4>1. 1 .. w \subseteq 1 .. w'
          BY <1>5
        <4>2. QED
          BY <1>1, <4>1 DEF Started
      <3>2. QED
        BY <1>1, <1>2, <3>1 DEF MergeInv
    <2>9. MergeInv'
      BY <2>2, <2>4, <2>5, <2>6, <2>7, <2>8 DEF MergeInv
    <2>10. pc' = "assemble" => AssemblyInv'
      BY <1>1, <1>3 DEF AssemblyInv
    <2>11. QED
      BY <1>6, <1>8, <2>9, <2>10 DEF IInv
  <1>9. QED
    BY <1>3, <1>7, <1>8

\* A run that fails, or stays where it is.
LEMMA EndKeepsIInv ==
  ASSUME IInv, UNCHANGED <<waves, w, repairs, results, outputs, metered, allValidated>>,
         \/ pc' = "aborted" \/ pc' = pc
         \/ pc = "assemble" /\ pc' \in {"fallback", "success"}
  PROVE  IInv'
  <1>1. TypeOK'
    BY DEF IInv, TypeOK
  <1>2. CASE pc' = "aborted"
    BY <1>1, <1>2 DEF IInv
  <1>3. CASE pc' = pc
    <2>1. Merged' = Merged /\ Started' = Started
      BY <1>3 DEF Merged, Started
    <2>2. MergeInv' <=> MergeInv
      BY <2>1 DEF MergeInv, CallsOf
    <2>3. AssemblyInv' <=> AssemblyInv
      BY DEF AssemblyInv
    <2>4. QED
      BY <1>1, <1>3, <2>2, <2>3 DEF IInv
  <1>4. CASE pc = "assemble" /\ pc' \in {"fallback", "success"}
    <2>1. Merged' = Merged /\ Started' = Started
      BY <1>4 DEF Merged, Started
    <2>2. MergeInv' <=> MergeInv
      BY <2>1 DEF MergeInv, CallsOf
    <2>3. AssemblyInv' <=> AssemblyInv
      BY DEF AssemblyInv
    <2>4. QED
      BY <1>1, <1>4, <2>2, <2>3 DEF IInv
  <1>5. QED
    BY <1>2, <1>3, <1>4

LEMMA NextKeepsIInv == IInv /\ [Next]_vars => IInv'
  <1> SUFFICES ASSUME IInv, [Next]_vars PROVE IInv'
    OBVIOUS
  <1>1. CASE \E m \in Modules, r \in Results : Finish(m, r)
    BY <1>1, FinishKeepsIInv
  <1>2. CASE WaveFails
    BY <1>2, EndKeepsIInv DEF WaveFails
  <1>3. CASE MergeWave
    BY <1>3, MergeWaveKeepsIInv
  <1>4. CASE Assemble
    BY <1>4, EndKeepsIInv DEF Assemble
  <1>5. CASE SetupFails
    BY <1>5, EndKeepsIInv DEF SetupFails
  <1>6. CASE ToolFails
    BY <1>6, EndKeepsIInv DEF ToolFails
  <1>7. CASE UNCHANGED vars
    BY <1>7, EndKeepsIInv DEF vars
  <1>8. QED
    BY <1>1, <1>2, <1>3, <1>4, <1>5, <1>6, <1>7 DEF Next, Finished

-----------------------------------------------------------------------------
(***************************************************************************)
(* What the invariant says of a run that is over.                          *)
(***************************************************************************)
LEMMA MissingExplained == IInv => MissingModulesExplained
  <1> SUFFICES ASSUME IInv, pc = "success", NEW m \in Modules \ outputs
               PROVE  \/ results[m] # None /\ results[m].kind \in {"none", "error"}
                      \/ results[m] = None /\ metered.calls * 100 >= 95 * Limit
    BY DEF MissingModulesExplained
  <1>1. TypeOK /\ MergeInv /\ AssemblyInv /\ Merged = Started
    BY DEF IInv, Merged, Started
  <1>2. CASE m \in Merged
    <2>1. results[m] # None /\ results[m] \in Results
      BY <1>1, <1>2 DEF MergeInv, TypeOK
    <2>2. results[m].kind \notin {"tokens", "output"}
      BY <1>1, <1>2 DEF MergeInv
    <2>3. QED
      BY <2>1, <2>2, ResultFacts
  <1>3. CASE m \notin Merged
    <2>1. results[m] = None
      BY <1>1, <1>3 DEF MergeInv
    <2>2. w # Len(waves)
      <3>1. PICK i \in DOMAIN waves : m \in waves[i]
        BY <1>1, WaveFacts DEF TypeOK
      <3>2. i \notin 1 .. w /\ DOMAIN waves = 1 .. Len(waves)
        BY <1>1, <1>3, <3>1, WaveFacts DEF Started, TypeOK
      <3>3. QED
        BY <3>1, <3>2
    <2>3. QED
      BY <1>1, <2>1, <2>2 DEF AssemblyInv
  <1>4. QED
    BY <1>2, <1>3

LEMMA ValidatedIsTrue == IInv => AllValidatedIsTrue
  <1> SUFFICES ASSUME IInv, pc = "success", allValidated, NEW m \in Started
               PROVE  results[m].kind = "output" /\ results[m].validated
    BY DEF AllValidatedIsTrue
  <1>1. TypeOK /\ MergeInv /\ m \in Merged /\ m \in Modules
    BY DEF IInv, Merged, Started
  <1>2. results[m] \in Results /\ results[m].validated
    BY <1>1 DEF MergeInv, TypeOK
  <1>3. QED
    BY <1>2, ResultFacts

LEMMA CallsAreMetered == IInv => CallsMetered
  <1> SUFFICES ASSUME IInv, pc \in {"assemble", "success", "fallback"}
               PROVE  metered.calls =
                        Total(CallsOf({m \in Modules : results[m] # None /\ results[m].kind # "error"}))
    BY DEF CallsMetered
  <1>1. MergeInv /\ Merged = Started /\ Merged \subseteq Modules
    BY DEF IInv, Merged, Started
  <1>2. {m \in Modules : results[m] # None /\ results[m].kind # "error"} =
          {m \in Merged : results[m].kind # "error"}
    BY <1>1 DEF MergeInv
  <1>3. QED
    BY <1>1, <1>2 DEF MergeInv

\* A wave starts only when the merged calls allow it.
LEMMA WaveStartsInBudget ==
  ASSUME IInv, [Next]_vars
  PROVE  w' # w => /\ metered'.calls * 100 < 95 * Limit
                   /\ metered'.calls * 100 >= 80 * Limit => ~repairs'
  <1> SUFFICES ASSUME w' # w
               PROVE  /\ metered'.calls * 100 < 95 * Limit
                      /\ metered'.calls * 100 >= 80 * Limit => ~repairs'
    OBVIOUS
  <1>1. MergeWave
    BY DEF Next, Finish, WaveFails, Assemble, SetupFails, ToolFails, Finished, vars
  <1>2. /\ metered' \in [calls: Nat, tokens: Nat]
        /\ ~(metered'.calls * 100 >= 95 * Limit)
        /\ metered'.calls * 100 >= 80 * Limit => ~repairs'
    BY <1>1, MergeCases
  <1>3. metered'.calls * 100 \in Nat /\ 95 * Limit \in Nat
    BY <1>2, LimitType
  <1>4. QED
    BY <1>2, <1>3

-----------------------------------------------------------------------------
(***************************************************************************)
(* The theorems.                                                           *)
(***************************************************************************)
\* The inductive invariant holds: what the loop of migrate_file_modular has taken
\* over after each wave is what the modules merged so far gave.
THEOREM Invariance == Spec => []IInv
  <1>1. Init => IInv
    BY InitIInv
  <1>2. IInv /\ [Next]_vars => IInv'
    BY NextKeepsIInv
  <1>3. QED
    BY <1>1, <1>2, PTL DEF Spec

\* The variables of migrate_file_modular keep their types.
THEOREM TypeCorrect == Spec => []TypeOK
  <1>1. IInv => TypeOK
    BY DEF IInv
  <1>2. QED
    BY <1>1, Invariance, PTL

\* For any number of modules in any waves: a module is missing from the result only
\* because it failed or because the calls ran out, a run that says validated has
\* lost none that it ran, and the calls it reports are those of its modules.
THEOREM RunIsAccountedFor == Spec => []RunAccountedFor
  <1>1. IInv => RunAccountedFor
    BY MissingExplained, ValidatedIsTrue, CallsAreMetered DEF RunAccountedFor
  <1>2. QED
    BY <1>1, Invariance, PTL

\* P34, for any limit: no wave starts at 95% of the calls or more, none repairs at
\* 80% or more, and a run that is below 95% is within its tokens.
THEOREM BudgetDecides == Spec => BudgetDecidesBetweenWaves
  <1>1. Init => IInv
    BY InitIInv
  <1>2. IInv /\ [Next]_vars => IInv'
    BY NextKeepsIInv
  <1>3. IInv /\ [Next]_vars =>
          [w' # w => /\ metered'.calls * 100 < 95 * Limit
                     /\ metered'.calls * 100 >= 80 * Limit => ~repairs']_vars
    BY WaveStartsInBudget
  <1>4. IInv => (pc = "success" /\ metered.calls * 100 < 95 * Limit => WithinTokens(metered.tokens))
    <2> SUFFICES ASSUME IInv, pc = "success", metered.calls * 100 < 95 * Limit
                 PROVE  WithinTokens(metered.tokens)
      OBVIOUS
    <2>1. metered.calls * 100 \in Nat /\ 95 * Limit \in Nat
      BY LimitType DEF IInv, TypeOK
    <2>2. ~(metered.calls * 100 >= 95 * Limit)
      BY <2>1
    <2>3. QED
      BY <2>2 DEF IInv, AssemblyInv
  <1>5. QED
    BY <1>1, <1>2, <1>3, <1>4, PTL DEF Spec, BudgetDecidesBetweenWaves

-----------------------------------------------------------------------------
(***************************************************************************)
(* WarmStart, for every set of modules and of texts and for chains of any  *)
(* number of runs.                                                         *)
(***************************************************************************)
\* The directory started from still holds good for the modules that this run has not
\* worked on, and what this run found is next to the files it wrote.
WarmBelongs ==
  warm # Absent =>
    \A m \in FileModules : result[m] = Absent => Belong(m, warm.entries[m], warm.files[m])
ResultBelongs ==
  \A m \in FileModules : result[m] # Absent => Belong(m, result[m].entry, disk.files[m])

\* While modules are worked on, the run has no manifest.
NoManifestYet == phase = "modules" => \A m \in FileModules : disk.entries[m] = Absent

\* What a run has in memory, on disk and in the directory it started from agree
\* about each module: that is what the next run starts from, wherever this one stops.
ChainInv ==
  ChainTypeOK /\ WarmBelongs /\ ResultBelongs /\ NoManifestYet
    /\ SkippedAsGraded /\ EntriesMatchFiles

-----------------------------------------------------------------------------
LEMMA NothingType ==
  /\ Nothing \in [FileModules -> MaybeText]
  /\ Nothing \in [FileModules -> Entry \union {Absent}]
  /\ Nothing \in [FileModules -> Grade \union {Absent}]
  /\ \A m \in FileModules : Nothing[m] = Absent
  BY DEF Nothing, MaybeText

LEMMA EmptyDirType == EmptyDir \in Dir
  BY NothingType DEF EmptyDir, Dir

\* A directory by its parts.
LEMMA DirParts ==
  ASSUME NEW d \in Dir
  PROVE  /\ d.files \in [FileModules -> MaybeText]
         /\ d.manifest \in {"none", "v2", "summary"}
         /\ d.entries \in [FileModules -> Entry \union {Absent}]
         /\ d.manifest # "v2" => d.entries = Nothing
         /\ d = [files |-> d.files, manifest |-> d.manifest, entries |-> d.entries]
  BY DEF Dir

LEMMA ChainBegins == ChainInit => ChainInv
  <1> SUFFICES ASSUME ChainInit PROVE ChainInv
    OBVIOUS
  <1>1. result \in [FileModules -> Ending \union {Absent}]
    BY DEF ChainInit, Nothing
  <1>2. ChainTypeOK
    BY <1>1, EmptyDirType, NothingType, WarmStartAssumption DEF ChainTypeOK, ChainInit
  <1>3. \A m \in FileModules : result[m] = Absent /\ disk.entries[m] = Absent
    BY DEF ChainInit, Nothing, EmptyDir
  <1>4. QED
    BY <1>2, <1>3 DEF ChainInv, ChainInit, WarmBelongs, ResultBelongs, NoManifestYet,
       SkippedAsGraded, EntriesMatchFiles, Belong

\* Saving a file, whatever comes of it, leaves the manifest and the other files as they were.
LEMMA SaveFacts ==
  ASSUME disk \in Dir, NEW m \in FileModules, NEW t \in Content, SaveFile(m, t)
  PROVE  /\ disk' \in Dir /\ disk'.entries = disk.entries
         /\ disk'.files[m] \in {t, Cut, Absent}
         /\ \A n \in FileModules \ {m} : disk'.files[n] = disk.files[n]
  <1>1. PICK file \in {t, Cut, Absent} : disk' = [disk EXCEPT !.files[m] = file]
    BY DEF SaveFile
  <1>2. file \in MaybeText
    BY DEF Content, MaybeText
  <1>3. disk.files \in [FileModules -> MaybeText]
    BY DirParts
  <1>4. [disk.files EXCEPT ![m] = file] \in [FileModules -> MaybeText]
    BY <1>2, <1>3
  <1>5. disk' = [disk EXCEPT !.files = [disk.files EXCEPT ![m] = file]]
    BY <1>1
  <1>6. /\ disk'.files = [disk.files EXCEPT ![m] = file]
        /\ disk' \in Dir /\ disk'.entries = disk.entries
    BY <1>4, <1>5 DEF Dir
  <1>7. QED
    BY <1>3, <1>6

\* What writing a manifest may do.
LEMMA ManifestFacts ==
  ASSUME disk \in Dir, NEW kind \in {"v2", "summary"}, NEW es \in [FileModules -> Entry \union {Absent}],
         kind = "v2" \/ es = Nothing, WriteManifest(kind, es)
  PROVE  /\ disk' \in Dir /\ disk'.files = disk.files
         /\ \A m \in FileModules : disk'.entries[m] \in {disk.entries[m], Absent, es[m]}
  <1>1. CASE disk' = disk
    BY <1>1
  <1>2. CASE disk' = [disk EXCEPT !.manifest = "none", !.entries = Nothing]
    <2>1. disk' = [files |-> disk.files, manifest |-> "none", entries |-> Nothing]
      BY <1>2 DEF Dir
    <2>2. QED
      BY <2>1, DirParts, NothingType DEF Dir
  <1>3. CASE disk' = [disk EXCEPT !.manifest = kind, !.entries = es]
    <2>1. disk' = [files |-> disk.files, manifest |-> kind, entries |-> es]
      BY <1>3 DEF Dir
    <2>2. QED
      BY <2>1, DirParts DEF Dir
  <1>4. QED
    BY <1>1, <1>2, <1>3 DEF WriteManifest

\* What is skipped has a file that the last run that graded the module began with.
LEMMA SkipFacts ==
  ASSUME ChainTypeOK, WarmBelongs, NEW m \in FileModules, Treatment(m) = "Skip", result[m] = Absent
  PROVE  /\ Previous(m) \in Entry /\ Previous(m).score >= 70
         /\ warm.files[m] \in Content
         /\ graded[m] # Absent /\ Previous(m).score = graded[m].score
         /\ warm.files[m] \in {graded[m].text, Cut}
  <1>1. Previous(m) # Absent /\ warm # Absent /\ warm.files[m] # Absent /\ WarmAction(Previous(m)) = "Skip"
    BY DEF Treatment, Previous
  <1>2. warm \in Dir /\ Previous(m) = warm.entries[m]
    BY <1>1 DEF ChainTypeOK, Previous
  <1>3. Previous(m) \in Entry /\ warm.files[m] \in Content
    BY <1>1, <1>2, DirParts DEF MaybeText
  <1>4. Previous(m).score >= 70
    BY <1>1 DEF WarmAction
  <1>5. Belong(m, warm.entries[m], warm.files[m])
    BY <1>1 DEF WarmBelongs
  <1>6. QED
    BY <1>1, <1>2, <1>3, <1>4, <1>5 DEF Belong

\* Of a module that ends, the other modules see nothing; what it ends with is to
\* belong to the file that is written.
LEMMA EndsPreserves ==
  ASSUME ChainInv, phase = "modules",
         NEW m \in FileModules, NEW t \in MaybeText, NEW e \in Entry \union {Absent},
         NEW s \in BOOLEAN, Ends(m, t, e, s), UNCHANGED <<phase, run, warm>>,
         disk' = disk \/ \E f \in Content : SaveFile(m, f),
         graded' \in [FileModules -> Grade \union {Absent}],
         \A n \in FileModules \ {m} : graded'[n] = graded[n],
         Belong(m, e, disk.files[m])',
         s => e.score >= 70 /\ t # Absent /\ Belong(m, e, t)'
  PROVE  ChainInv'
  <1> USE DEF ChainInv
  <1>1. /\ disk' \in Dir /\ disk'.entries = disk.entries
        /\ \A n \in FileModules \ {m} : disk'.files[n] = disk.files[n]
    BY SaveFacts DEF ChainTypeOK
  <1>2. /\ result' = [result EXCEPT ![m] = [text |-> t, entry |-> e, skipped |-> s]]
        /\ result \in [FileModules -> Ending \union {Absent}]
    BY DEF Ends, ChainTypeOK
  <1>3. /\ result' \in [FileModules -> Ending \union {Absent}]
        /\ result'[m] = [text |-> t, entry |-> e, skipped |-> s]
        /\ \A n \in FileModules \ {m} : result'[n] = result[n]
    BY <1>2 DEF Ending
  <1>4. result'[m] # Absent
    BY <1>3, AbsentAssumption DEF Ending
  <1>5. ChainTypeOK'
    BY <1>1, <1>3 DEF ChainTypeOK
  <1>6. \A n \in FileModules \ {m} : \A x, file : Belong(n, x, file)' <=> Belong(n, x, file)
    BY DEF Belong
  <1>7. WarmBelongs'
    BY <1>3, <1>4, <1>6 DEF WarmBelongs, Belong
  <1>8. ResultBelongs'
    BY <1>1, <1>3, <1>6 DEF ResultBelongs, Belong
  <1>9. NoManifestYet' /\ \A n \in FileModules : disk'.entries[n] = Absent
    BY <1>1 DEF NoManifestYet
  <1>10. SkippedAsGraded'
    BY <1>3, <1>6 DEF SkippedAsGraded, Belong
  <1>11. EntriesMatchFiles'
    BY <1>9 DEF EntriesMatchFiles, Belong
  <1>12. QED
    BY <1>5, <1>7, <1>8, <1>9, <1>10, <1>11

-----------------------------------------------------------------------------
LEMMA SkipPreserves ==
  ASSUME ChainInv, NEW m \in FileModules, Skip(m)
  PROVE  ChainInv'
  <1>1. phase = "modules" /\ result[m] = Absent /\ Treatment(m) = "Skip"
        /\ graded' = graded /\ UNCHANGED <<phase, run, warm>>
    BY DEF Skip, Ready
  <1>2. /\ warm.files[m] \in Content /\ Previous(m) \in Entry /\ Previous(m).score >= 70
        /\ graded[m] # Absent /\ Previous(m).score = graded[m].score
        /\ warm.files[m] \in {graded[m].text, Cut}
    BY <1>1, SkipFacts DEF ChainInv
  <1>3. PICK e \in Entry : e = AsValidated(Previous(m)) /\ e.score = Previous(m).score
    <2>1. Previous(m).score \in 0..100 /\ "Validated" \in EntryTags
      BY <1>2 DEF Entry, EntryTags, Tags
    <2>2. AsValidated(Previous(m)) \in Entry
      BY <2>1 DEF AsValidated, Entry
    <2>3. AsValidated(Previous(m)).score = Previous(m).score
      BY DEF AsValidated
    <2>4. QED
      BY <2>2, <2>3
  <1>4. PICK t \in Content : t = warm.files[m]
    BY <1>2
  <1>5. t \in MaybeText /\ t # Absent /\ SaveFile(m, t) /\ Ends(m, t, e, TRUE)
    BY <1>3, <1>4, WarmStartAssumption DEF Skip, MaybeText, Content
  <1>6. disk'.files[m] \in {t, Cut, Absent}
    BY <1>5, SaveFacts DEF ChainInv, ChainTypeOK
  <1>7. Belong(m, e, disk.files[m])' /\ Belong(m, e, t)'
    BY <1>1, <1>2, <1>3, <1>4, <1>6 DEF Belong
  <1>8. /\ graded' \in [FileModules -> Grade \union {Absent}]
        /\ \A n \in FileModules \ {m} : graded'[n] = graded[n]
    BY <1>1 DEF ChainInv, ChainTypeOK
  <1>9. e.score >= 70
    BY <1>2, <1>3
  <1>10. QED
    BY <1>1, <1>5, <1>7, <1>8, <1>9, EndsPreserves

LEMMA MigratePreserves ==
  ASSUME ChainInv, NEW m \in FileModules, NEW t \in Content, NEW v \in Texts, NEW f \in Texts,
         NEW last \in Texts, Migrate(m, t, v, f, last)
  PROVE  ChainInv'
  <1> DEFINE tag == IF Passed(f, FALSE) THEN "Validated"
                    ELSE GraduatedTag(f.compiles, last.unsafe, f.score, 80, last.errors)
             e == [tag |-> tag, score |-> f.score,
                   compiles |-> tag = "Validated" \/ last.errors = 0]
             good == tag \in {"Validated", "CompilesUnsafe"} /\ f.score >= 70
             grade == [text |-> t, score |-> f.score]
  <1>1. /\ Ends(m, f, e, FALSE) /\ SaveFile(m, t) /\ UNCHANGED <<phase, run, warm>>
        /\ graded' = [graded EXCEPT ![m] = IF good THEN grade ELSE Absent]
        /\ phase = "modules"
    BY DEF Migrate, Ready
  <1>2. tag \in EntryTags
    BY DEF GraduatedTag, EntryTags, Tags
  <1>3. f.score \in 0..100 /\ f \in MaybeText
    BY WarmStartAssumption DEF Text, MaybeText, Content
  <1>4. grade \in Grade /\ grade # Absent /\ grade.text = t /\ grade.score = f.score
    BY <1>3, AbsentAssumption DEF Grade
  <1> HIDE DEF tag, grade
  <1>5. e \in Entry \union {Absent} /\ e.tag = tag /\ e.score = f.score
    BY <1>2, <1>3 DEF Entry
  <1>6. graded \in [FileModules -> Grade \union {Absent}]
    BY DEF ChainInv, ChainTypeOK
  <1>7. /\ graded' \in [FileModules -> Grade \union {Absent}]
        /\ \A n \in FileModules \ {m} : graded'[n] = graded[n]
        /\ good => graded'[m] = grade
    BY <1>1, <1>4, <1>6
  <1>8. disk'.files[m] \in {t, Cut, Absent}
    BY <1>1, SaveFacts DEF ChainInv, ChainTypeOK
  <1>9. WarmAction(e) = "Skip" => good
    BY <1>5 DEF WarmAction
  <1> HIDE DEF good, e
  <1>10. Belong(m, e, disk.files[m])'
    BY <1>4, <1>5, <1>7, <1>8, <1>9 DEF Belong
  <1>11. QED
    BY <1>1, <1>3, <1>5, <1>7, <1>10, EndsPreserves

LEMMA TranslationFailsPreserves ==
  ASSUME ChainInv, NEW m \in FileModules, TranslationFails(m)
  PROVE  ChainInv'
  <1>1. PICK e : e = [tag |-> "TranslationFailed", score |-> 0, compiles |-> FALSE]
    OBVIOUS
  <1>2. e \in Entry \union {Absent} /\ Absent \in MaybeText
    BY <1>1 DEF Entry, EntryTags, MaybeText
  <1>3. Ends(m, Absent, e, FALSE) /\ UNCHANGED <<phase, run, warm, disk, graded>> /\ phase = "modules"
    BY <1>1 DEF TranslationFails, Ready
  <1>4. graded \in [FileModules -> Grade \union {Absent}]
    BY DEF ChainInv, ChainTypeOK
  <1>5. Belong(m, e, disk.files[m])'
    BY <1>1 DEF Belong, WarmAction
  <1>6. QED
    BY <1>2, <1>3, <1>4, <1>5, EndsPreserves

LEMMA NoResultPreserves ==
  ASSUME ChainInv, NEW m \in FileModules, NEW t \in MaybeText, NoResult(m, t)
  PROVE  ChainInv'
  <1>1. Ends(m, Absent, Absent, FALSE) /\ UNCHANGED <<phase, run, warm, graded>> /\ phase = "modules"
    BY DEF NoResult, Ready
  <1>2. disk' = disk \/ \E f \in Content : SaveFile(m, f)
    BY DEF NoResult, MaybeText
  <1>3. graded \in [FileModules -> Grade \union {Absent}] /\ Absent \in MaybeText
    BY DEF ChainInv, ChainTypeOK, MaybeText
  <1>4. Belong(m, Absent, disk.files[m])'
    BY DEF Belong
  <1>5. QED
    BY <1>1, <1>2, <1>3, <1>4, EndsPreserves

-----------------------------------------------------------------------------
\* Nothing is said of modules when their variables are gone.
LEMMA LeaveFacts ==
  ASSUME Leave
  PROVE  /\ warm' = Absent /\ result' \in [FileModules -> Ending \union {Absent}]
         /\ WarmBelongs' /\ ResultBelongs' /\ SkippedAsGraded'
  <1>1. warm' = Absent /\ result' = Nothing
    BY DEF Leave
  <1>2. \A m \in FileModules : result'[m] = Absent
    BY <1>1 DEF Nothing
  <1>3. result' \in [FileModules -> Ending \union {Absent}]
    BY <1>1 DEF Nothing
  <1>4. QED
    BY <1>1, <1>2, <1>3 DEF WarmBelongs, ResultBelongs, SkippedAsGraded

LEMMA SaveManifestPreserves ==
  ASSUME ChainInv, SaveManifestV2
  PROVE  ChainInv'
  <1> USE DEF ChainInv
  <1> DEFINE entries == [m \in FileModules |-> result[m].entry]
  <1>1. /\ WriteManifest("v2", entries) /\ \A m \in FileModules : result[m] # Absent
        /\ phase = "modules" /\ phase' = "stages" /\ Leave /\ UNCHANGED <<run, graded>>
    BY DEF SaveManifestV2
  <1>2. entries \in [FileModules -> Entry \union {Absent}] /\ \A m \in FileModules : entries[m] = result[m].entry
    BY <1>1 DEF ChainTypeOK, Ending
  <1> HIDE DEF entries
  <1>3. /\ disk' \in Dir /\ disk'.files = disk.files
        /\ \A m \in FileModules : disk'.entries[m] \in {disk.entries[m], Absent, entries[m]}
    BY <1>1, <1>2, ManifestFacts DEF ChainTypeOK
  <1>4. \A m \in FileModules : disk'.entries[m] \in {Absent, result[m].entry}
    BY <1>1, <1>2, <1>3 DEF NoManifestYet
  <1>5. ChainTypeOK'
    BY <1>1, <1>3, LeaveFacts DEF ChainTypeOK
  <1>6. \A m \in FileModules : Belong(m, disk'.entries[m], disk'.files[m])
    BY <1>1, <1>3, <1>4 DEF ResultBelongs, Belong
  <1>7. EntriesMatchFiles'
    BY <1>1, <1>6 DEF EntriesMatchFiles, Belong
  <1>8. NoManifestYet'
    BY <1>1 DEF NoManifestYet
  <1>9. QED
    BY <1>1, <1>5, <1>7, <1>8, LeaveFacts

LEMMA CompletePreserves ==
  ASSUME ChainInv, Complete
  PROVE  ChainInv'
  <1> USE DEF ChainInv
  <1>1. /\ WriteManifest("summary", Nothing) /\ phase' = "over"
        /\ UNCHANGED <<run, warm, result, graded>>
    BY DEF Complete
  <1>2. /\ disk' \in Dir /\ disk'.files = disk.files
        /\ \A m \in FileModules : disk'.entries[m] \in {disk.entries[m], Absent}
    BY <1>1, ManifestFacts, NothingType DEF ChainTypeOK
  <1>3. ChainTypeOK' /\ WarmBelongs' /\ ResultBelongs' /\ NoManifestYet' /\ SkippedAsGraded'
    BY <1>1, <1>2 DEF ChainTypeOK, WarmBelongs, ResultBelongs, NoManifestYet, SkippedAsGraded, Belong
  <1>4. EntriesMatchFiles'
    BY <1>1, <1>2 DEF EntriesMatchFiles, Belong
  <1>5. QED
    BY <1>3, <1>4

\* What the next run looks at of a directory.
LEMMA LookedAtFacts ==
  ASSUME NEW d \in Dir
  PROVE  /\ LookedAt(d) \in Dir /\ LookedAt(d).entries = d.entries
         /\ \A m \in FileModules : d.entries[m] # Absent => LookedAt(d).files[m] = d.files[m]
  <1> DEFINE fs == [m \in FileModules |-> IF d.entries[m] = Absent THEN Absent ELSE d.files[m]]
  <1>1. fs \in [FileModules -> MaybeText] /\ \A m \in FileModules : d.entries[m] # Absent => fs[m] = d.files[m]
    BY DirParts DEF MaybeText
  <1>2. LookedAt(d) = [d EXCEPT !.files = fs]
    BY DEF LookedAt
  <1> HIDE DEF fs
  <1>3. LookedAt(d) = [files |-> fs, manifest |-> d.manifest, entries |-> d.entries]
    BY <1>2, DirParts
  <1>4. QED
    BY <1>1, <1>3, DirParts DEF Dir

\* A next run reads the directory of this one, and has written nothing yet.
LEMMA StartPreserves ==
  ASSUME ChainInv, StartFromThis
  PROVE  ChainInv'
  <1> USE DEF ChainInv
  <1>1. /\ run' = run + 1 /\ run < MaxRuns /\ phase' = "modules"
        /\ disk' = EmptyDir /\ result' = Nothing
        /\ \/ warm' = LookedAt(disk) /\ graded' = graded
           \/ warm' = Absent /\ graded' = Nothing
    BY DEF StartFromThis
  <1>2. \A m \in FileModules : result'[m] = Absent /\ disk'.entries[m] = Absent
    BY <1>1 DEF Nothing, EmptyDir
  <1>3. run' \in 1 .. MaxRuns
    BY <1>1, WarmStartAssumption DEF ChainTypeOK
  <1>4. result' \in [FileModules -> Ending \union {Absent}]
    BY <1>1 DEF Nothing
  <1>5. /\ LookedAt(disk) \in Dir /\ LookedAt(disk).entries = disk.entries
        /\ \A m \in FileModules :
             disk.entries[m] # Absent => LookedAt(disk).files[m] = disk.files[m]
    BY LookedAtFacts DEF ChainTypeOK
  <1>6. ChainTypeOK'
    BY <1>1, <1>3, <1>4, <1>5, EmptyDirType, NothingType DEF ChainTypeOK
  <1>7. WarmBelongs'
    <2>1. CASE warm' = Absent
      BY <2>1 DEF WarmBelongs
    <2>2. CASE warm' = LookedAt(disk) /\ graded' = graded
      <3>1. \A m \in FileModules : Belong(m, disk.entries[m], disk.files[m])
        BY DEF EntriesMatchFiles
      <3>2. \A m \in FileModules : Belong(m, warm.entries[m], warm.files[m])'
        BY <1>5, <2>2, <3>1 DEF Belong
      <3>3. QED
        BY <3>2 DEF WarmBelongs
    <2>3. QED
      BY <1>1, <2>1, <2>2
  <1>8. ResultBelongs' /\ NoManifestYet' /\ SkippedAsGraded' /\ EntriesMatchFiles'
    BY <1>2 DEF ResultBelongs, NoManifestYet, SkippedAsGraded, EntriesMatchFiles, Belong
  <1>9. QED
    BY <1>6, <1>7, <1>8

\* A run that leaves the modules without a manifest, and one that stops.
LEMMA LeavePreserves ==
  ASSUME ChainInv, Leave, UNCHANGED <<run, disk, graded>>, phase' \in {"stages", "over"}
  PROVE  ChainInv'
  <1>1. ChainTypeOK'
    BY LeaveFacts DEF ChainInv, ChainTypeOK
  <1>2. EntriesMatchFiles' /\ NoManifestYet'
    BY DEF ChainInv, EntriesMatchFiles, NoManifestYet, Belong
  <1>3. QED
    BY <1>1, <1>2, LeaveFacts DEF ChainInv

LEMMA StutterPreserves ==
  ASSUME ChainInv, UNCHANGED runVars
  PROVE  ChainInv'
  BY DEF runVars, ChainInv, ChainTypeOK, WarmBelongs, ResultBelongs, NoManifestYet, Belong,
     SkippedAsGraded, EntriesMatchFiles

\* Over chains of any number of runs, any of which may stop anywhere and lose any write,
\* memory, directory and the directory before it agree about every module.
THEOREM ChainInvariance == ChainSpec => []ChainInv
  <1>1. ChainInv /\ [ChainNext]_runVars => ChainInv'
    <2> SUFFICES ASSUME ChainInv, [ChainNext]_runVars PROVE ChainInv'
      OBVIOUS
    <2>1. ASSUME NEW m \in FileModules, Skip(m) PROVE ChainInv'
      BY <2>1, SkipPreserves
    <2>2. ASSUME NEW m \in FileModules, NEW v \in Texts, NEW f \in Texts, NEW last \in Texts,
                 SeedRepair(m, v, f, last)
          PROVE  ChainInv'
      <3>1. PICK t \in Content : t = warm.files[m]
        BY <2>2 DEF SeedRepair, Content
      <3>2. Migrate(m, t, v, f, last)
        BY <2>2, <3>1 DEF SeedRepair
      <3>3. QED
        BY <3>2, MigratePreserves
    <2>3. ASSUME NEW m \in FileModules, NEW t \in Texts, NEW f \in Texts, NEW last \in Texts,
                 Translate(m, t, f, last)
          PROVE  ChainInv'
      <3>1. t \in Content /\ Migrate(m, t, t, f, last)
        BY <2>3 DEF Translate, Content
      <3>2. QED
        BY <3>1, MigratePreserves
    <2>4. ASSUME NEW m \in FileModules, TranslationFails(m) PROVE ChainInv'
      BY <2>4, TranslationFailsPreserves
    <2>5. ASSUME NEW m \in FileModules, NEW t \in MaybeText, NoResult(m, t) PROVE ChainInv'
      BY <2>5, NoResultPreserves
    <2>6. CASE FallBack
      BY <2>6, LeavePreserves DEF FallBack
    <2>7. CASE Stop
      BY <2>7, LeavePreserves DEF Stop
    <2>8. CASE UNCHANGED runVars
      BY <2>8, StutterPreserves
    <2>9. QED
      BY <2>1, <2>2, <2>3, <2>4, <2>5, <2>6, <2>7, <2>8, SaveManifestPreserves,
         CompletePreserves, StartPreserves DEF ChainNext
  <1>2. QED
    BY <1>1, ChainBegins, PTL DEF ChainSpec

\* Whatever run left a directory, wherever it stopped and whichever of its writes failed,
\* the next run can go by it: a module is skipped only with the score of the last run that
\* graded it and the text that run began with, and no entry is next to a file of another.
THEOREM ReliableDirectories == ChainSpec => []DirectoryIsReliable
  <1>1. ChainInv => DirectoryIsReliable
    BY DEF ChainInv, DirectoryIsReliable
  <1>2. QED
    BY <1>1, ChainInvariance, PTL

=============================================================================
