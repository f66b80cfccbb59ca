----------------------- MODULE DependencyGraph_proofs -----------------------
(***************************************************************************)
(* Proofs about DependencyGraph for any nodes and any graph: the degrees   *)
(* stay exact, the queue pops level after level, concurrently migrated     *)
(* modules are independent, and every form implements Schedule.            *)
(***************************************************************************)
EXTENDS DependencyGraph, FiniteSetTheorems, WellFoundedInduction, TLAPS

-----------------------------------------------------------------------------
(***************************************************************************)
(* Nodes in their order.                                                   *)
(***************************************************************************)
\* A set of nodes is finite, and its cardinality is a natural number that is
\* zero for the empty set only.
LEMMA SomeNodes ==
  ASSUME NEW S \in SUBSET Nodes
  PROVE  /\ IsFiniteSet(S)
         /\ Cardinality(S) \in Nat
         /\ Cardinality(S) = 0 <=> S = {}
  <1>1. IsFiniteSet(S)
    BY FS_Subset, OrderAssumption
  <1>2. QED
    BY <1>1, FS_CardinalityType, FS_EmptySet

\* A node further on has more nodes before it.
LEMMA RankRises ==
  ASSUME NEW S \in SUBSET Nodes, NEW m \in S, NEW n \in S, m < n
  PROVE  Cardinality({k \in S : k < m}) < Cardinality({k \in S : k < n})
  <1> DEFINE below(x) == {k \in S : k < x}
  <1>1. IsFiniteSet(S) /\ S \subseteq Nat
    BY SomeNodes, OrderAssumption
  <1>2. below(m) \union {m} \in SUBSET below(n) /\ m \notin below(m)
    <2>1. m \in Nat /\ n \in Nat /\ ~(m < m)
      BY <1>1
    <2>2. \A k \in S : k < m => k < n
      BY <1>1, <2>1
    <2>3. QED
      BY <2>1, <2>2
  <1>3. below(m) \in SUBSET S /\ below(n) \in SUBSET S
    OBVIOUS
  <1> HIDE DEF below
  <1>4. IsFiniteSet(below(m)) /\ IsFiniteSet(below(n))
    BY <1>1, <1>3, FS_Subset
  <1>5. Cardinality(below(m)) \in Nat /\ Cardinality(below(n)) \in Nat
    BY <1>4, FS_CardinalityType
  <1>6. Cardinality(below(m) \union {m}) = Cardinality(below(m)) + 1
    BY <1>2, <1>4, FS_AddElement
  <1>7. Cardinality(below(m) \union {m}) <= Cardinality(below(n))
    BY <1>2, <1>4, FS_Subset
  <1>8. Cardinality(below(m)) < Cardinality(below(n))
    BY <1>5, <1>6, <1>7
  <1>9. QED
    BY <1>8 DEF below

\* The number of nodes of S before a node tells where it comes.
LEMMA RankIsBijection ==
  ASSUME NEW S \in SUBSET Nodes
  PROVE  LET rank == [n \in S |-> Cardinality({m \in S : m < n}) + 1] IN
           /\ rank \in Injection(S, 1 .. Cardinality(S))
           /\ rank \in Surjection(S, 1 .. Cardinality(S))
  <1> DEFINE below(n) == {m \in S : m < n}
             rank == [n \in S |-> Cardinality(below(n)) + 1]
  <1>1. IsFiniteSet(S) /\ Cardinality(S) \in Nat /\ S \subseteq Nat
    BY SomeNodes, OrderAssumption
  <1>2. ASSUME NEW n \in S PROVE Cardinality(below(n)) \in 0 .. Cardinality(S) - 1
    <2>1. below(n) \in SUBSET (S \ {n})
      BY <1>1
    <2>2. IsFiniteSet(S \ {n}) /\ Cardinality(S \ {n}) = Cardinality(S) - 1
      BY <1>1, FS_RemoveElement
    <2> HIDE DEF below
    <2>3. IsFiniteSet(below(n)) /\ Cardinality(below(n)) <= Cardinality(S) - 1
      BY <2>1, <2>2, FS_Subset
    <2>4. Cardinality(below(n)) \in Nat
      BY <2>3, FS_CardinalityType
    <2>5. QED
      BY <1>1, <2>3, <2>4
  <1>3. ASSUME NEW m \in S, NEW n \in S, m < n
        PROVE  Cardinality(below(m)) < Cardinality(below(n))
    BY <1>3, RankRises
  <1> HIDE DEF below
  <1>4. \A n \in S : Cardinality(below(n)) \in Nat /\ rank[n] = Cardinality(below(n)) + 1
    BY <1>1, <1>2
  <1>5. rank \in [S -> 1 .. Cardinality(S)]
    BY <1>1, <1>2
  <1> HIDE DEF rank
  <1>6. ASSUME NEW m \in S, NEW n \in S, rank[m] = rank[n] PROVE m = n
    <2>1. ~(m < n) /\ ~(n < m)
      BY <1>3, <1>4, <1>6
    <2>2. QED
      BY <1>1, <2>1
  <1>7. rank \in Injection(S, 1 .. Cardinality(S))
    BY <1>5, <1>6 DEF Injection, IsInjective
  <1>8. IsFiniteSet(1 .. Cardinality(S)) /\ Cardinality(1 .. Cardinality(S)) = Cardinality(S)
    <2>1. /\ IsFiniteSet(1 .. Cardinality(S))
          /\ Cardinality(1 .. Cardinality(S)) =
               IF 1 > Cardinality(S) THEN 0 ELSE Cardinality(S) - 1 + 1
      BY <1>1, FS_Interval
    <2>2. QED
      BY <1>1, <2>1
  <1>9. rank \in Surjection(S, 1 .. Cardinality(S))
    BY <1>7, <1>8, FS_Injection
  <1>10. QED
    BY <1>7, <1>9 DEF rank, below

\* Sorting a set is one of the ways to put it in a sequence.
LEMMA SortedIsASequence ==
  ASSUME NEW S \in SUBSET Nodes
  PROVE  Sorted(S) \in SetToSeqs(S)
  <1> DEFINE rank == [n \in S |-> Cardinality({m \in S : m < n}) + 1]
  <1>1. rank \in Surjection(S, 1 .. Cardinality(S))
    BY RankIsBijection
  <1>2. \A n \in S : rank[n] - 1 = Cardinality({m \in S : m < n})
    BY SomeNodes
  <1>3. Cardinality(S) \in Nat
    BY SomeNodes
  <1> HIDE DEF rank
  <1>4. ASSUME NEW k \in 1 .. Cardinality(S)
        PROVE  /\ Sorted(S)[k] \in S
               /\ Cardinality({m \in S : m < Sorted(S)[k]}) = k - 1
    <2>1. PICK n \in S : rank[n] = k
      BY <1>1 DEF Surjection
    <2>2. \E l \in S : Cardinality({m \in S : m < l}) = k - 1
      BY <1>2, <2>1
    <2>3. QED
      BY <2>2 DEF Sorted
  <1>5. Sorted(S) \in [1 .. Cardinality(S) -> S]
    BY <1>4 DEF Sorted
  <1>6. \A i, j \in 1 .. Cardinality(S) : i # j => Sorted(S)[i] # Sorted(S)[j]
    <2> SUFFICES ASSUME NEW i \in 1 .. Cardinality(S), NEW j \in 1 .. Cardinality(S),
                        Sorted(S)[i] = Sorted(S)[j]
                 PROVE  i = j
      OBVIOUS
    <2>1. i - 1 = j - 1
      BY <1>4
    <2>2. QED
      BY <1>3, <2>1
  <1>7. QED
    BY <1>5, <1>6 DEF SetToSeqs

\* A set in a sequence: each element once, and nothing else.
LEMMA SequenceOfSet ==
  ASSUME NEW S \in SUBSET Nodes, NEW p \in SetToSeqs(S)
  PROVE  p \in Seq(S) /\ p \in Seq(Nodes) /\ IsInjective(p) /\ ToSet(p) = S
  <1>1. /\ p \in [1 .. Cardinality(S) -> S]
        /\ \A i, j \in 1 .. Cardinality(S) : i # j => p[i] # p[j]
    BY DEF SetToSeqs
  <1>2. Cardinality(S) \in Nat /\ IsFiniteSet(S)
    BY SomeNodes
  <1>3. p \in Seq(S) /\ p \in Seq(Nodes)
    BY <1>1, <1>2
  <1>4. IsInjective(p)
    BY <1>1 DEF IsInjective
  <1>5. p \in Injection(1 .. Cardinality(S), S)
    BY <1>1, <1>4 DEF Injection
  <1>6. Cardinality(1 .. Cardinality(S)) = Cardinality(S)
    <2>1. Cardinality(1 .. Cardinality(S)) =
            IF 1 > Cardinality(S) THEN 0 ELSE Cardinality(S) - 1 + 1
      BY <1>2, FS_Interval
    <2>2. QED
      BY <1>2, <2>1
  <1>7. p \in Surjection(1 .. Cardinality(S), S)
    BY <1>2, <1>5, <1>6, FS_Injection
  <1>8. ToSet(p) = S
    BY <1>1, <1>7 DEF ToSet, Surjection
  <1>9. QED
    BY <1>3, <1>4, <1>8

-----------------------------------------------------------------------------
(***************************************************************************)
(* Sequences that grow.                                                    *)
(***************************************************************************)
\* Appending adds an element to those of a sequence, at its end.
LEMMA AppendedElement ==
  ASSUME NEW U, NEW s \in Seq(U), NEW x \in U
  PROVE  /\ Append(s, x) \in Seq(U)
         /\ Len(s) \in Nat /\ Len(Append(s, x)) = Len(s) + 1
         /\ DOMAIN s = 1 .. Len(s) /\ DOMAIN Append(s, x) = 1 .. Len(s) + 1
         /\ Append(s, x)[Len(s) + 1] = x
         /\ \A k \in 1 .. Len(s) : Append(s, x)[k] = s[k]
  OBVIOUS

\* A sequence is a function on its positions.
LEMMA SequenceAsFunction ==
  ASSUME NEW U, NEW s \in Seq(U)
  PROVE  s \in [1 .. Len(s) -> U]
  OBVIOUS

LEMMA AppendedSet ==
  ASSUME NEW U, NEW s \in Seq(U), NEW x \in U
  PROVE  ToSet(Append(s, x)) = ToSet(s) \union {x}
  <1> DEFINE t == Append(s, x)
  <1>1. /\ Len(s) \in Nat /\ DOMAIN s = 1 .. Len(s) /\ DOMAIN t = 1 .. Len(s) + 1
        /\ t[Len(s) + 1] = x /\ \A k \in 1 .. Len(s) : t[k] = s[k]
    BY AppendedElement
  <1> HIDE DEF t
  <1>2. \A k \in DOMAIN t : k = Len(s) + 1 \/ (k \in DOMAIN s /\ t[k] = s[k])
    BY <1>1
  <1>3. \A k \in DOMAIN s : k \in DOMAIN t /\ t[k] = s[k]
    BY <1>1
  <1>4. Len(s) + 1 \in DOMAIN t
    BY <1>1
  <1>5. {t[k] : k \in DOMAIN t} = {s[k] : k \in DOMAIN s} \union {x}
    BY <1>1, <1>2, <1>3, <1>4, Zenon
  <1>6. QED
    BY <1>5 DEF ToSet, t

\* A sequence without repetition stays so when it gets a new element.
LEMMA AppendedInjective ==
  ASSUME NEW U, NEW s \in Seq(U), NEW x \in U, IsInjective(s), x \notin ToSet(s)
  PROVE  IsInjective(Append(s, x))
  <1> DEFINE t == Append(s, x)
  <1>1. /\ Len(s) \in Nat /\ DOMAIN s = 1 .. Len(s) /\ DOMAIN t = 1 .. Len(s) + 1
        /\ t[Len(s) + 1] = x /\ \A k \in 1 .. Len(s) : t[k] = s[k]
    BY AppendedElement
  <1> HIDE DEF t
  <1>2. \A k \in 1 .. Len(s) : s[k] # x
    BY <1>1 DEF ToSet
  <1>3. \A a, b \in 1 .. Len(s) : s[a] = s[b] => a = b
    BY <1>1 DEF IsInjective
  <1>4. \A a, b \in 1 .. Len(s) + 1 : t[a] = t[b] => a = b
    BY <1>1, <1>2, <1>3
  <1>5. QED
    BY <1>1, <1>4 DEF IsInjective, t

\* The elements of two sequences one after the other.
LEMMA JoinedElements ==
  ASSUME NEW U, NEW s \in Seq(U), NEW t \in Seq(U)
  PROVE  /\ s \o t \in Seq(U)
         /\ Len(s) \in Nat /\ Len(t) \in Nat /\ Len(s \o t) = Len(s) + Len(t)
         /\ DOMAIN s = 1 .. Len(s) /\ DOMAIN t = 1 .. Len(t)
         /\ DOMAIN (s \o t) = 1 .. Len(s) + Len(t)
         /\ \A k \in 1 .. Len(s) : (s \o t)[k] = s[k]
         /\ \A k \in 1 .. Len(t) : (s \o t)[Len(s) + k] = t[k]
  OBVIOUS

LEMMA JoinedSet ==
  ASSUME NEW U, NEW s \in Seq(U), NEW t \in Seq(U)
  PROVE  ToSet(s \o t) = ToSet(s) \union ToSet(t)
  <1> DEFINE u == s \o t
  <1>1. /\ Len(s) \in Nat /\ Len(t) \in Nat
        /\ DOMAIN s = 1 .. Len(s) /\ DOMAIN t = 1 .. Len(t) /\ DOMAIN u = 1 .. Len(s) + Len(t)
        /\ \A k \in 1 .. Len(s) : u[k] = s[k]
        /\ \A k \in 1 .. Len(t) : u[Len(s) + k] = t[k]
    BY JoinedElements
  <1> HIDE DEF u
  <1>2. ASSUME NEW x \in ToSet(u) PROVE x \in ToSet(s) \union ToSet(t)
    <2>1. PICK k \in 1 .. Len(s) + Len(t) : u[k] = x
      BY <1>1, <1>2 DEF ToSet
    <2>2. CASE k \in 1 .. Len(s)
      BY <1>1, <2>1, <2>2 DEF ToSet
    <2>3. CASE k \notin 1 .. Len(s)
      <3>1. k - Len(s) \in 1 .. Len(t) /\ Len(s) + (k - Len(s)) = k
        BY <1>1, <2>1, <2>3
      <3>2. x = t[k - Len(s)]
        BY <1>1, <2>1, <3>1
      <3>3. QED
        BY <1>1, <3>1, <3>2 DEF ToSet
    <2>4. QED
      BY <2>2, <2>3
  <1>3. ASSUME NEW x \in ToSet(s) PROVE x \in ToSet(u)
    <2>1. PICK k \in 1 .. Len(s) : s[k] = x
      BY <1>1, <1>3 DEF ToSet
    <2>2. k \in DOMAIN u /\ u[k] = x
      BY <1>1, <2>1
    <2>3. QED
      BY <2>2 DEF ToSet
  <1>4. ASSUME NEW x \in ToSet(t) PROVE x \in ToSet(u)
    <2>1. PICK k \in 1 .. Len(t) : t[k] = x
      BY <1>1, <1>4 DEF ToSet
    <2>2. Len(s) + k \in DOMAIN u /\ u[Len(s) + k] = x
      BY <1>1, <2>1
    <2>3. QED
      BY <2>2 DEF ToSet
  <1>5. QED
    BY <1>2, <1>3, <1>4 DEF u

LEMMA JoinedInjective ==
  ASSUME NEW U, NEW s \in Seq(U), NEW t \in Seq(U), IsInjective(s), IsInjective(t),
         ToSet(s) \intersect ToSet(t) = {}
  PROVE  IsInjective(s \o t)
  <1> DEFINE u == s \o t
  <1>1. /\ Len(s) \in Nat /\ Len(t) \in Nat
        /\ DOMAIN s = 1 .. Len(s) /\ DOMAIN t = 1 .. Len(t) /\ DOMAIN u = 1 .. Len(s) + Len(t)
        /\ \A k \in 1 .. Len(s) : u[k] = s[k]
        /\ \A k \in 1 .. Len(t) : u[Len(s) + k] = t[k]
    BY JoinedElements
  <1> HIDE DEF u
  <1>2. \A k \in DOMAIN u : k \in 1 .. Len(s) \/ (k - Len(s) \in 1 .. Len(t) /\ u[k] = t[k - Len(s)])
    <2> SUFFICES ASSUME NEW k \in DOMAIN u, k \notin 1 .. Len(s)
                 PROVE  k - Len(s) \in 1 .. Len(t) /\ u[k] = t[k - Len(s)]
      OBVIOUS
    <2>1. k - Len(s) \in 1 .. Len(t) /\ Len(s) + (k - Len(s)) = k
      BY <1>1
    <2>2. QED
      BY <1>1, <2>1
  <1>3. \A a, b \in 1 .. Len(s) : s[a] = s[b] => a = b
    BY <1>1 DEF IsInjective
  <1>4. \A a, b \in 1 .. Len(t) : t[a] = t[b] => a = b
    BY <1>1 DEF IsInjective
  <1>5. \A a \in 1 .. Len(s), b \in 1 .. Len(t) : s[a] # t[b]
    BY <1>1 DEF ToSet
  <1>6. ASSUME NEW a \in DOMAIN u, NEW b \in DOMAIN u, u[a] = u[b] PROVE a = b
    <2>1. CASE a \in 1 .. Len(s) /\ b \in 1 .. Len(s)
      BY <1>1, <1>3, <1>6, <2>1
    <2>2. CASE a \in 1 .. Len(s) /\ b \notin 1 .. Len(s)
      BY <1>1, <1>2, <1>5, <1>6, <2>2
    <2>3. CASE a \notin 1 .. Len(s) /\ b \in 1 .. Len(s)
      BY <1>1, <1>2, <1>5, <1>6, <2>3
    <2>4. CASE a \notin 1 .. Len(s) /\ b \notin 1 .. Len(s)
      <3>1. a - Len(s) = b - Len(s)
        BY <1>2, <1>4, <1>6, <2>4
      <3>2. QED
        BY <1>1, <3>1
    <2>5. QED
      BY <2>1, <2>2, <2>3, <2>4
  <1>7. QED
    BY <1>6 DEF IsInjective, u

\* What is behind the head of a sequence without repetition.
LEMMA TailElements ==
  ASSUME NEW U, NEW q \in Seq(U), q # <<>>
  PROVE  /\ Head(q) \in U /\ Tail(q) \in Seq(U)
         /\ Len(q) \in Nat \ {0} /\ DOMAIN q = 1 .. Len(q) /\ DOMAIN Tail(q) = 1 .. Len(q) - 1
         /\ Len(Tail(q)) = Len(q) - 1
         /\ Head(q) = q[1]
         /\ \A k \in 1 .. Len(q) - 1 : Tail(q)[k] = q[k + 1]
  OBVIOUS

LEMMA TailSet ==
  ASSUME NEW U, NEW q \in Seq(U), q # <<>>, IsInjective(q)
  PROVE  /\ Head(q) \in ToSet(q)
         /\ ToSet(Tail(q)) = ToSet(q) \ {Head(q)}
         /\ IsInjective(Tail(q))
  <1> DEFINE t == Tail(q)
  <1>1. /\ Len(q) \in Nat \ {0} /\ DOMAIN q = 1 .. Len(q) /\ DOMAIN t = 1 .. Len(q) - 1
        /\ Head(q) = q[1] /\ \A k \in 1 .. Len(q) - 1 : t[k] = q[k + 1]
    BY TailElements
  <1> HIDE DEF t
  <1>2. 1 \in DOMAIN q /\ \A k \in 1 .. Len(q) - 1 : k + 1 \in 1 .. Len(q) /\ k + 1 # 1
    BY <1>1
  <1>3. \A a, b \in 1 .. Len(q) : q[a] = q[b] => a = b
    BY <1>1 DEF IsInjective
  <1>4. Head(q) \in ToSet(q)
    BY <1>1, <1>2 DEF ToSet
  <1>5. ASSUME NEW x \in ToSet(t) PROVE x \in ToSet(q) /\ x # q[1]
    <2>1. PICK k \in 1 .. Len(q) - 1 : t[k] = x
      BY <1>1, <1>5 DEF ToSet
    <2>2. k + 1 \in 1 .. Len(q) /\ k + 1 # 1 /\ x = q[k + 1]
      BY <1>1, <1>2, <2>1
    <2>3. x # q[1]
      BY <1>1, <1>2, <1>3, <2>2
    <2>4. QED
      BY <1>1, <2>2, <2>3 DEF ToSet
  <1>6. ASSUME NEW x \in ToSet(q), x # q[1] PROVE x \in ToSet(t)
    <2>1. PICK k \in 1 .. Len(q) : q[k] = x
      BY <1>1, <1>6 DEF ToSet
    <2>2. k - 1 \in 1 .. Len(q) - 1 /\ (k - 1) + 1 = k
      BY <1>1, <1>6, <2>1
    <2>3. k - 1 \in DOMAIN t /\ t[k - 1] = x
      BY <1>1, <2>1, <2>2
    <2>4. QED
      BY <2>3 DEF ToSet
  <1>7. ToSet(t) = ToSet(q) \ {Head(q)}
    BY <1>1, <1>5, <1>6
  <1>8. ASSUME NEW a \in DOMAIN t, NEW b \in DOMAIN t, t[a] = t[b] PROVE a = b
    <2>1. q[a + 1] = q[b + 1] /\ a + 1 \in 1 .. Len(q) /\ b + 1 \in 1 .. Len(q)
      BY <1>1, <1>2, <1>8
    <2>2. a + 1 = b + 1
      BY <1>3, <2>1
    <2>3. QED
      BY <1>1, <2>2
  <1>9. QED
    BY <1>4, <1>7, <1>8 DEF t, IsInjective

\* Taking the head of q to the end of o, and adding p to q, makes o and q in a line
\* longer by p.
LEMMA LineGrows ==
  ASSUME NEW U, NEW o \in Seq(U), NEW q \in Seq(U), q # <<>>, NEW p \in Seq(U)
  PROVE  LET old == o \o q
             new == Append(o, Head(q)) \o (Tail(q) \o p)
         IN  /\ Len(old) \in Nat /\ Len(p) \in Nat
             /\ DOMAIN old = 1 .. Len(old) /\ DOMAIN new = 1 .. Len(old) + Len(p)
             /\ \A k \in 1 .. Len(old) : new[k] = old[k]
             /\ \A k \in 1 .. Len(p) : new[Len(old) + k] = p[k]
  <1> DEFINE old == o \o q
             head == Append(o, Head(q))
             rest == Tail(q) \o p
             new == head \o rest
  <1>1. /\ Head(q) \in U /\ Tail(q) \in Seq(U) /\ Len(q) \in Nat \ {0}
        /\ Head(q) = q[1] /\ Len(Tail(q)) = Len(q) - 1
        /\ \A k \in 1 .. Len(q) - 1 : Tail(q)[k] = q[k + 1]
    BY TailElements
  <1>2. /\ Len(o) \in Nat /\ Len(old) = Len(o) + Len(q) /\ DOMAIN old = 1 .. Len(o) + Len(q)
        /\ \A k \in 1 .. Len(o) : old[k] = o[k]
        /\ \A k \in 1 .. Len(q) : old[Len(o) + k] = q[k]
    BY JoinedElements
  <1>3. /\ head \in Seq(U) /\ Len(head) = Len(o) + 1 /\ head[Len(o) + 1] = Head(q)
        /\ \A k \in 1 .. Len(o) : head[k] = o[k]
    BY <1>1, AppendedElement
  <1>4. /\ rest \in Seq(U) /\ Len(p) \in Nat /\ Len(rest) = Len(q) - 1 + Len(p)
        /\ \A k \in 1 .. Len(q) - 1 : rest[k] = Tail(q)[k]
        /\ \A k \in 1 .. Len(p) : rest[(Len(q) - 1) + k] = p[k]
    BY <1>1, JoinedElements
  <1>5. /\ DOMAIN new = 1 .. Len(head) + Len(rest)
        /\ \A k \in 1 .. Len(head) : new[k] = head[k]
        /\ \A k \in 1 .. Len(rest) : new[Len(head) + k] = rest[k]
    BY <1>3, <1>4, JoinedElements
  <1> HIDE DEF old, head, rest, new
  <1>6. Len(head) + Len(rest) = Len(old) + Len(p)
    BY <1>1, <1>2, <1>3, <1>4
  <1>7. ASSUME NEW k \in 1 .. Len(old) PROVE new[k] = old[k]
    <2>1. CASE k \in 1 .. Len(o)
      <3>1. k \in 1 .. Len(head)
        BY <1>2, <1>3, <2>1
      <3>2. new[k] = head[k] /\ head[k] = o[k] /\ old[k] = o[k]
        BY <1>2, <1>3, <1>5, <2>1, <3>1
      <3>3. QED
        BY <3>2
    <2>2. CASE k = Len(o) + 1
      <3>1. old[Len(o) + 1] = q[1]
        BY <1>1, <1>2
      <3>2. new[Len(o) + 1] = head[Len(o) + 1]
        BY <1>2, <1>3, <1>5
      <3>3. QED
        BY <1>1, <1>3, <2>2, <3>1, <3>2
    <2>3. CASE k > Len(o) + 1
      <3> DEFINE j == k - Len(o) - 1
      <3>1. /\ j \in 1 .. Len(q) - 1 /\ j \in 1 .. Len(rest) /\ j + 1 \in 1 .. Len(q)
            /\ k = Len(head) + j /\ k = Len(o) + (j + 1)
        BY <1>1, <1>2, <1>3, <1>4, <2>3
      <3> HIDE DEF j
      <3>2. new[k] = rest[j] /\ old[k] = q[j + 1]
        BY <1>2, <1>5, <3>1
      <3>3. QED
        BY <1>1, <1>4, <3>1, <3>2
    <2>4. k \in Int /\ 1 <= k /\ Len(o) \in Nat
      BY <1>1, <1>2
    <2>5. k \in 1 .. Len(o) \/ k = Len(o) + 1 \/ k > Len(o) + 1
      BY <2>4
    <2>6. QED
      BY <2>1, <2>2, <2>3, <2>5
  <1>8. ASSUME NEW k \in 1 .. Len(p) PROVE new[Len(old) + k] = p[k]
    <2> DEFINE j == (Len(q) - 1) + k
    <2>1. j \in 1 .. Len(rest) /\ Len(old) + k = Len(head) + j
      BY <1>1, <1>2, <1>3, <1>4
    <2>2. rest[j] = p[k]
      BY <1>4
    <2> HIDE DEF j
    <2>3. QED
      BY <1>5, <2>1, <2>2
  <1>9. Len(old) \in Nat
    BY <1>1, <1>2
  <1>10. QED
    BY <1>2, <1>4, <1>5, <1>6, <1>7, <1>8, <1>9 DEF old, new, head, rest

-----------------------------------------------------------------------------
(***************************************************************************)
(* With a queue.                                                           *)
(***************************************************************************)
LEMMA CallersAreNodes == \A n : Callers(n) \in SUBSET Nodes
  BY DEF Callers

\* Of the nodes handed out, every caller is handed out before.
LEMMA HandedOutAfterCallers ==
  ASSUME IInv, of # "waves", pc = "kahn", NEW n \in ToSet(order)
  PROVE  Callers(n) \subseteq ToSet(order)
  <1>1. \A k \in DOMAIN order : \A m \in Callers(order[k]) : \E i \in 1 .. k - 1 : order[i] = m
    BY DEF IInv, FirstFreedFirst
  <1>2. PICK k \in DOMAIN order : order[k] = n
    BY DEF ToSet
  <1>3. order \in Seq(Nodes) /\ DOMAIN order = 1 .. Len(order) /\ Len(order) \in Nat
    BY DEF IInv, TypeOK
  <1>4. ASSUME NEW m \in Callers(n) PROVE m \in ToSet(order)
    <2>1. PICK i \in 1 .. k - 1 : order[i] = m
      BY <1>1, <1>2
    <2>2. i \in DOMAIN order
      BY <1>2, <1>3
    <2>3. QED
      BY <2>1, <2>2 DEF ToSet
  <1>5. QED
    BY <1>4

\* The head of the queue: all of its callers are out, and what it frees are the
\* nodes whose last caller it is.
LEMMA HeadOfQueue ==
  ASSUME IInv, of # "waves", pc = "kahn", queue # <<>>
  PROVE  /\ Head(queue) \in Nodes \ ToSet(order)
         /\ Callers(Head(queue)) \subseteq ToSet(order)
         /\ ToSet(Tail(queue)) = ToSet(queue) \ {Head(queue)}
         /\ IsInjective(Tail(queue))
         /\ Freed \subseteq Nodes
         /\ \A n \in Nodes : n \in Freed <=>
              Head(queue) \in Callers(n) /\ Callers(n) \subseteq ToSet(order) \union {Head(queue)}
         /\ \A n \in Nodes :
              Cardinality(Callers(n) \ (ToSet(order) \union {Head(queue)})) =
                IF n \in edges[Head(queue)] THEN inDegree[n] - 1 ELSE inDegree[n]
  <1> DEFINE h == Head(queue)
             out == ToSet(order)
  <1>1. /\ queue \in Seq(Nodes) /\ IsInjective(queue)
        /\ ToSet(queue) = {n \in Nodes \ out : Callers(n) \subseteq out}
    BY DEF IInv, TypeOK, QueueIsReady, Emitted
  <1>2. /\ h \in ToSet(queue) /\ ToSet(Tail(queue)) = ToSet(queue) \ {h}
        /\ IsInjective(Tail(queue))
    BY <1>1, TailSet
  <1>3. /\ edges \in [Nodes -> SUBSET Nodes] /\ inDegree \in [Nodes -> Nat]
        /\ \A n \in Nodes : inDegree[n] = Cardinality(Callers(n) \ out)
    BY DEF IInv, TypeOK, InDegreeExact, CallGraphs, Emitted
  <1> HIDE DEF h, out
  <1>4. h \in Nodes \ out /\ Callers(h) \subseteq out
    BY <1>1, <1>2
  <1>5. \A n : h \in Callers(n) <=> n \in edges[h]
    BY <1>4 DEF Callers
  <1>6. ASSUME NEW n \in Nodes
        PROVE  /\ Cardinality(Callers(n) \ (out \union {h})) \in Nat
               /\ Cardinality(Callers(n) \ (out \union {h})) =
                    IF n \in edges[h] THEN inDegree[n] - 1 ELSE inDegree[n]
    <2> DEFINE rest == Callers(n) \ out
    <2>1. rest \in SUBSET Nodes /\ Callers(n) \ (out \union {h}) = rest \ {h}
      BY CallersAreNodes
    <2>2. IsFiniteSet(rest) /\ rest \ {h} \in SUBSET Nodes
      BY <2>1, SomeNodes
    <2>3. h \in rest <=> n \in edges[h]
      BY <1>4, <1>5
    <2>4. inDegree[n] = Cardinality(rest)
      BY <1>3
    <2> HIDE DEF rest
    <2>5. Cardinality(rest \ {h}) = IF h \in rest THEN Cardinality(rest) - 1 ELSE Cardinality(rest)
      BY <2>2, FS_RemoveElement
    <2>6. Cardinality(rest \ {h}) \in Nat
      BY <2>2, SomeNodes
    <2>7. QED
      BY <2>1, <2>3, <2>4, <2>5, <2>6
  <1>7. ASSUME NEW n \in Nodes
        PROVE  n \in Freed <=> h \in Callers(n) /\ Callers(n) \subseteq out \union {h}
    <2> DEFINE left == Callers(n) \ (out \union {h})
    <2>1. n \in Freed <=> n \in edges[h] /\ inDegree[n] = 1
      BY DEF Freed, h
    <2>2. left \in SUBSET Nodes /\ (left = {} <=> Callers(n) \subseteq out \union {h})
      BY CallersAreNodes
    <2>3. Cardinality(left) = IF n \in edges[h] THEN inDegree[n] - 1 ELSE inDegree[n]
      BY <1>6
    <2> HIDE DEF left
    <2>4. Cardinality(left) = 0 <=> left = {}
      BY <2>2, SomeNodes
    <2>5. inDegree[n] \in Nat
      BY <1>3
    <2>6. n \in edges[h] => (inDegree[n] = 1 <=> left = {})
      BY <2>3, <2>4, <2>5
    <2>7. QED
      BY <1>5, <2>1, <2>2, <2>6
  <1>8. Freed \subseteq Nodes
    BY <1>3, <1>4 DEF Freed, h
  <1>9. QED
    BY <1>2, <1>4, <1>6, <1>7, <1>8 DEF h, out

\* A node is popped and what it frees is pushed, in whatever order.
LEMMA PopPreserves ==
  ASSUME IInv, of # "waves", PopHead, NEW p \in SetToSeqs(Freed), queue' = Tail(queue) \o p
  PROVE  IInv'
  <1> DEFINE h == Head(queue)
             out == ToSet(order)
             line == order \o queue
  <1>1. /\ pc = "kahn" /\ pc' = pc /\ queue # <<>> /\ of' = of /\ edges' = edges
        /\ remaining' = remaining /\ waves' = waves /\ waves = <<>>
        /\ order' = Append(order, h)
        /\ inDegree' = [n \in Nodes |-> IF n \in edges[h] THEN inDegree[n] - 1 ELSE inDegree[n]]
        /\ queue' = Tail(queue) \o p
    BY DEF PopHead, IInv
  <1>2. /\ of \in {"functions", "modules", "waves"} /\ edges \in CallGraphs(Nodes)
        /\ queue \in Seq(Nodes) /\ order \in Seq(Nodes) /\ remaining \subseteq Nodes
        /\ waves \in Seq(SUBSET Nodes)
        /\ \A n \in Nodes : n \notin edges[n]
    BY DEF IInv, TypeOK, CallGraphs
  <1>3. /\ h \in Nodes \ out /\ Callers(h) \subseteq out
        /\ ToSet(Tail(queue)) = ToSet(queue) \ {h} /\ IsInjective(Tail(queue))
        /\ Freed \in SUBSET Nodes
        /\ \A n \in Nodes : n \in Freed <=> h \in Callers(n) /\ Callers(n) \subseteq out \union {h}
        /\ \A n \in Nodes : Cardinality(Callers(n) \ (out \union {h})) =
                              IF n \in edges[h] THEN inDegree[n] - 1 ELSE inDegree[n]
    BY <1>1, HeadOfQueue
  <1>4. p \in Seq(Nodes) /\ IsInjective(p) /\ ToSet(p) = Freed
    BY <1>3, SequenceOfSet
  <1>5. /\ ToSet(queue) = {n \in Nodes \ out : Callers(n) \subseteq out}
        /\ IsInjective(queue) /\ IsInjective(order)
    BY <1>1 DEF IInv, QueueIsReady, Emitted
  <1>6. \A n \in out : Callers(n) \subseteq out
    BY <1>1, HandedOutAfterCallers
  <1>7. /\ \A k \in DOMAIN order : \A n \in Callers(order[k]) : \E i \in 1 .. k - 1 : order[i] = n
        /\ \A k \in DOMAIN line : \A j \in 1 .. k - 1 : \A i \in DOMAIN order :
             line[j] \in edges[order[i]] =>
               \E g \in DOMAIN order : i <= g /\ line[k] \in edges[order[g]]
    BY <1>1 DEF IInv, FirstFreedFirst
  <1>8. \A n : Callers(n)' = Callers(n) /\ Callers(n) \in SUBSET Nodes
    BY <1>1 DEF Callers
  <1>9. Emitted = out /\ Emitted' = out \union {h}
    <2>1. ToSet(order') = out \union {h}
      BY <1>1, <1>2, <1>3, AppendedSet
    <2>2. QED
      BY <1>1, <2>1 DEF Emitted
  <1>10. Tail(queue) \in Seq(Nodes)
    BY <1>1, <1>2, TailElements
  <1>11. TypeOK'
    <2>1. order' \in Seq(Nodes)
      BY <1>1, <1>2, <1>3, AppendedElement
    <2>2. queue' \in Seq(Nodes)
      BY <1>1, <1>4, <1>10, JoinedElements
    <2>3. \A n \in Nodes : (IF n \in edges[h] THEN inDegree[n] - 1 ELSE inDegree[n]) \in Nat
      <3> SUFFICES ASSUME NEW n \in Nodes
                   PROVE  (IF n \in edges[h] THEN inDegree[n] - 1 ELSE inDegree[n]) \in Nat
        OBVIOUS
      <3>1. Callers(n) \ (out \union {h}) \in SUBSET Nodes
        BY <1>8
      <3>2. QED
        BY <1>3, <3>1, SomeNodes
    <2> HIDE DEF h
    <2>4. inDegree' \in [Nodes -> Nat]
      BY <1>1, <2>3
    <2>5. QED
      BY <1>1, <1>2, <2>1, <2>2, <2>4 DEF TypeOK
  <1> HIDE DEF h, out, line
  <1>12. InDegreeExact'
    <2>1. \A n \in Nodes : inDegree'[n] = Cardinality(Callers(n) \ (out \union {h}))
      BY <1>1, <1>3
    <2>2. QED
      BY <1>8, <1>9, <2>1 DEF InDegreeExact
  <1>13. \A n \in Freed : n \notin ToSet(queue) /\ n \notin out /\ n # h
    BY <1>2, <1>3, <1>5, <1>6
  <1>14. QueueIsReady'
    <2>1. ToSet(queue') = ToSet(Tail(queue)) \union Freed
      BY <1>1, <1>4, <1>10, JoinedSet
    <2>2. ToSet(queue') = {n \in Nodes \ (out \union {h}) : Callers(n) \subseteq out \union {h}}
      <3>1. ASSUME NEW n \in ToSet(queue')
            PROVE  n \in Nodes \ (out \union {h}) /\ Callers(n) \subseteq out \union {h}
        BY <1>3, <1>5, <1>13, <2>1
      <3>2. ASSUME NEW n \in Nodes \ (out \union {h}), Callers(n) \subseteq out \union {h}
            PROVE  n \in ToSet(queue')
        BY <1>3, <1>5, <2>1, <3>2
      <3>3. QED
        BY <3>1, <3>2
    <2>3. IsInjective(queue')
      <3>1. ToSet(Tail(queue)) \intersect ToSet(p) = {}
        BY <1>3, <1>4, <1>13
      <3>2. IsInjective(Tail(queue)) /\ IsInjective(p) /\ p \in Seq(Nodes)
        BY <1>3, <1>4
      <3>3. IsInjective(Tail(queue) \o p)
        BY ONLY <1>10, <3>1, <3>2, JoinedInjective
      <3>4. QED
        BY <1>1, <3>3
    <2>4. IsInjective(order')
      BY <1>1, <1>2, <1>3, <1>5, AppendedInjective DEF out
    <2>5. QED
      BY <1>8, <1>9, <2>2, <2>3, <2>4 DEF QueueIsReady
  <1>15. /\ Len(order) \in Nat /\ DOMAIN order = 1 .. Len(order)
         /\ DOMAIN order' = 1 .. Len(order) + 1
         /\ order'[Len(order) + 1] = h
         /\ \A k \in 1 .. Len(order) : order'[k] = order[k]
    BY <1>1, <1>2, <1>3, AppendedElement
  <1>16. \A k \in DOMAIN order' : \A n \in Callers(order'[k]) : \E i \in 1 .. k - 1 : order'[i] = n
    <2> SUFFICES ASSUME NEW k \in DOMAIN order', NEW n \in Callers(order'[k])
                 PROVE  \E i \in 1 .. k - 1 : order'[i] = n
      OBVIOUS
    <2>1. CASE k = Len(order) + 1
      <3>1. n \in out
        BY <1>3, <1>15, <2>1
      <3>2. PICK i \in 1 .. Len(order) : order[i] = n
        BY <1>15, <3>1 DEF out, ToSet
      <3>3. i \in 1 .. k - 1 /\ order'[i] = n
        BY <1>15, <2>1, <3>2
      <3>4. QED
        BY <3>3
    <2>2. CASE k # Len(order) + 1
      <3>1. k \in DOMAIN order /\ order'[k] = order[k]
        BY <1>15, <2>2
      <3>2. PICK i \in 1 .. k - 1 : order[i] = n
        BY <1>7, <3>1
      <3>3. i \in 1 .. Len(order)
        BY <1>15, <3>1, <3>2
      <3>4. QED
        BY <1>15, <3>2, <3>3
    <2>3. QED
      BY <2>1, <2>2
  <1> DEFINE longer == order' \o queue'
  <1>17. /\ Len(line) \in Nat /\ Len(p) \in Nat
         /\ DOMAIN line = 1 .. Len(line) /\ DOMAIN longer = 1 .. Len(line) + Len(p)
         /\ \A k \in 1 .. Len(line) : longer[k] = line[k]
         /\ \A k \in 1 .. Len(p) : longer[Len(line) + k] = p[k]
    <2> DEFINE new == Append(order, Head(queue)) \o (Tail(queue) \o p)
    <2>1. longer = new
      BY <1>1 DEF h
    <2>2. order \in Seq(Nodes) /\ queue \in Seq(Nodes) /\ queue # <<>> /\ p \in Seq(Nodes)
      BY <1>1, <1>2, <1>4
    <2>3. /\ Len(line) \in Nat /\ Len(p) \in Nat
          /\ DOMAIN line = 1 .. Len(line) /\ DOMAIN new = 1 .. Len(line) + Len(p)
          /\ \A k \in 1 .. Len(line) : new[k] = line[k]
          /\ \A k \in 1 .. Len(p) : new[Len(line) + k] = p[k]
      BY ONLY <2>2, LineGrows DEF line
    <2> HIDE DEF new, longer
    <2>4. QED
      BY <2>1, <2>3
  <1> HIDE DEF longer
  <1>18. ASSUME NEW j \in 1 .. Len(line) PROVE Callers(line[j]) \subseteq out
    <2>1. line[j] \in ToSet(line)
      BY <1>17 DEF ToSet
    <2>2. ToSet(line) = out \union ToSet(queue)
      BY <1>2, JoinedSet DEF line, out
    <2>3. QED
      BY <1>5, <1>6, <2>1, <2>2
  <1>19. ASSUME NEW k \in DOMAIN longer, NEW j \in 1 .. k - 1, NEW i \in DOMAIN order',
                longer[j] \in edges[order'[i]]
         PROVE  \E g \in DOMAIN order' : i <= g /\ longer[k] \in edges[order'[g]]
    <2>1. CASE k \in 1 .. Len(line)
      <3>1. j \in 1 .. Len(line) /\ longer[j] = line[j] /\ longer[k] = line[k]
        BY <1>17, <2>1
      <3>2. h \notin Callers(line[j])
        BY <1>3, <1>18, <3>1
      <3>3. line[j] \notin edges[h]
        BY <1>3, <3>2 DEF Callers
      <3>4. i # Len(order) + 1
        BY <1>15, <1>19, <3>1, <3>3
      <3>5. i \in DOMAIN order /\ order'[i] = order[i]
        BY <1>15, <3>4
      <3>6. PICK g \in DOMAIN order : i <= g /\ line[k] \in edges[order[g]]
        BY <1>7, <1>17, <1>19, <2>1, <3>1, <3>5
      <3>7. g \in DOMAIN order' /\ order'[g] = order[g]
        BY <1>15
      <3>8. QED
        BY <3>1, <3>6, <3>7
    <2>2. CASE k \notin 1 .. Len(line)
      <3>1. k - Len(line) \in 1 .. Len(p) /\ k = Len(line) + (k - Len(line))
        BY <1>17, <2>2
      <3>2. longer[k] = p[k - Len(line)]
        BY <1>17, <3>1
      <3>3. p[k - Len(line)] \in Freed
        <4>1. DOMAIN p = 1 .. Len(p)
          BY <1>4
        <4>2. QED
          BY <1>4, <3>1, <4>1 DEF ToSet
      <3>4. longer[k] \in edges[h]
        BY <3>2, <3>3 DEF Freed, h
      <3>5. Len(order) + 1 \in DOMAIN order' /\ i <= Len(order) + 1
        BY <1>15
      <3>6. QED
        BY <1>15, <3>4, <3>5
    <2>3. QED
      BY <2>1, <2>2
  <1>20. FirstFreedFirst'
    BY <1>1, <1>8, <1>16, <1>19 DEF FirstFreedFirst, longer
  <1>21. WavesInv' /\ SameWaveIndependent' /\ (of' # "waves" => waves' = <<>>)
    BY <1>1 DEF WavesInv, SameWaveIndependent
  <1>22. QED
    BY <1>11, <1>12, <1>14, <1>20, <1>21 DEF IInv

\* The end of a queue leaves nothing ready.
LEMMA CompletePreserves ==
  ASSUME IInv, of # "waves", NEW all \in Seq(Nodes), Complete(all)
  PROVE  IInv'
  <1>1. /\ pc' = "done" /\ of' = of /\ edges' = edges /\ inDegree' = inDegree /\ queue' = queue
        /\ remaining' = remaining /\ waves' = waves /\ waves = <<>> /\ order' = all
    BY DEF Complete, IInv
  <1>2. TypeOK'
    BY <1>1 DEF IInv, TypeOK
  <1>3. InDegreeExact' /\ QueueIsReady' /\ FirstFreedFirst' /\ WavesInv' /\ SameWaveIndependent'
    BY <1>1 DEF InDegreeExact, QueueIsReady, FirstFreedFirst, WavesInv, SameWaveIndependent
  <1>4. QED
    BY <1>1, <1>2, <1>3 DEF IInv

LEMMA SortedIsASeq ==
  ASSUME NEW S \in SUBSET Nodes
  PROVE  Sorted(S) \in Seq(Nodes) /\ IsInjective(Sorted(S)) /\ ToSet(Sorted(S)) = S
  BY SortedIsASequence, SequenceOfSet

-----------------------------------------------------------------------------
(***************************************************************************)
(* By levels.                                                              *)
(***************************************************************************)
\* Appending a set to a sequence of sets adds it to their union.
LEMMA AppendedUnion ==
  ASSUME NEW U, NEW s \in Seq(SUBSET U), NEW S \in SUBSET U
  PROVE  UNION {Append(s, S)[k] : k \in DOMAIN Append(s, S)} =
           (UNION {s[k] : k \in DOMAIN s}) \union S
  <1>1. ToSet(Append(s, S)) = ToSet(s) \union {S}
    BY AppendedSet
  <1>2. QED
    BY <1>1 DEF ToSet

\* A degree is zero when no caller remains.
LEMMA ZeroDegree ==
  ASSUME IInv, of = "waves", pc = "kahn", NEW m \in Nodes
  PROVE  inDegree[m] = 0 <=> Callers(m) \intersect remaining = {}
  <1>1. remaining = Nodes \ InWaves /\ inDegree[m] = Cardinality(Callers(m) \ InWaves)
    BY DEF IInv, WavesInv, InDegreeExact, Emitted
  <1>2. Callers(m) \ InWaves = Callers(m) \intersect remaining
    BY <1>1, CallersAreNodes
  <1>3. Callers(m) \ InWaves \in SUBSET Nodes
    BY CallersAreNodes
  <1>4. QED
    BY <1>1, <1>2, <1>3, SomeNodes

LEMMA NextWavePreserves == IInv /\ NextWave => IInv'
  <1> SUFFICES ASSUME IInv, NextWave PROVE IInv'
    OBVIOUS
  <1>1. /\ pc = "kahn" /\ pc' = "kahn" /\ of = "waves" /\ of' = "waves" /\ edges' = edges
        /\ waves' = Append(waves, Wave) /\ remaining' = remaining \ Wave
        /\ inDegree' = Decremented
        /\ queue' = queue /\ order' = order /\ queue = <<>> /\ order = <<>>
        /\ Wave \subseteq remaining /\ Wave \in SUBSET Nodes
        /\ waves \in Seq(SUBSET Nodes)
    BY DEF NextWave, Wave, IInv, TypeOK, WavesInv
  <1>2. \A m : Callers(m)' = Callers(m) /\ Callers(m) \in SUBSET Nodes
    BY <1>1 DEF Callers
  <1>3. /\ remaining = Nodes \ InWaves
        /\ \A k \in DOMAIN waves : \A m \in waves[k] : Callers(m) \intersect waves[k] = {}
        /\ \A m \in Nodes : inDegree[m] = Cardinality(Callers(m) \ InWaves)
    BY <1>1 DEF IInv, WavesInv, InDegreeExact, Emitted
  <1>4. InWaves' = InWaves \union Wave
    BY <1>1, AppendedUnion DEF InWaves
  <1>5. ASSUME NEW m \in Nodes
        PROVE  Decremented[m] = Cardinality(Callers(m) \ (InWaves \union Wave))
    <2> DEFINE S == Callers(m) \ InWaves
               T == {i \in Wave : m \in edges[i]}
    <2>1. S \in SUBSET Nodes /\ T \subseteq S
      BY <1>1, <1>3 DEF Callers
    <2>2. S \ T = Callers(m) \ (InWaves \union Wave)
      BY <1>1 DEF Callers
    <2>3. IsFiniteSet(S)
      BY <2>1, SomeNodes
    <2>4. S \intersect T = T
      BY <2>1
    <2>5. Cardinality(S \ T) = Cardinality(S) - Cardinality(T)
      BY <2>3, <2>4, FS_Difference
    <2>6. inDegree[m] = Cardinality(S)
      BY <1>3
    <2>7. QED
      BY <2>2, <2>5, <2>6 DEF Decremented
  <1>6. TypeOK'
    <2>1. ASSUME NEW m \in Nodes PROVE Decremented[m] \in Nat
      <3>1. Callers(m) \ (InWaves \union Wave) \in SUBSET Nodes
        BY <1>2
      <3>2. QED
        BY <1>5, <3>1, SomeNodes
    <2>2. Decremented \in [Nodes -> Nat]
      BY <2>1 DEF Decremented
    <2>3. waves' \in Seq(SUBSET Nodes)
      BY <1>1
    <2>4. QED
      BY <1>1, <2>2, <2>3 DEF IInv, TypeOK
  <1>7. InDegreeExact'
    BY <1>1, <1>2, <1>4, <1>5 DEF InDegreeExact, Emitted
  <1>8. \A m \in Wave : Callers(m) \intersect Wave = {}
    BY <1>1, ZeroDegree DEF Wave
  <1>9. \A k \in DOMAIN waves' : (k \in DOMAIN waves /\ waves'[k] = waves[k]) \/ waves'[k] = Wave
    BY <1>1
  <1>10. \A k \in DOMAIN waves' : \A m \in waves'[k] : Callers(m) \intersect waves'[k] = {}
    BY <1>3, <1>8, <1>9
  <1>11. remaining' = Nodes \ InWaves'
    BY <1>1, <1>3, <1>4
  <1>12. WavesInv' /\ SameWaveIndependent'
    BY <1>1, <1>2, <1>10, <1>11 DEF WavesInv, SameWaveIndependent
  <1>13. QueueIsReady' /\ FirstFreedFirst'
    BY <1>1 DEF QueueIsReady, FirstFreedFirst
  <1>14. QED
    BY <1>1, <1>6, <1>7, <1>12, <1>13 DEF IInv

LEMMA LeftoverPreserves == IInv /\ Leftover => IInv'
  <1> SUFFICES ASSUME IInv, Leftover PROVE IInv'
    OBVIOUS
  <1>1. /\ pc = "kahn" /\ pc' = "done" /\ of = "waves" /\ of' = "waves" /\ Wave = {}
        /\ edges' = edges /\ inDegree' = inDegree /\ remaining' = remaining
        /\ queue' = queue /\ order' = order /\ queue = <<>> /\ order = <<>>
        /\ remaining \in SUBSET Nodes
        /\ waves \in Seq(SUBSET Nodes)
        /\ waves' = IF remaining # {} THEN Append(waves, remaining) ELSE waves
    BY DEF Leftover, IInv, TypeOK, WavesInv
  <1>2. \A m : Callers(m)' = Callers(m)
    BY <1>1 DEF Callers
  <1>3. waves' \in Seq(SUBSET Nodes)
    BY <1>1
  <1>4. TypeOK'
    BY <1>1, <1>3 DEF IInv, TypeOK
  <1>5. InDegreeExact' /\ QueueIsReady' /\ FirstFreedFirst' /\ WavesInv'
    BY <1>1 DEF InDegreeExact, QueueIsReady, FirstFreedFirst, WavesInv
  <1>6. \A m \in remaining : Callers(m) \intersect remaining # {}
    BY <1>1, ZeroDegree DEF Wave
  <1>7. \A k \in DOMAIN waves : \A m \in waves[k] : Callers(m) \intersect waves[k] = {}
    BY <1>1 DEF IInv, WavesInv
  <1>8. \A k \in DOMAIN waves' :
           \/ k \in DOMAIN waves /\ waves'[k] = waves[k]
           \/ k = Len(waves') /\ waves'[k] = remaining
    BY <1>1
  <1>9. SameWaveIndependent'
    BY <1>1, <1>2, <1>6, <1>7, <1>8 DEF SameWaveIndependent, Deadlocked
  <1>10. QED
    BY <1>1, <1>4, <1>5, <1>9 DEF IInv

-----------------------------------------------------------------------------
(***************************************************************************)
(* The inductive invariant.                                                *)
(***************************************************************************)
LEMMA InitEstablishes == Init => IInv
  <1> SUFFICES ASSUME Init PROVE IInv
    OBVIOUS
  <1>1. /\ pc = "kahn" /\ of \in {"functions", "modules", "waves"}
        /\ inDegree = Degrees /\ order = <<>> /\ waves = <<>>
        /\ queue = IF of = "waves" THEN <<>> ELSE Sorted(Roots)
        /\ remaining = IF of = "waves" THEN Nodes ELSE {}
    BY DEF Init
  <1>2. edges \in CallGraphs(Nodes)
    <2>1. CASE of = "functions"
      <3>1. PICK calls \in CallGraphs(Nodes), file \in [Nodes -> Nodes] :
                   edges = OfDirectory(calls, file)
        BY <2>1 DEF Init
      <3>2. calls \in [Nodes -> SUBSET Nodes]
        BY DEF CallGraphs
      <3>3. \A n \in Nodes :
              (UNION {calls[m] : m \in {k \in Nodes : file[k] = file[n]}}) \ {n} \in SUBSET (Nodes \ {n})
        BY <3>2
      <3>4. QED
        BY <3>1, <3>3 DEF OfDirectory, CallGraphs
    <2>2. CASE of # "functions"
      <3>1. PICK calls \in CallGraphs(Functions), owner \in [Functions -> Nodes] :
                   edges = ModDeps(calls, owner)
        BY <2>2 DEF Init
      <3>2. calls \in [Functions -> SUBSET Functions]
        BY DEF CallGraphs
      <3>3. \A m \in Nodes :
              {owner[g] : g \in UNION {calls[f] : f \in {h \in Functions : owner[h] = m}}} \ {m}
                \in SUBSET (Nodes \ {m})
        BY <3>2
      <3>4. QED
        BY <3>1, <3>3 DEF ModDeps, CallGraphs
    <2>3. QED
      BY <2>1, <2>2
  <1>3. Degrees \in [Nodes -> Nat]
    BY CallersAreNodes, SomeNodes DEF Degrees
  <1>4. Roots \in SUBSET Nodes /\ \A n \in Nodes : n \in Roots <=> Callers(n) = {}
    BY CallersAreNodes, SomeNodes DEF Roots, Degrees
  <1>5. Sorted(Roots) \in Seq(Nodes) /\ IsInjective(Sorted(Roots)) /\ ToSet(Sorted(Roots)) = Roots
    BY <1>4, SortedIsASeq
  <1>6. TypeOK
    BY <1>1, <1>2, <1>3, <1>5 DEF TypeOK
  <1>7. Emitted = {} /\ InWaves = {} /\ ToSet(order) = {} /\ IsInjective(order) /\ DOMAIN order = {}
    BY <1>1 DEF Emitted, InWaves, ToSet, IsInjective
  <1>8. InDegreeExact
    BY <1>1, <1>7 DEF InDegreeExact, Degrees
  <1>9. QueueIsReady
    <2>1. Roots = {n \in Nodes \ {} : Callers(n) \subseteq {}}
      BY <1>4
    <2>2. QED
      BY <1>1, <1>5, <1>7, <2>1 DEF QueueIsReady
  <1>10. FirstFreedFirst
    BY <1>7 DEF FirstFreedFirst
  <1>11. WavesInv /\ SameWaveIndependent
    BY <1>1, <1>7 DEF WavesInv, SameWaveIndependent
  <1>12. QED
    BY <1>1, <1>6, <1>8, <1>9, <1>10, <1>11 DEF IInv

\* What PopFunction and PopModule push is what is freed, in some order.
LEMMA Pushes ==
  ASSUME IInv, PopFunction \/ PopModule
  PROVE  /\ of # "waves" /\ PopHead
         /\ \E p \in SetToSeqs(Freed) : queue' = Tail(queue) \o p
  <1>1. of # "waves" /\ PopHead
    BY DEF PopFunction, PopModule
  <1>2. Freed \in SUBSET Nodes
    BY <1>1, HeadOfQueue DEF PopHead
  <1>3. Sorted(Freed) \in SetToSeqs(Freed)
    BY <1>2, SortedIsASequence
  <1>4. QED
    BY <1>1, <1>3 DEF PopFunction, PopModule

\* The order that a queue is completed to: as it is, or with every node.
LEMMA Completes ==
  ASSUME IInv, CompleteFunctions \/ CompleteModules
  PROVE  \E all \in Seq(Nodes) :
           /\ of # "waves" /\ Complete(all)
           /\ all = order \/ ToSet(all) = Nodes
  <1>1. order \in Seq(Nodes) /\ ToSet(order) \in SUBSET Nodes
    BY DEF IInv, TypeOK, ToSet
  <1>2. CASE CompleteFunctions
    BY <1>1, <1>2, SortedIsASeq DEF CompleteFunctions
  <1>3. CASE CompleteModules
    <2> DEFINE rest == Nodes \ ToSet(order)
               all == order \o Sorted(rest)
    <2>1. Sorted(rest) \in Seq(Nodes) /\ ToSet(Sorted(rest)) = rest
      BY SortedIsASeq
    <2>2. all \in Seq(Nodes) /\ ToSet(all) = Nodes
      <3>1. ToSet(all) = ToSet(order) \union ToSet(Sorted(rest))
        BY <1>1, <2>1, JoinedSet
      <3>2. QED
        BY <1>1, <2>1, <3>1, JoinedElements
    <2>3. of # "waves" /\ Complete(all)
      BY <1>3 DEF CompleteModules
    <2> HIDE DEF all
    <2>4. QED
      BY <2>2, <2>3
  <1>4. QED
    BY <1>2, <1>3

\* The invariant holds of every reachable state.
THEOREM Invariance == Spec => []IInv
  <1>1. IInv /\ [Next]_vars => IInv'
    <2> SUFFICES ASSUME IInv, [Next]_vars PROVE IInv'
      OBVIOUS
    <2>1. CASE PopFunction \/ PopModule
      BY <2>1, Pushes, PopPreserves
    <2>2. CASE CompleteFunctions \/ CompleteModules
      BY <2>2, Completes, CompletePreserves
    <2>3. CASE NextWave
      BY <2>3, NextWavePreserves
    <2>4. CASE Leftover
      BY <2>4, LeftoverPreserves
    <2>5. CASE UNCHANGED vars
      <3>1. /\ pc' = pc /\ of' = of /\ edges' = edges /\ inDegree' = inDegree /\ queue' = queue
            /\ order' = order /\ remaining' = remaining /\ waves' = waves
        BY <2>5 DEF vars
      <3>2. InWaves' = InWaves /\ \A n : Callers(n)' = Callers(n)
        BY <3>1 DEF InWaves, Callers
      <3>3. Emitted' = Emitted
        BY <3>1, <3>2 DEF Emitted
      <3>4. TypeOK' /\ InDegreeExact' /\ QueueIsReady'
        BY <3>1, <3>2, <3>3 DEF IInv, TypeOK, InDegreeExact, QueueIsReady
      <3>5. FirstFreedFirst'
        BY <3>1, <3>2 DEF IInv, FirstFreedFirst
      <3>6. WavesInv' /\ SameWaveIndependent'
        BY <3>1, <3>2 DEF IInv, WavesInv, SameWaveIndependent, Deadlocked
      <3>7. QED
        BY <3>1, <3>4, <3>5, <3>6 DEF IInv
    <2>6. QED
      BY <2>1, <2>2, <2>3, <2>4, <2>5 DEF Next, Finished
  <1>2. QED
    BY InitEstablishes, <1>1, PTL DEF Spec

\* in_degree never wraps around and stays the number of callers to come.
THEOREM DegreesExact == Spec => [](TypeOK /\ InDegreeExact)
  <1>1. IInv => TypeOK /\ InDegreeExact
    BY DEF IInv
  <1>2. QED
    BY <1>1, Invariance, PTL

\* Modules of one wave do not call each other, unless they are deadlocked.
THEOREM Independence == Spec => []SameWaveIndependent
  <1>1. IInv => SameWaveIndependent
    BY DEF IInv
  <1>2. QED
    BY <1>1, Invariance, PTL

-----------------------------------------------------------------------------
(***************************************************************************)
(* The schedule.                                                           *)
(***************************************************************************)
\* The nodes in the parts are the nodes handed out.
LEMMA GivenIsEmitted ==
  ASSUME order \in Seq(Nodes)
  PROVE  Order!Given = Emitted
  <1>1. CASE of = "waves"
    BY <1>1 DEF Order!Given, Parts, Emitted, InWaves
  <1>2. CASE of # "waves"
    <2> DEFINE P == [k \in DOMAIN order |-> {order[k]}]
    <2>1. DOMAIN P = DOMAIN order /\ \A k \in DOMAIN order : P[k] = {order[k]}
      OBVIOUS
    <2> HIDE DEF P
    <2>2. UNION {P[k] : k \in DOMAIN P} = {order[k] : k \in DOMAIN order}
      <3>1. ASSUME NEW n PROVE n \in UNION {P[k] : k \in DOMAIN P} <=> n \in {order[k] : k \in DOMAIN order}
        <4>1. n \in UNION {P[k] : k \in DOMAIN P} <=> \E k \in DOMAIN P : n \in P[k]
          OBVIOUS
        <4>2. n \in {order[k] : k \in DOMAIN order} <=> \E k \in DOMAIN order : n = order[k]
          OBVIOUS
        <4>3. \A k \in DOMAIN order : n \in P[k] <=> n = order[k]
          BY <2>1
        <4>4. QED
          BY <2>1, <4>1, <4>2, <4>3
      <3>2. QED
        BY <3>1
    <2>3. Parts = P
      BY <1>2 DEF Parts, P
    <2>4. QED
      BY <1>2, <2>2, <2>3 DEF Order!Given, Emitted, ToSet
  <1>3. QED
    BY <1>1, <1>2

\* A node is ready when it has no caller that is not handed out.
LEMMA ReadyNodes ==
  ASSUME order \in Seq(Nodes), NEW n \in Nodes
  PROVE  Order!Ready(n) <=> Callers(n) \subseteq Emitted
  BY GivenIsEmitted DEF Order!Ready, Callers

\* A node more in the order is a part more.
LEMMA PartAppended ==
  ASSUME of # "waves", of' = of, NEW x \in Nodes, order \in Seq(Nodes), order' = Append(order, x)
  PROVE  Parts' = Append(Parts, {x})
  <1> DEFINE P == [k \in DOMAIN order |-> {order[k]}]
             t == Append(order, x)
             Q == [k \in DOMAIN t |-> {t[k]}]
  <1>1. Parts = P /\ Parts' = Q
    BY DEF Parts
  <1>2. /\ Len(order) \in Nat /\ DOMAIN order = 1 .. Len(order) /\ DOMAIN t = 1 .. Len(order) + 1
        /\ t[Len(order) + 1] = x /\ \A k \in 1 .. Len(order) : t[k] = order[k]
    BY AppendedElement
  <1> HIDE DEF t
  <1>3. P \in Seq(SUBSET Nodes) /\ Len(P) = Len(order) /\ \A k \in 1 .. Len(order) : P[k] = {order[k]}
    <2>1. \A k \in 1 .. Len(order) : {order[k]} \in SUBSET Nodes
      BY <1>2
    <2>2. P \in [1 .. Len(order) -> SUBSET Nodes]
      BY <1>2, <2>1
    <2>3. QED
      BY <1>2, <2>2
  <1>4. /\ DOMAIN Append(P, {x}) = 1 .. Len(order) + 1
        /\ Append(P, {x})[Len(order) + 1] = {x}
        /\ \A k \in 1 .. Len(order) : Append(P, {x})[k] = {order[k]}
        /\ Append(P, {x}) \in Seq(SUBSET Nodes) /\ Len(Append(P, {x})) = Len(order) + 1
    <2> HIDE DEF P
    <2>1. {x} \in SUBSET Nodes
      OBVIOUS
    <2>2. QED
      BY <1>2, <1>3, <2>1, AppendedElement
  <1>5. Append(P, {x}) = [k \in 1 .. Len(order) + 1 |-> Append(P, {x})[k]]
    <2> HIDE DEF P
    <2>1. Append(P, {x}) \in [1 .. Len(order) + 1 -> SUBSET Nodes]
      BY <1>4, SequenceAsFunction
    <2>2. QED
      BY <2>1
  <1>6. \A k \in 1 .. Len(order) + 1 : Append(P, {x})[k] = {t[k]}
    <2> HIDE DEF P
    <2>1. \A k \in 1 .. Len(order) + 1 : k = Len(order) + 1 \/ k \in 1 .. Len(order)
      BY <1>2
    <2>2. QED
      BY <1>2, <1>4, <2>1
  <1>7. Q = Append(P, {x})
    <2>1. Q = [k \in 1 .. Len(order) + 1 |-> {t[k]}]
      BY <1>2
    <2> HIDE DEF P, Q
    <2>2. QED
      BY <1>5, <1>6, <2>1
  <1>8. QED
    BY <1>1, <1>7

\* Sorted nodes come by rank, each by itself.
LEMMA SortedByRank ==
  ASSUME NEW S \in SUBSET Nodes, NEW s,
         DOMAIN s = DOMAIN Sorted(S), \A k \in DOMAIN s : s[k] = {Sorted(S)[k]}
  PROVE  Order!ByRank(s, S)
  <1> DEFINE below(n) == Cardinality({m \in S : m < n})
             rank == [n \in S |-> below(n) + 1]
  <1>1. /\ Sorted(S) \in [1 .. Cardinality(S) -> S] /\ ToSet(Sorted(S)) = S
        /\ Cardinality(S) \in Nat
    BY SomeNodes, SortedIsASequence, SequenceOfSet DEF SetToSeqs
  <1>2. /\ rank \in [S -> 1 .. Cardinality(S)]
        /\ rank \in Surjection(S, 1 .. Cardinality(S))
        /\ \A n \in S : below(n) \in Nat /\ rank[n] = below(n) + 1
        /\ \A m, n \in S : m < n => below(m) < below(n)
    <2>1. rank \in Injection(S, 1 .. Cardinality(S)) /\ rank \in Surjection(S, 1 .. Cardinality(S))
      BY RankIsBijection
    <2>2. \A n \in S : below(n) \in Nat
      BY SomeNodes
    <2>3. \A m, n \in S : m < n => below(m) < below(n)
      BY RankRises
    <2> HIDE DEF below
    <2>4. \A n \in S : rank[n] = below(n) + 1
      OBVIOUS
    <2> HIDE DEF rank
    <2>5. QED
      BY <2>1, <2>2, <2>3, <2>4 DEF Injection
  <1>3. \A k \in 1 .. Cardinality(S) : Sorted(S)[k] = CHOOSE n \in S : below(n) = k - 1
    BY DEF Sorted
  <1> HIDE DEF rank, below
  <1>4. \A k \in 1 .. Cardinality(S) : rank[Sorted(S)[k]] = k
    <2> SUFFICES ASSUME NEW k \in 1 .. Cardinality(S) PROVE rank[Sorted(S)[k]] = k
      OBVIOUS
    <2>1. PICK n \in S : rank[n] = k
      BY <1>2 DEF Surjection
    <2>2. below(n) = k - 1
      BY <1>2, <2>1
    <2>3. below(Sorted(S)[k]) = k - 1
      BY <1>3, <2>2
    <2>4. Sorted(S)[k] \in S
      BY <1>1
    <2>5. QED
      BY <1>2, <2>3, <2>4
  <1>5. \A m, n \in S : rank[m] < rank[n] => m < n
    <2> SUFFICES ASSUME NEW m \in S, NEW n \in S, rank[m] < rank[n] PROVE m < n
      OBVIOUS
    <2>1. m \in Nat /\ n \in Nat
      BY OrderAssumption
    <2>2. CASE m = n
      BY <1>2, <2>2
    <2>3. CASE n < m
      <3>1. rank[n] < rank[m] /\ rank[n] \in Nat /\ rank[m] \in Nat
        BY <1>2, <2>3
      <3>2. QED
        BY <3>1
    <2>4. QED
      BY <2>1, <2>2, <2>3
  <1>6. DOMAIN s = 1 .. Cardinality(S) /\ \A k \in DOMAIN s : Sorted(S)[k] \in S
    BY <1>1
  <1>7. \A n \in S : \E k \in DOMAIN s : s[k] = {n}
    BY <1>1, <1>6 DEF ToSet
  <1>8. \A i, j \in DOMAIN s : i < j => Sorted(S)[i] < Sorted(S)[j]
    BY <1>4, <1>5, <1>6
  <1>9. QED
    BY <1>6, <1>7, <1>8 DEF Order!ByRank

\* A node taken from the queue is ready.
LEMMA PopSchedules ==
  ASSUME IInv, PopFunction \/ PopModule
  PROVE  Order!Next
  <1>1. of # "waves" /\ PopHead
    BY Pushes
  <1>2. /\ pc = "kahn" /\ pc' = "kahn" /\ queue # <<>> /\ of' = of /\ edges' = edges
        /\ order' = Append(order, Head(queue)) /\ order \in Seq(Nodes)
    BY <1>1 DEF PopHead, IInv, TypeOK
  <1>3. Head(queue) \in Nodes \ ToSet(order) /\ Callers(Head(queue)) \subseteq ToSet(order)
    BY <1>1, <1>2, HeadOfQueue
  <1>4. Emitted = ToSet(order) /\ Order!Rest = Nodes \ ToSet(order)
    BY <1>1, <1>2, GivenIsEmitted DEF Emitted, Order!Rest
  <1>5. Order!Ready(Head(queue)) /\ {Head(queue)} \subseteq Order!Rest
    BY <1>2, <1>3, <1>4, ReadyNodes
  <1>6. Parts' = Append(Parts, {Head(queue)})
    BY <1>1, <1>2, <1>3, PartAppended
  <1>7. Order!Emit({Head(queue)})
    BY <1>1, <1>2, <1>5, <1>6 DEF Order!Emit
  <1>8. QED
    BY <1>3, <1>7 DEF Order!Next

\* The nodes that are left when the queue is empty all wait for each other.
LEMMA QueueEmpty ==
  ASSUME IInv, of # "waves", pc = "kahn", queue = <<>>
  PROVE  /\ order \in Seq(Nodes) /\ ToSet(order) \subseteq Nodes
         /\ Order!Rest = Nodes \ ToSet(order)
         /\ \A n \in Order!Rest : ~Order!Ready(n)
  <1>1. order \in Seq(Nodes) /\ ToSet(order) \subseteq Nodes /\ Emitted = ToSet(order)
    BY DEF IInv, TypeOK, ToSet, Emitted
  <1>2. Order!Rest = Nodes \ ToSet(order)
    BY <1>1, GivenIsEmitted DEF Order!Rest
  <1>3. ToSet(queue) = {}
    BY DEF ToSet
  <1>4. ToSet(queue) = {n \in Nodes \ Emitted : Callers(n) \subseteq Emitted}
    BY DEF IInv, QueueIsReady
  <1>5. \A n \in Order!Rest : ~Order!Ready(n)
    BY <1>1, <1>2, <1>3, <1>4, ReadyNodes
  <1>6. QED
    BY <1>1, <1>2, <1>5

\* The order of functions is complete, or given up for the order by rank.
LEMMA FunctionsSchedule ==
  ASSUME IInv, CompleteFunctions
  PROVE  Order!Next
  <1>1. /\ of = "functions" /\ of' = of /\ edges' = edges /\ pc = "kahn" /\ queue = <<>>
        /\ pc' = "done"
        /\ order' = IF ToSet(order) = Nodes THEN order ELSE Sorted(Nodes)
    BY DEF CompleteFunctions, Complete
  <1>2. /\ order \in Seq(Nodes) /\ ToSet(order) \subseteq Nodes
        /\ Order!Rest = Nodes \ ToSet(order)
        /\ \A n \in Order!Rest : ~Order!Ready(n)
    BY <1>1, QueueEmpty
  <1>3. CASE ToSet(order) = Nodes
    <2>1. Order!Rest = {} /\ Parts' = Parts
      BY <1>1, <1>2, <1>3 DEF Parts
    <2>2. Order!Close
      BY <1>1, <2>1 DEF Order!Close
    <2>3. QED
      BY <2>2 DEF Order!Next
  <1>4. CASE ToSet(order) # Nodes
    <2>1. order' = Sorted(Nodes) /\ Order!Rest # {}
      BY <1>1, <1>2, <1>4
    <2>2. DOMAIN Parts' = DOMAIN Sorted(Nodes) /\ \A k \in DOMAIN Parts' : Parts'[k] = {Sorted(Nodes)[k]}
      BY <1>1, <2>1 DEF Parts
    <2>3. Order!ByRank(Parts', Nodes)
      BY <2>2, SortedByRank
    <2>4. Order!GiveUp
      BY <1>1, <1>2, <2>1, <2>3 DEF Order!GiveUp
    <2>5. QED
      BY <2>4 DEF Order!Next
  <1>5. QED
    BY <1>3, <1>4

\* The modules that a cycle leaves follow the order by rank.
LEMMA ModulesSchedule ==
  ASSUME IInv, CompleteModules
  PROVE  Order!Next
  <1> DEFINE rest == Nodes \ ToSet(order)
             tail == Sorted(rest)
             all == order \o tail
  <1>1. /\ of = "modules" /\ of' = of /\ edges' = edges /\ pc = "kahn" /\ queue = <<>>
        /\ pc' = "done" /\ order' = all
    BY DEF CompleteModules, Complete
  <1>2. /\ order \in Seq(Nodes) /\ ToSet(order) \subseteq Nodes
        /\ Order!Rest = rest
        /\ \A n \in Order!Rest : ~Order!Ready(n)
    BY <1>1, QueueEmpty
  <1>3. /\ tail \in Seq(Nodes) /\ tail \in [1 .. Cardinality(rest) -> rest]
        /\ Cardinality(rest) \in Nat /\ (Cardinality(rest) = 0 <=> rest = {})
    BY SomeNodes, SortedIsASeq, SortedIsASequence DEF SetToSeqs
  <1> HIDE DEF rest, tail
  <1>4. /\ Len(order) \in Nat /\ Len(tail) \in Nat
        /\ DOMAIN order = 1 .. Len(order) /\ DOMAIN tail = 1 .. Len(tail)
        /\ DOMAIN all = 1 .. Len(order) + Len(tail)
        /\ \A k \in 1 .. Len(order) : all[k] = order[k]
        /\ \A k \in 1 .. Len(tail) : all[Len(order) + k] = tail[k]
    BY <1>2, <1>3, JoinedElements
  <1> HIDE DEF all
  <1>5. /\ Parts = [k \in 1 .. Len(order) |-> {order[k]}]
        /\ Parts' = [k \in 1 .. Len(order) + Len(tail) |-> {all[k]}]
    BY <1>1, <1>4 DEF Parts
  <1>6. CASE rest = {}
    <2>1. Len(tail) = 0
      BY <1>3, <1>4, <1>6
    <2>2. Parts' = Parts
      BY <1>4, <1>5, <2>1
    <2>3. Order!Close
      BY <1>1, <1>2, <1>6, <2>2 DEF Order!Close
    <2>4. QED
      BY <2>3 DEF Order!Next
  <1>7. CASE rest # {}
    <2>1. Len(Parts) = Len(order) /\ Len(Parts') = Len(order) + Len(tail)
      BY <1>4, <1>5
    <2>2. SubSeq(Parts', 1, Len(order)) = Parts
      <3>1. SubSeq(Parts', 1, Len(order)) = [k \in 1 .. Len(order) |-> Parts'[k]]
        BY <1>4, <1>5
      <3>2. \A k \in 1 .. Len(order) : Parts'[k] = {order[k]}
        BY <1>4, <1>5
      <3>3. QED
        BY <1>5, <3>1, <3>2
    <2> DEFINE last == SubSeq(Parts', Len(order) + 1, Len(order) + Len(tail))
    <2>3. DOMAIN last = DOMAIN tail /\ \A k \in DOMAIN last : last[k] = {tail[k]}
      <3>1. last = [k \in 1 .. (Len(order) + Len(tail)) - (Len(order) + 1) + 1 |-> Parts'[k + (Len(order) + 1) - 1]]
        BY <1>4, <1>5
      <3>2. /\ (Len(order) + Len(tail)) - (Len(order) + 1) + 1 = Len(tail)
            /\ \A k \in 1 .. Len(tail) : /\ k + (Len(order) + 1) - 1 = Len(order) + k
                                         /\ Len(order) + k \in 1 .. Len(order) + Len(tail)
        BY <1>4
      <3>3. \A k \in 1 .. Len(tail) : Parts'[Len(order) + k] = {tail[k]}
        BY <1>4, <1>5, <3>2
      <3>4. QED
        BY <1>4, <3>1, <3>2, <3>3
    <2> HIDE DEF last
    <2>4. rest \in SUBSET Nodes
      BY DEF rest
    <2>5. Order!ByRank(last, rest)
      BY <2>3, <2>4, SortedByRank DEF tail
    <2>6. Order!GiveUp
      <3>1. of # "waves" /\ of # "functions"
        BY <1>1
      <3>2. Len(Parts) <= Len(Parts')
        BY <1>4, <2>1
      <3>3. QED
        BY <1>1, <1>2, <1>7, <2>1, <2>2, <2>5, <3>1, <3>2 DEF Order!GiveUp, last
    <2>7. QED
      BY <2>6 DEF Order!Next
  <1>8. QED
    BY <1>6, <1>7

\* A wave is a set of ready nodes.
LEMMA WaveSchedules ==
  ASSUME IInv, NextWave
  PROVE  Order!Next
  <1>1. /\ pc = "kahn" /\ pc' = "kahn" /\ of = "waves" /\ of' = "waves" /\ edges' = edges
        /\ waves' = Append(waves, Wave) /\ Wave # {} /\ order \in Seq(Nodes)
        /\ Wave \subseteq remaining /\ Wave \in SUBSET Nodes
    BY DEF NextWave, Wave, IInv, TypeOK
  <1>2. remaining = Nodes \ InWaves
    BY <1>1 DEF IInv, WavesInv
  <1>3. Emitted = InWaves /\ Order!Rest = Nodes \ InWaves /\ Parts = waves /\ Parts' = waves'
    BY <1>1, GivenIsEmitted DEF Emitted, Order!Rest, Parts
  <1>4. \A n \in Wave : Callers(n) \subseteq Emitted
    <2> SUFFICES ASSUME NEW n \in Wave PROVE Callers(n) \subseteq Emitted
      OBVIOUS
    <2>1. n \in Nodes /\ Callers(n) \intersect remaining = {}
      BY <1>1, ZeroDegree DEF Wave
    <2>2. QED
      BY <1>2, <1>3, <2>1, CallersAreNodes
  <1>5. Wave \subseteq Order!Rest /\ \A n \in Wave : Order!Ready(n)
    BY <1>1, <1>2, <1>3, <1>4, ReadyNodes
  <1>6. Order!Emit(Wave)
    BY <1>1, <1>3, <1>5 DEF Order!Emit
  <1>7. QED
    BY <1>1, <1>6 DEF Order!Next

\* The last wave is what is left, and all of it waits.
LEMMA LeftoverSchedules ==
  ASSUME IInv, Leftover
  PROVE  Order!Next
  <1>1. /\ pc = "kahn" /\ pc' = "done" /\ of = "waves" /\ of' = "waves" /\ edges' = edges /\ Wave = {}
        /\ remaining \in SUBSET Nodes /\ order \in Seq(Nodes)
        /\ waves' = IF remaining # {} THEN Append(waves, remaining) ELSE waves
    BY DEF Leftover, IInv, TypeOK
  <1>2. Emitted = InWaves /\ Order!Rest = Nodes \ InWaves /\ Parts = waves /\ Parts' = waves'
    BY <1>1, GivenIsEmitted DEF Emitted, Order!Rest, Parts
  <1>3. remaining = Order!Rest
    BY <1>1, <1>2 DEF IInv, WavesInv
  <1>4. CASE remaining = {}
    <2>1. Order!Close
      BY <1>1, <1>2, <1>3, <1>4 DEF Order!Close
    <2>2. QED
      BY <2>1 DEF Order!Next
  <1>5. CASE remaining # {}
    <2>1. \A n \in remaining : ~(Callers(n) \subseteq Emitted)
      <3> SUFFICES ASSUME NEW n \in remaining PROVE ~(Callers(n) \subseteq Emitted)
        OBVIOUS
      <3>1. n \in Nodes /\ Callers(n) \intersect remaining # {}
        BY <1>1, ZeroDegree DEF Wave
      <3>2. remaining \intersect Emitted = {}
        BY <1>2, <1>3
      <3>3. QED
        BY <3>1, <3>2
    <2>2. \A n \in Order!Rest : ~Order!Ready(n)
      BY <1>1, <1>3, <2>1, ReadyNodes
    <2>3. Order!GiveUp
      BY <1>1, <1>2, <1>3, <1>5, <2>2 DEF Order!GiveUp
    <2>4. QED
      BY <2>3 DEF Order!Next
  <1>6. QED
    BY <1>4, <1>5

\* Every form is a schedule, as the sequence that it returns: each step hands out nodes
\* whose callers are out, or ends with all out, or does with the nodes on a cycle what
\* the form does with them.
THEOREM ScheduleImplemented == Spec => ImplementsSchedule
  <1>1. Init => Order!Init
    <2> SUFFICES ASSUME Init PROVE Order!Init
      OBVIOUS
    <2>1. edges \in CallGraphs(Nodes)
      BY InitEstablishes DEF IInv, TypeOK
    <2>2. of \in {"functions", "modules", "waves"} /\ pc = "kahn" /\ order = <<>> /\ waves = <<>>
      BY DEF Init
    <2>3. Parts = <<>>
      BY <2>2 DEF Parts
    <2>4. QED
      BY <2>1, <2>2, <2>3 DEF Order!Init, CallGraphs
  <1>2. IInv /\ [Next]_vars => [Order!Next]_(Order!vars)
    <2> SUFFICES ASSUME IInv, [Next]_vars PROVE [Order!Next]_(Order!vars)
      OBVIOUS
    <2>1. CASE UNCHANGED vars
      <3>1. of' = of /\ edges' = edges /\ Parts' = Parts /\ (pc = "done")' = (pc = "done")
        BY <2>1 DEF vars, Parts
      <3>2. QED
        BY <3>1 DEF Order!vars
    <2>2. QED
      BY <2>1, PopSchedules, FunctionsSchedule, ModulesSchedule, WaveSchedules, LeftoverSchedules
      DEF Next, Finished
  <1>3. QED
    BY <1>1, <1>2, Invariance, PTL DEF Spec, ImplementsSchedule, Order!Safety

-----------------------------------------------------------------------------
(***************************************************************************)
(* Levels.                                                                 *)
(***************************************************************************)
\* Induction over the natural numbers, for a set of them.
Less == {p \in Nat \X Nat : p[1] < p[2]}

LEMMA LessIsWellFounded == IsWellFoundedOn(Less, Nat)
  BY NatLessThanWellFounded DEF OpToRel, Less

LEMMA SetInduction ==
  ASSUME NEW S, 0 \in S, \A n \in Nat : n \in S => n + 1 \in S
  PROVE  Nat \subseteq S
  <1> SUFFICES ASSUME Nat \ S # {} PROVE FALSE
    OBVIOUS
  <1>1. PICK n \in Nat \ S : \A k \in Nat \ S : ~(<<k, n>> \in Less)
    BY LessIsWellFounded, WFMin
  <1>2. n # 0 /\ n - 1 \in Nat /\ (n - 1) + 1 = n
    BY <1>1
  <1>3. <<n - 1, n>> \in Less
    BY <1>2 DEF Less
  <1>4. QED
    BY <1>1, <1>2, <1>3

\* Numbers up to a bound have a largest one.
LEMMA LargestExists ==
  ASSUME NEW n \in Nat, NEW S \in SUBSET (0 .. n), S # {}
  PROVE  \E l \in S : \A h \in S : h <= l
  <1> DEFINE T == {m \in Nat : \A B \in SUBSET (0 .. m) : B # {} => \E l \in B : \A h \in B : h <= l}
  <1>1. 0 \in T
    <2>1. \A B \in SUBSET (0 .. 0) : \A h \in B : h = 0
      OBVIOUS
    <2>2. 0 <= 0
      OBVIOUS
    <2>3. \A B \in SUBSET (0 .. 0) : B # {} => \E l \in B : \A h \in B : h <= l
      BY <2>1, <2>2
    <2>4. QED
      BY <2>3
  <1>2. ASSUME NEW m \in Nat, m \in T PROVE m + 1 \in T
    <2>1. ASSUME NEW B \in SUBSET (0 .. m + 1), B # {} PROVE \E l \in B : \A h \in B : h <= l
      <3>1. CASE m + 1 \in B
        <4>1. \A h \in B : h <= m + 1
          OBVIOUS
        <4>2. QED
          BY <3>1, <4>1
      <3>2. CASE m + 1 \notin B
        <4>1. B \in SUBSET (0 .. m)
          BY <3>2
        <4>2. QED
          BY <1>2, <2>1, <4>1
      <3>3. QED
        BY <3>1, <3>2
    <2>2. QED
      BY <2>1
  <1> HIDE DEF T
  <1>3. n \in T
    BY <1>1, <1>2, SetInduction
  <1>4. QED
    BY <1>3 DEF T

\* The right-hand side of Level, for the k-th node, when f are the levels before.
CallsTo(k) == {i \in 1 .. k - 1 : order[k] \in edges[order[i]]}

OneMore(before) ==
  1 + (IF before = {} THEN 0 ELSE CHOOSE l \in before : \A h \in before : h <= l)

LevelAfter(f, k) == OneMore({f[j] : j \in CallsTo(k)})

Levels(n, f) == f = [k \in 1 .. n |-> LevelAfter(f, k)]

\* One after the last of its callers.
LEMMA LevelAfterLast ==
  ASSUME NEW k \in Nat \ {0}, NEW f, \A j \in 1 .. k - 1 : f[j] \in 1 .. j
  PROVE  /\ LevelAfter(f, k) \in 1 .. k
         /\ \A j \in CallsTo(k) : f[j] + 1 <= LevelAfter(f, k)
         /\ LevelAfter(f, k) = 1 \/ \E j \in CallsTo(k) : LevelAfter(f, k) = f[j] + 1
  <1> DEFINE before == {f[j] : j \in CallsTo(k)}
             last == CHOOSE l \in before : \A h \in before : h <= l
  <1>1. \A j \in CallsTo(k) : j \in 1 .. k - 1 /\ f[j] \in 1 .. k - 1 /\ f[j] \in before
    BY DEF CallsTo
  <1>2. LevelAfter(f, k) = 1 + (IF before = {} THEN 0 ELSE last)
    BY DEF LevelAfter, OneMore
  <1>3. CASE before = {}
    <2>1. CallsTo(k) = {}
      BY <1>1, <1>3
    <2> HIDE DEF before, last
    <2>2. LevelAfter(f, k) = 1
      BY <1>2, <1>3
    <2>3. 1 \in 1 .. k
      OBVIOUS
    <2>4. QED
      BY <2>1, <2>2, <2>3
  <1>4. CASE before # {}
    <2>1. k - 1 \in Nat /\ before \in SUBSET (0 .. k - 1)
      BY <1>1
    <2> HIDE DEF before
    <2>2. \E l \in before : \A h \in before : h <= l
      BY <1>4, <2>1, LargestExists
    <2>3. last \in before /\ \A h \in before : h <= last
      BY <2>2
    <2> HIDE DEF last
    <2>4. PICK j \in CallsTo(k) : last = f[j]
      BY <2>3 DEF before
    <2>5. last \in 1 .. k - 1 /\ LevelAfter(f, k) = 1 + last
      BY <1>1, <1>2, <1>4, <2>4
    <2>6. \A i \in CallsTo(k) : f[i] + 1 <= LevelAfter(f, k)
      BY <1>1, <2>3, <2>5
    <2>7. QED
      BY <2>4, <2>5, <2>6
  <1>5. QED
    BY <1>3, <1>4

LEMMA LevelsType ==
  ASSUME NEW n \in Nat, NEW f, Levels(n, f)
  PROVE  \A k \in 1 .. n : f[k] \in 1 .. k
  <1> DEFINE T == {m \in Nat : \A k \in 1 .. n : k <= m => f[k] \in 1 .. k}
  <1>1. 0 \in T
    OBVIOUS
  <1>2. ASSUME NEW m \in Nat, m \in T PROVE m + 1 \in T
    <2> SUFFICES ASSUME NEW k \in 1 .. n, k = m + 1 PROVE f[k] \in 1 .. k
      BY <1>2
    <2>1. \A j \in 1 .. k - 1 : f[j] \in 1 .. j
      BY <1>2
    <2>2. f[k] = LevelAfter(f, k)
      BY DEF Levels
    <2>3. QED
      BY <2>1, <2>2, LevelAfterLast
  <1> HIDE DEF T
  <1>3. n \in T
    BY <1>1, <1>2, SetInduction
  <1>4. QED
    BY <1>3 DEF T

LEMMA LevelsExist ==
  ASSUME NEW n \in Nat
  PROVE  \E f : Levels(n, f)
  <1> DEFINE T == {m \in Nat : \E f : Levels(m, f)}
  <1>1. 0 \in T
    <2> DEFINE none == [k \in 1 .. 0 |-> 0]
    <2>1. none = [k \in 1 .. 0 |-> LevelAfter(none, k)]
      OBVIOUS
    <2>2. QED
      BY <2>1 DEF Levels
  <1>2. ASSUME NEW m \in Nat, m \in T PROVE m + 1 \in T
    <2>1. PICK f : Levels(m, f)
      BY <1>2
    <2> DEFINE g == [k \in 1 .. m + 1 |-> LevelAfter(f, k)]
    <2>2. ASSUME NEW j \in 1 .. m PROVE g[j] = f[j]
      BY <2>1 DEF Levels
    <2> HIDE DEF g
    <2>3. ASSUME NEW k \in 1 .. m + 1 PROVE LevelAfter(f, k) = LevelAfter(g, k)
      <3>1. \A j \in CallsTo(k) : g[j] = f[j]
        BY <2>2 DEF CallsTo
      <3>2. {g[j] : j \in CallsTo(k)} = {f[j] : j \in CallsTo(k)}
        BY <3>1
      <3>3. QED
        BY <3>2 DEF LevelAfter
    <2>4. g = [k \in 1 .. m + 1 |-> LevelAfter(g, k)]
      BY <2>3 DEF g
    <2>5. QED
      BY <2>4 DEF Levels
  <1> HIDE DEF T
  <1>3. n \in T
    BY <1>1, <1>2, SetInduction
  <1>4. QED
    BY <1>3 DEF T

\* The recursive function Level is what its definition says.
LEMMA LevelIsLevels == Len(order) \in Nat => Levels(Len(order), Level)
  <1> SUFFICES ASSUME Len(order) \in Nat PROVE Levels(Len(order), Level)
    OBVIOUS
  <1> DEFINE level == CHOOSE f : f = [k \in 1 .. Len(order) |-> LevelAfter(f, k)]
  <1>1. \E f : f = [k \in 1 .. Len(order) |-> LevelAfter(f, k)]
    BY LevelsExist DEF Levels
  <1>2. level = [k \in 1 .. Len(order) |-> LevelAfter(level, k)]
    BY <1>1, Zenon
  <1>3. Level = level
    BY DEF Level, LevelAfter, OneMore, CallsTo
  <1>4. QED
    BY <1>2, <1>3 DEF Levels

\* A node popped after another is not on an earlier level: the last caller of the
\* first was popped no later than a caller of the second.
LEMMA LevelsRise ==
  ASSUME IInv, of # "waves", pc = "kahn"
  PROVE  \A j, k \in DOMAIN order : j <= k => Level[j] <= Level[k]
  <1> DEFINE n == Len(order)
             T == {m \in Nat : \A k \in 1 .. n : k <= m => \A j \in 1 .. k : Level[j] <= Level[k]}
  <1>1. /\ order \in Seq(Nodes) /\ n \in Nat /\ DOMAIN order = 1 .. n
        /\ queue \in Seq(Nodes) /\ IsInjective(order)
    BY DEF IInv, TypeOK, QueueIsReady
  <1>2. /\ \A k \in DOMAIN order : \A c \in Callers(order[k]) : \E i \in 1 .. k - 1 : order[i] = c
        /\ \A k \in DOMAIN (order \o queue) : \A j \in 1 .. k - 1 : \A i \in DOMAIN order :
             (order \o queue)[j] \in edges[order[i]] =>
               \E h \in DOMAIN order : i <= h /\ (order \o queue)[k] \in edges[order[h]]
    BY DEF IInv, FirstFreedFirst
  <1>3. \A k \in 1 .. n : k \in DOMAIN (order \o queue) /\ (order \o queue)[k] = order[k]
    BY <1>1, JoinedElements
  <1>4. Levels(n, Level)
    BY <1>1, LevelIsLevels
  <1>5. \A k \in 1 .. n : Level[k] \in 1 .. k /\ Level[k] = LevelAfter(Level, k)
    <2>1. \A k \in 1 .. n : Level[k] \in 1 .. k
      BY <1>1, <1>4, LevelsType
    <2> DEFINE f == Level
    <2>2. f = [k \in 1 .. n |-> LevelAfter(f, k)]
      BY <1>4 DEF Levels
    <2> HIDE DEF f
    <2>3. \A k \in 1 .. n : f[k] = LevelAfter(f, k)
      BY <2>2
    <2>4. QED
      BY <2>1, <2>3 DEF f
  <1> HIDE DEF n
  <1>6. ASSUME NEW k \in 1 .. n, NEW h \in DOMAIN order, order[k] \in edges[order[h]]
        PROVE  h \in CallsTo(k)
    <2>1. order[h] \in Callers(order[k])
      BY <1>1, <1>6 DEF Callers
    <2>2. PICK i \in 1 .. k - 1 : order[i] = order[h]
      BY <1>1, <1>2, <2>1
    <2>3. i \in DOMAIN order
      BY <1>1, <2>2
    <2>4. i = h
      BY <1>1, <2>2, <2>3 DEF IsInjective
    <2>5. QED
      BY <1>6, <2>2, <2>4 DEF CallsTo
  <1>7. 0 \in T
    OBVIOUS
  <1>8. ASSUME NEW m \in Nat, m \in T PROVE m + 1 \in T
    <2> SUFFICES ASSUME NEW k \in 1 .. n, k = m + 1, NEW j \in 1 .. k PROVE Level[j] <= Level[k]
      BY <1>8
    <2>1. /\ j \in 1 .. n /\ k \in Nat \ {0} /\ j \in Nat \ {0}
          /\ \A i \in 1 .. k - 1 : Level[i] \in 1 .. i
          /\ \A i \in 1 .. j - 1 : Level[i] \in 1 .. i
      BY <1>1, <1>5
    <2>2. Level[k] \in 1 .. k /\ Level[j] \in 1 .. j
      BY <1>5, <2>1
    <2>3. /\ \A h \in CallsTo(k) : Level[h] + 1 <= Level[k]
          /\ Level[j] = 1 \/ \E i \in CallsTo(j) : Level[j] = Level[i] + 1
      BY <1>5, <2>1, LevelAfterLast
    <2>4. CASE j = k
      BY <2>2, <2>4
    <2>5. CASE Level[j] = 1
      BY <2>2, <2>5
    <2>6. CASE j # k /\ Level[j] # 1
      <3>1. PICK i \in CallsTo(j) : Level[j] = Level[i] + 1
        BY <2>3, <2>6
      <3>2. i \in 1 .. j - 1 /\ order[j] \in edges[order[i]] /\ i \in DOMAIN order
        BY <1>1, <2>1, <3>1 DEF CallsTo
      <3>3. PICK h \in DOMAIN order : i <= h /\ order[k] \in edges[order[h]]
        <4>1. j \in 1 .. k - 1
          BY <2>1, <2>6
        <4>2. QED
          BY <1>2, <1>3, <2>1, <3>2, <4>1
      <3>4. h \in CallsTo(k)
        BY <1>6, <3>3
      <3>5. h \in 1 .. k - 1
        BY <3>4 DEF CallsTo
      <3>6. h \in 1 .. n /\ h <= m /\ i \in 1 .. h
        BY <1>1, <3>2, <3>3, <3>5
      <3>7. Level[i] <= Level[h]
        BY <1>8, <3>6
      <3>8. Level[h] + 1 <= Level[k]
        BY <2>3, <3>4
      <3>9. Level[i] \in Nat /\ Level[h] \in Nat /\ Level[k] \in Nat
        BY <1>5, <2>1, <3>5, <3>2
      <3>10. QED
        BY <3>1, <3>7, <3>8, <3>9
    <2>7. QED
      BY <2>4, <2>5, <2>6
  <1> HIDE DEF T
  <1>9. n \in T
    BY <1>1, <1>7, <1>8, SetInduction
  <1>10. QED
    BY <1>1, <1>9 DEF T

\* The queue pops the nodes wave after wave, as module_waves collects them.
THEOREM LevelAfterLevel == Spec => []LevelByLevel
  <1>1. IInv => LevelByLevel
    <2> SUFFICES ASSUME IInv, pc = "kahn", NEW j \in 2 .. Len(order)
                 PROVE  Level[j - 1] <= Level[j]
      BY DEF LevelByLevel
    <2>1. order \in Seq(Nodes) /\ Len(order) \in Nat /\ DOMAIN order = 1 .. Len(order)
      BY DEF IInv, TypeOK
    <2>2. of # "waves"
      <3>1. order # <<>>
        OBVIOUS
      <3>2. QED
        BY <3>1 DEF IInv, WavesInv
    <2>3. j - 1 \in DOMAIN order /\ j \in DOMAIN order /\ j - 1 <= j
      BY <2>1
    <2>4. QED
      BY <2>2, <2>3, LevelsRise
  <1>2. QED
    BY <1>1, Invariance, PTL

=============================================================================
