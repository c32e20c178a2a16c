------------------------- MODULE GraphPassesProofs -------------------------
(***************************************************************************)
(* For every acyclic graph: load_onnx and get_operator_list list each      *)
(* operator once and after what it reads, and preprocess_weights keeps     *)
(* exactly what the operators computed from an input need.                 *)
(***************************************************************************)
EXTENDS GraphPasses, FiniteSetTheorems, SequenceTheorems, WellFoundedInduction, TLAPS

\* A nonempty set of numbers has a least element.
LEMMA Least ==
  ASSUME NEW S, S \subseteq Nat, S # {}
  PROVE  \E m \in S : \A k \in S : m <= k
<1>1. PICK m \in S : \A k \in S : ~ (<<k, m>> \in OpToRel(<, Nat))
  BY NatLessThanWellFounded, WFMin, Zenon
<1>2. \A k \in S : m \in Nat /\ k \in Nat /\ ~ (k < m)
  BY <1>1, Zenon DEF OpToRel
<1> QED BY <1>2

-----------------------------------------------------------------------------
(* Sorted sets *)

Ascending(q, S, n) ==
  q \in [1 .. n -> S] /\ \A j, k \in 1 .. n : j < k => q[j] < q[k]

\* A finite set of guids can be put in order.
LEMMA AscendingExists ==
  ASSUME NEW S \in SUBSET Nat, IsFiniteSet(S)
  PROVE  \E q : Ascending(q, S, Cardinality(S))
<1> DEFINE Sortable(T) == \E q : Ascending(q, T, Cardinality(T))
           F == {T \in SUBSET Nat : IsFiniteSet(T) /\ ~ Sortable(T)}
           N == {Cardinality(T) : T \in F}
<1> SUFFICES ASSUME S \in F PROVE FALSE
  OBVIOUS
<1>1. N \subseteq Nat
  BY FS_CardinalityType, Zenon
<1>2. N # {}
  BY Zenon
<1>3. PICK n \in N : \A k \in N : n <= k
  <2> HIDE DEF N
  <2> QED BY <1>1, <1>2, Least, Zenon
<1>4. PICK T \in F : n = Cardinality(T)
  BY Zenon
<1>5. T \in SUBSET Nat /\ IsFiniteSet(T) /\ ~ Sortable(T) /\ n \in Nat
  BY <1>1, <1>4, Zenon
<1> HIDE DEF N
<1>6. CASE T = {}
  <2>1. n = 0
    BY <1>4, <1>6, FS_EmptySet, Zenon
  <2>2. Ascending(<<>>, T, 0)
    BY DEF Ascending
  <2> QED BY <1>4, <1>5, <2>1, <2>2, Zenon
<1>7. CASE T # {}
  <2>1. PICK x \in T : \A y \in T : x <= y
    BY <1>5, <1>7, Least, Zenon
  <2> DEFINE R == T \ {x}
  <2>2. IsFiniteSet(R) /\ Cardinality(R) = n - 1 /\ R \in SUBSET Nat
    BY <1>4, <1>5, FS_RemoveElement
  <2>3. Cardinality(R) \in Nat
    BY <2>2, FS_CardinalityType, Zenon
  <2>4. ~ (n <= n - 1) /\ n - 1 \in Nat
    BY <1>5, <2>2, <2>3
  <2>5. R \notin F
    <3>1. R \in F => Cardinality(R) \in N
      BY Zenon DEF N
    <3> QED BY <1>3, <2>2, <2>4, <3>1, Zenon
  <2>6. PICK q : Ascending(q, R, n - 1)
    BY <2>2, <2>5, Zenon
  <2> DEFINE p == [j \in 1 .. n |-> IF j = 1 THEN x ELSE q[j - 1]]
  <2> HIDE DEF R, F, Sortable
  <2>7. \A j \in 1 .. n : j # 1 => j - 1 \in 1 .. n - 1
    BY <1>5
  <2>8. \A j \in 1 .. n - 1 : q[j] \in T /\ q[j] # x
    BY <2>6 DEF Ascending, R
  <2>9. p \in [1 .. n -> T]
    BY <2>7, <2>8, Zenon
  <2>10. ASSUME NEW j \in 1 .. n, NEW k \in 1 .. n, j < k PROVE p[j] < p[k]
    <3>1. k # 1
      BY <1>5, <2>10
    <3>2. p[k] = q[k - 1] /\ k - 1 \in 1 .. n - 1
      BY <2>7, <3>1, Zenon
    <3>3. CASE j = 1
      <4>1. p[j] = x /\ x <= p[k] /\ x # p[k] /\ p[k] \in T
        BY <2>1, <2>8, <3>2, <3>3, Zenon
      <4>2. x \in Nat /\ p[k] \in Nat
        BY <1>5, <4>1, Zenon
      <4> HIDE DEF p
      <4> QED BY <4>1, <4>2
    <3>4. CASE j # 1
      <4>1. p[j] = q[j - 1] /\ j - 1 \in 1 .. n - 1
        BY <2>7, <3>4, Zenon
      <4>2. j - 1 < k - 1
        BY <1>5, <2>10
      <4>3. q[j - 1] < q[k - 1]
        BY <2>6, <3>2, <4>1, <4>2, Zenon DEF Ascending
      <4> QED BY <3>2, <4>1, <4>3, Zenon
    <3> QED BY <3>3, <3>4, Zenon
  <2> HIDE DEF p
  <2>11. Ascending(p, T, n)
    BY <2>9, <2>10, Zenon DEF Ascending
  <2> QED BY <1>4, <1>5, <2>11, Zenon DEF Sortable
<1> QED BY <1>6, <1>7, Zenon

\* q lists the elements of S, each once.
Lists(q, S) ==
  /\ q \in Seq(S)
  /\ \A j, k \in 1 .. Len(q) : q[j] = q[k] => j = k
  /\ \A x \in S : \E k \in 1 .. Len(q) : q[k] = x

\* So does Sorted.
LEMMA SortedLists ==
  ASSUME NEW S \in SUBSET Nat, IsFiniteSet(S)
  PROVE  Lists(Sorted(S), S)
<1> DEFINE n == Cardinality(S)
           q == Sorted(S)
<1>1. n \in Nat
  BY FS_CardinalityType, Zenon
<1>2. \E p \in [1 .. n -> S] : \A j, k \in DOMAIN p : j < k => p[j] < p[k]
  <2>1. PICK p : Ascending(p, S, n)
    BY AscendingExists, Zenon
  <2>2. p \in [1 .. n -> S] /\ DOMAIN p = 1 .. n
    BY <2>1, Zenon DEF Ascending
  <2> QED BY <2>1, <2>2, Zenon DEF Ascending
<1>3. q \in [1 .. n -> S] /\ \A j, k \in DOMAIN q : j < k => q[j] < q[k]
  BY <1>2, Zenon DEF Sorted
<1> HIDE DEF q, n
<1>4. DOMAIN q = 1 .. n
  BY <1>3, Zenon
<1>5. q \in Seq(S) /\ Len(q) = n
  BY <1>1, <1>3
<1>6. ASSUME NEW j \in 1 .. n, NEW k \in 1 .. n, q[j] = q[k] PROVE j = k
  <2>1. q[j] \in Nat /\ q[k] \in Nat
    BY <1>3, Zenon
  <2>2. ~ (q[j] < q[k]) /\ ~ (q[k] < q[j])
    BY <1>6, <2>1
  <2>3. ~ (j < k) /\ ~ (k < j)
    BY <1>3, <1>4, <2>2, Zenon
  <2> QED BY <1>1, <2>3
<1>7. q \in Injection(1 .. n, S)
  BY <1>3, <1>6, Zenon DEF Injection, IsInjective
<1>8. IsFiniteSet(1 .. n) /\ Cardinality(1 .. n) = n
  BY <1>1, FS_Interval
<1>9. q \in Surjection(1 .. n, S)
  BY <1>7, <1>8, FS_Injection, Zenon DEF n
<1> QED BY <1>5, <1>6, <1>9, Zenon DEF Lists, Surjection, q

-----------------------------------------------------------------------------
(* The loop over a list *)

\* What the passes need of a graph.
GraphOK(g) ==
  /\ IsFiniteSet(g)
  /\ \A e \in g : e[2] \in Nat \ Preserved
  /\ \A S \in SUBSET Ops(g) :
       S # {} => \E op \in S : \A e \in g : e[2] = op => e[1] \notin S

\* Its operators are finitely many guids.
LEMMA OpsFinite ==
  ASSUME NEW g, GraphOK(g)
  PROVE  IsFiniteSet(Ops(g)) /\ Ops(g) \in SUBSET Nat
<1> DEFINE f == [e \in g |-> e[2]]
<1>1. f \in Surjection(g, Ops(g))
  <2>1. f \in [g -> Ops(g)]
    BY Zenon DEF Ops
  <2>2. \A x \in Ops(g) : \E e \in g : f[e] = x
    BY Zenon DEF Ops
  <2> HIDE DEF f
  <2> QED BY <2>1, <2>2, Zenon DEF Surjection
<1> HIDE DEF f
<1>2. IsFiniteSet(Ops(g))
  BY <1>1, FS_Surjection, Zenon DEF GraphOK
<1>3. Ops(g) \in SUBSET Nat
  BY Zenon DEF GraphOK, Ops
<1> QED BY <1>2, <1>3

First(q, n) == {q[j] : j \in 1 .. n}

\* The edges op waits for when the sources in R are not counted and the
\* operators in D have been taken.
Missing(g, R, D, op) == {e \in g : e[2] = op /\ e[1] \notin R /\ e[1] \notin D}

Has(q, op) == \E k \in 1 .. Len(q) : q[k] = op

\* No element stands in q twice.
Once(q) == \A j, k \in 1 .. Len(q) : q[j] = q[k] => j = k

\* Sources of q[k] stand before it.
SourcesFirst(g, R, q, k) ==
  \A e \in g : e[2] = q[k] => e[1] \in R \/ \E j \in 1 .. Len(q) : j < k /\ q[j] = e[1]

\* The invariant of the loop: n operators of q have been taken.
Loop(g, R, q, n, td) ==
  /\ q \in Seq(Ops(g)) /\ n \in 0 .. Len(q) /\ Once(q)
  /\ td = [op \in Ops(g) |-> Cardinality(Missing(g, R, First(q, n), op))]
  /\ \A op \in Ops(g) : Has(q, op) <=> Missing(g, R, First(q, n), op) = {}
  /\ \A k \in 1 .. Len(q) : SourcesFirst(g, R, q, k)

\* Sets of edges are finite.
LEMMA MissingFinite ==
  ASSUME NEW g, IsFiniteSet(g), NEW R, NEW D, NEW op
  PROVE  /\ IsFiniteSet(Missing(g, R, D, op))
         /\ Cardinality(Missing(g, R, D, op)) \in Nat
         /\ Cardinality(Missing(g, R, D, op)) = 0 <=> Missing(g, R, D, op) = {}
<1> DEFINE M == Missing(g, R, D, op)
<1>1. M \in SUBSET g
  BY Zenon DEF Missing
<1> HIDE DEF M
<1>2. IsFiniteSet(M)
  BY <1>1, FS_Subset, Zenon
<1>3. Cardinality(M) \in Nat
  BY <1>2, FS_CardinalityType, Zenon
<1>4. Cardinality(M) = 0 <=> M = {}
  BY <1>2, FS_EmptySet, Zenon
<1> QED BY <1>2, <1>3, <1>4 DEF M

\* The loop starts with the operators that wait for nothing.
LEMMA LoopStarts ==
  ASSUME NEW g, GraphOK(g), NEW R
  PROVE  Loop(g, R, Waiting(g, R), 0, Counts(g, R))
<1> DEFINE q == Waiting(g, R)
           W == {op \in Ops(g) : Count(g, R, op) = 0}
           D == First(q, 0)
<1>1. IsFiniteSet(g) /\ IsFiniteSet(Ops(g)) /\ Ops(g) \in SUBSET Nat
  BY OpsFinite, Zenon DEF GraphOK
<1>2. W \in SUBSET Ops(g)
  BY Zenon
<1>3. Lists(q, W)
  <2> HIDE DEF W
  <2>1. IsFiniteSet(W) /\ W \in SUBSET Nat
    BY <1>1, <1>2, FS_Subset, Zenon
  <2>2. Lists(Sorted(W), W)
    BY <2>1, SortedLists, Zenon
  <2> QED BY <2>2 DEF Waiting, W
<1>4. q \in Seq(W) /\ Len(q) \in Nat
  BY <1>3 DEF Lists
<1>5. D = {}
  BY DEF First
<1>6. \A op : Missing(g, R, D, op) = {e \in g : e[2] = op /\ e[1] \notin R}
  BY <1>5, Zenon DEF Missing
<1>7. \A op : Count(g, R, op) = Cardinality(Missing(g, R, D, op))
  BY <1>6, Zenon DEF Count
<1>8. Counts(g, R) = [op \in Ops(g) |-> Cardinality(Missing(g, R, D, op))]
  BY <1>7, Zenon DEF Counts
<1>9. \A op \in Ops(g) : op \in W <=> Missing(g, R, D, op) = {}
  <2> SUFFICES ASSUME NEW op \in Ops(g) PROVE op \in W <=> Missing(g, R, D, op) = {}
    OBVIOUS
  <2>1. Cardinality(Missing(g, R, D, op)) = 0 <=> Missing(g, R, D, op) = {}
    BY <1>1, MissingFinite, Zenon
  <2> QED BY <1>7, <2>1, Zenon
<1>10. \A op \in Ops(g) : Has(q, op) <=> op \in W
  <2> HIDE DEF W, q
  <2>1. \A k \in 1 .. Len(q) : q[k] \in W
    BY <1>4
  <2>2. \A op \in W : \E k \in 1 .. Len(q) : q[k] = op
    BY <1>3, Zenon DEF Lists
  <2> QED BY <2>1, <2>2, Zenon DEF Has
<1>11. ASSUME NEW k \in 1 .. Len(q) PROVE SourcesFirst(g, R, q, k)
  <2>1. q[k] \in W
    BY <1>4
  <2>2. Missing(g, R, D, q[k]) = {}
    BY <1>2, <1>9, <2>1, Zenon
  <2>3. \A e \in g : e[2] = q[k] => e[1] \in R
    BY <1>6, <2>2, Zenon
  <2> QED BY <2>3, Zenon DEF SourcesFirst
<1>12. q \in Seq(Ops(g)) /\ 0 \in 0 .. Len(q)
  <2> HIDE DEF q, W
  <2> QED BY <1>2, <1>4
<1>13. Once(q)
  BY <1>3, Zenon DEF Lists, Once
<1> HIDE DEF q, W, D
<1>14. \A op \in Ops(g) : Has(q, op) <=> Missing(g, R, D, op) = {}
  BY <1>9, <1>10, Zenon
<1> QED BY <1>8, <1>11, <1>12, <1>13, <1>14, Zenon DEF Loop, q, D

\* r is q followed by the elements of N.
Extended(q, r, N, O) ==
  /\ r \in Seq(O) /\ Len(q) \in Nat /\ Len(q) <= Len(r) /\ Once(r)
  /\ \A k \in 1 .. Len(q) : k \in 1 .. Len(r) /\ r[k] = q[k]
  /\ \A k \in 1 .. Len(r) : k \notin 1 .. Len(q) => r[k] \in N /\ Len(q) < k
  /\ \A x : Has(r, x) <=> Has(q, x) \/ x \in N

\* A list continued with the elements of N, none of which it has.
LEMMA Continued ==
  ASSUME NEW O, NEW N \in SUBSET O, NEW q \in Seq(O), NEW s, Lists(s, N), Once(q),
         \A x \in N : ~ Has(q, x)
  PROVE  Extended(q, q \o s, N, O)
<1> DEFINE r == q \o s
           m == Len(q)
           n == Len(s)
<1>1. s \in Seq(N) /\ m \in Nat /\ n \in Nat
  BY DEF Lists
<1>2. s \in Seq(O)
  BY <1>1
<1>3. /\ r \in Seq(O) /\ Len(r) = m + n
      /\ \A k \in 1 .. (m + n) : r[k] = IF k <= m THEN q[k] ELSE s[k - m]
  BY <1>2, ConcatProperties
<1> HIDE DEF r
<1>4. \A k \in 1 .. n : s[k] \in N
  BY <1>1
<1> HIDE DEF m, n
<1>5. \A k \in 1 .. m : k \in 1 .. (m + n) /\ k <= m
  BY <1>1
<1>6. \A k \in 1 .. (m + n) : /\ k <= m => k \in 1 .. m
                              /\ ~ (k <= m) => k - m \in 1 .. n /\ k \notin 1 .. m /\ m < k
  BY <1>1
<1>7. \A k \in 1 .. n : k + m \in 1 .. (m + n) /\ (k + m) - m = k /\ ~ (k + m <= m)
  BY <1>1
<1>8. \A k \in 1 .. m : k \in 1 .. Len(r) /\ r[k] = q[k]
  BY <1>3, <1>5, Zenon
<1>9. \A k \in 1 .. Len(r) : k \notin 1 .. m => r[k] \in N /\ m < k
  BY <1>3, <1>4, <1>6, Zenon
<1>10. ASSUME NEW x PROVE Has(r, x) <=> Has(q, x) \/ x \in N
  <2>1. ASSUME Has(r, x) PROVE Has(q, x) \/ x \in N
    <3>1. PICK k \in 1 .. Len(r) : r[k] = x
      BY <2>1, Zenon DEF Has
    <3> QED BY <1>8, <1>9, <3>1, Zenon DEF Has, m
  <2>2. ASSUME Has(q, x) PROVE Has(r, x)
    BY <1>8, <2>2, Zenon DEF Has, m
  <2>3. ASSUME x \in N PROVE Has(r, x)
    <3>1. PICK k \in 1 .. n : s[k] = x
      BY <2>3, Zenon DEF Lists, n
    <3>2. k + m \in 1 .. Len(r) /\ r[k + m] = s[(k + m) - m]
      BY <1>3, <1>7, Zenon
    <3>3. r[k + m] = x
      BY <1>7, <3>1, <3>2, Zenon
    <3> QED BY <3>2, <3>3, Zenon DEF Has
  <2> QED BY <2>1, <2>2, <2>3, Zenon
<1>11. ASSUME NEW j \in 1 .. Len(r), NEW k \in 1 .. Len(r), r[j] = r[k] PROVE j = k
  <2>1. CASE j \in 1 .. m /\ k \in 1 .. m
    BY <1>8, <1>11, <2>1, Zenon DEF m, Once
  <2>2. CASE j \in 1 .. m /\ k \notin 1 .. m
    BY <1>8, <1>9, <1>11, <2>2, Zenon DEF Has, m
  <2>3. CASE j \notin 1 .. m /\ k \in 1 .. m
    BY <1>8, <1>9, <1>11, <2>3, Zenon DEF Has, m
  <2>4. CASE j \notin 1 .. m /\ k \notin 1 .. m
    <3>1. ~ (j <= m) /\ ~ (k <= m)
      BY <1>3, <1>6, <2>4, Zenon
    <3>2. r[j] = s[j - m] /\ r[k] = s[k - m] /\ j - m \in 1 .. n /\ k - m \in 1 .. n
      BY <1>3, <1>6, <3>1, Zenon
    <3>3. j - m = k - m
      BY <1>11, <3>2, Zenon DEF Lists, n
    <3>4. j \in Int /\ k \in Int
      BY <1>1, <1>3
    <3> QED BY <1>1, <3>3, <3>4
  <2> QED BY <2>1, <2>2, <2>3, <2>4, Zenon
<1>12. r \in Seq(O) /\ m \in Nat /\ m <= Len(r)
  BY <1>1, <1>3
<1>13. Once(r)
  BY <1>11, Zenon DEF Once
<1>14. Extended(q, r, N, O)
  BY <1>8, <1>9, <1>10, <1>12, <1>13, Zenon DEF Extended, m
<1> QED BY <1>14 DEF r

\* Taking the edges E out of M.
LEMMA CardMinus ==
  ASSUME NEW M, IsFiniteSet(M), NEW E \in SUBSET M
  PROVE  /\ Cardinality(M \ E) = Cardinality(M) - Cardinality(E)
         /\ Cardinality(M) = Cardinality(E) <=> M \ E = {}
<1>1. IsFiniteSet(E) /\ IsFiniteSet(M \ E) /\ (Cardinality(M) = Cardinality(E) => M = E)
  BY FS_Subset
<1>2. /\ Cardinality((M \ E) \cup E)
           = Cardinality(M \ E) + Cardinality(E) - Cardinality((M \ E) \cap E)
  BY <1>1, FS_Union, Zenon
<1>3. (M \ E) \cup E = M /\ (M \ E) \cap E = {}
  OBVIOUS
<1>4. Cardinality({}) = 0
  BY FS_EmptySet, Zenon
<1>5. Cardinality(M) \in Nat /\ Cardinality(E) \in Nat /\ Cardinality(M \ E) \in Nat
  BY <1>1, FS_CardinalityType, Zenon
<1>6. Cardinality(M) = Cardinality(M \ E) + Cardinality(E) - 0
  BY <1>2, <1>3, <1>4, Zenon
<1>7. Cardinality(M \ E) = Cardinality(M) - Cardinality(E)
  BY <1>5, <1>6
<1>8. Cardinality(M) = Cardinality(E) <=> M \ E = {}
  <2>1. M \ E = {} => M = E
    OBVIOUS
  <2>2. M = E => M \ E = {}
    OBVIOUS
  <2> QED BY <1>1, <2>1, <2>2, Zenon
<1> QED BY <1>7, <1>8, Zenon

\* The edges of graph from op to d.
Between(op, d) == {e \in graph : e[1] = op /\ e[2] = d}

\* What one operator taken changes for another.
LEMMA Fewer ==
  ASSUME IsFiniteSet(graph), NEW R, NEW D, NEW op, op \notin R, op \notin D, NEW d
  PROVE  LET M == Missing(graph, R, D, d)
             M2 == Missing(graph, R, D \cup {op}, d)
         IN  /\ Cardinality(M2) = Cardinality(M) - EdgesTo(op, d)
             /\ Cardinality(M) = EdgesTo(op, d) <=> M2 = {}
             /\ M = {} => M2 = {} /\ Between(op, d) = {}
             /\ Between(op, d) = {} => M2 = M
<1> DEFINE M == Missing(graph, R, D, d)
           M2 == Missing(graph, R, D \cup {op}, d)
           E == Between(op, d)
<1>1. M2 = M \ E
  BY Zenon DEF Missing, Between
<1>2. E \in SUBSET M
  BY Zenon DEF Missing, Between
<1>3. EdgesTo(op, d) = Cardinality(E)
  BY Zenon DEF EdgesTo, Between
<1>4. IsFiniteSet(M)
  BY MissingFinite, Zenon
<1> HIDE DEF M, M2, E
<1>5. /\ Cardinality(M2) = Cardinality(M) - Cardinality(E)
      /\ Cardinality(M) = Cardinality(E) <=> M2 = {}
  BY <1>1, <1>2, <1>4, CardMinus, Zenon
<1>6. /\ M = {} => M2 = {} /\ E = {}
      /\ E = {} => M2 = M
  BY <1>1, <1>2, Zenon
<1> QED BY <1>3, <1>5, <1>6, Zenon DEF M, M2, E

\* A turn of the loop keeps its invariant.
LEMMA LoopTurn ==
  ASSUME GraphOK(graph), NEW R, \A x \in R : x \notin Ops(graph),
         Loop(graph, R, list, i, todos), Take
  PROVE  Loop(graph, R, list', i', todos')
<1> DEFINE q == list
           n == i
           op == q[n + 1]
           D == First(q, n)
           M(d) == Missing(graph, R, D, d)
           M2(d) == Missing(graph, R, D \cup {op}, d)
           dsts == {e[2] : e \in {f \in graph : f[1] = op}}
           N == {d \in dsts : todos[d] = EdgesTo(op, d)}
           s == Sorted(N)
           O == Ops(graph)
<1>1. /\ n < Len(q) /\ i' = n + 1
      /\ todos' = [d \in DOMAIN todos |-> todos[d] - EdgesTo(op, d)]
      /\ list' = q \o s
  BY Zenon DEF Take
<1>2. /\ q \in Seq(O) /\ n \in 0 .. Len(q)
      /\ todos = [d \in O |-> Cardinality(M(d))]
  BY Zenon DEF Loop
<1>3. Once(q)
  BY Zenon DEF Loop
<1>4. \A d \in O : Has(q, d) <=> M(d) = {}
  BY Zenon DEF Loop
<1>5. \A k \in 1 .. Len(q) : SourcesFirst(graph, R, q, k)
  BY Zenon DEF Loop
<1>6. IsFiniteSet(graph) /\ IsFiniteSet(O) /\ O \in SUBSET Nat
  BY OpsFinite, Zenon DEF GraphOK
<1> HIDE DEF q, n
<1>7. n + 1 \in 1 .. Len(q) /\ \A j \in 1 .. n : j \in 1 .. Len(q) /\ j # n + 1
  BY <1>1, <1>2
<1>8. op \in O /\ op \notin R /\ op \notin D
  <2>1. op \in O
    BY <1>2, <1>7
  <2>2. op \notin D
    BY <1>3, <1>7, Zenon DEF First, Once
  <2> QED BY <2>1, <2>2, Zenon
<1> HIDE DEF op
<1>9. ASSUME NEW d
      PROVE  /\ Cardinality(M2(d)) = Cardinality(M(d)) - EdgesTo(op, d)
             /\ Cardinality(M(d)) = EdgesTo(op, d) <=> M2(d) = {}
             /\ M(d) = {} => M2(d) = {} /\ Between(op, d) = {}
             /\ Between(op, d) = {} => M2(d) = M(d)
  <2> HIDE DEF D
  <2> QED BY <1>6, <1>8, Fewer, Zenon
<1>10. \A d : d \in dsts <=> Between(op, d) # {}
  BY Zenon DEF Between
<1>11. dsts \subseteq O
  BY Zenon DEF Ops
<1> HIDE DEF M, M2, dsts, D
<1>12. \A d \in O : todos[d] = Cardinality(M(d))
  BY <1>2, Zenon
<1>13. \A d \in O : d \in N <=> Between(op, d) # {} /\ M2(d) = {}
  BY <1>9, <1>10, <1>12, Zenon
<1>14. N \in SUBSET O
  BY <1>11, Zenon
<1> HIDE DEF N
<1>15. Lists(s, N)
  <2>1. IsFiniteSet(N) /\ N \in SUBSET Nat
    BY <1>6, <1>14, FS_Subset, Zenon
  <2> QED BY <2>1, SortedLists, Zenon
<1>16. \A d \in N : ~ Has(q, d)
  BY <1>4, <1>9, <1>13, <1>14, Zenon
<1> DEFINE r == q \o s
<1> HIDE DEF s
<1>e. Extended(q, r, N, O)
  BY <1>2, <1>3, <1>14, <1>15, <1>16, Continued, Zenon
<1> HIDE DEF r
<1>17. /\ r \in Seq(O) /\ Len(q) \in Nat /\ Len(q) <= Len(r) /\ Once(r)
       /\ \A k \in 1 .. Len(q) : k \in 1 .. Len(r) /\ r[k] = q[k]
       /\ \A k \in 1 .. Len(r) : k \notin 1 .. Len(q) => r[k] \in N /\ Len(q) < k
       /\ \A x : Has(r, x) <=> Has(q, x) \/ x \in N
  BY <1>e, Zenon DEF Extended
<1>18. n + 1 \in 0 .. Len(r)
  BY <1>7, <1>17
<1>19. First(r, n + 1) = D \cup {op}
  <2>1. \A j \in 1 .. (n + 1) : j \in 1 .. Len(q) /\ (j \in 1 .. n \/ j = n + 1)
    BY <1>2, <1>7
  <2>2. \A j \in 1 .. n : j \in 1 .. (n + 1)
    BY <1>2
  <2>3. n + 1 \in 1 .. (n + 1)
    BY <1>2
  <2>4. \A j \in 1 .. (n + 1) : r[j] = q[j]
    BY <1>17, <2>1, Zenon
  <2>5. \A x : x \in First(r, n + 1) <=> x \in D \/ x = op
    <3> SUFFICES ASSUME NEW x PROVE x \in First(r, n + 1) <=> x \in D \/ x = op
      OBVIOUS
    <3>1. x \in First(r, n + 1) => x \in D \/ x = op
      BY <2>1, <2>4, Zenon DEF First, D, op
    <3>2. x \in D => x \in First(r, n + 1)
      BY <2>2, <2>4, Zenon DEF First, D
    <3>3. op \in First(r, n + 1)
      BY <2>3, <2>4, Zenon DEF First, op
    <3> QED BY <3>1, <3>2, <3>3, Zenon
  <2> QED BY <2>5
<1>20. \A d : Missing(graph, R, First(r, n + 1), d) = M2(d)
  BY <1>19, Zenon DEF M2
<1>21. todos' = [d \in O |-> Cardinality(M2(d))]
  <2>1. DOMAIN todos = O
    BY <1>2, Zenon
  <2>2. \A d \in O : todos[d] - EdgesTo(op, d) = Cardinality(M2(d))
    BY <1>9, <1>12, Zenon
  <2> QED BY <1>1, <2>1, <2>2, Zenon DEF op
<1>22. \A d \in O : Has(r, d) <=> M2(d) = {}
  BY <1>4, <1>9, <1>13, <1>17, Zenon
<1>23. ASSUME NEW k \in 1 .. Len(r) PROVE SourcesFirst(graph, R, r, k)
  <2>1. CASE k \in 1 .. Len(q)
    <3>1. SourcesFirst(graph, R, q, k) /\ r[k] = q[k]
      BY <1>5, <1>17, <2>1, Zenon
    <3>2. ASSUME NEW e \in graph, e[2] = r[k], e[1] \notin R
          PROVE  \E j \in 1 .. Len(r) : j < k /\ r[j] = e[1]
      <4>1. PICK j \in 1 .. Len(q) : j < k /\ q[j] = e[1]
        BY <3>1, <3>2, Zenon DEF SourcesFirst
      <4>2. j \in 1 .. Len(r) /\ r[j] = q[j]
        BY <1>17, Zenon
      <4> QED BY <4>1, <4>2, Zenon
    <3> QED BY <3>2, Zenon DEF SourcesFirst
  <2>2. CASE k \notin 1 .. Len(q)
    <3>1. r[k] \in N /\ Len(q) < k
      BY <1>17, <2>2, Zenon
    <3>2. M2(r[k]) = {}
      BY <1>13, <1>14, <3>1, Zenon
    <3>3. ASSUME NEW e \in graph, e[2] = r[k], e[1] \notin R
          PROVE  \E j \in 1 .. Len(r) : j < k /\ r[j] = e[1]
      <4>1. e[1] \in First(r, n + 1)
        BY <1>20, <3>2, <3>3, Zenon DEF Missing
      <4>2. PICK j \in 1 .. (n + 1) : r[j] = e[1]
        BY <4>1, Zenon DEF First
      <4>3. j \in 1 .. Len(r) /\ j < k
        BY <1>7, <1>17, <3>1
      <4> QED BY <4>2, <4>3, Zenon
    <3> QED BY <3>3, Zenon DEF SourcesFirst
  <2> QED BY <2>1, <2>2, Zenon
<1>24. Loop(graph, R, r, n + 1, todos')
  <2>1. todos' = [d \in O |-> Cardinality(Missing(graph, R, First(r, n + 1), d))]
    BY <1>20, <1>21, Zenon
  <2>2. \A d \in O : Has(r, d) <=> Missing(graph, R, First(r, n + 1), d) = {}
    BY <1>20, <1>22, Zenon
  <2> QED BY <1>17, <1>18, <1>23, <2>1, <2>2, Zenon DEF Loop
<1>25. list' = r /\ i' = n + 1
  BY <1>1 DEF r, s, N, dsts, op
<1> QED BY <1>24, <1>25, Zenon

\* At its end the loop has listed every operator of an acyclic graph whose
\* sources are its own operators or in R.
LEMMA LoopCovers ==
  ASSUME NEW g, GraphOK(g), NEW R, \A e \in g : e[1] \in Ops(g) \cup R,
         NEW q, NEW td, Loop(g, R, q, Len(q), td)
  PROVE  /\ \A op \in Ops(g) : Has(q, op)
         /\ Len(q) = Cardinality(Ops(g))
<1> DEFINE U == {op \in Ops(g) : ~ Has(q, op)}
           D == First(q, Len(q))
<1>1. \A op \in Ops(g) : Has(q, op) <=> Missing(g, R, D, op) = {}
  BY Zenon DEF Loop
<1>2. \A x : Has(q, x) => x \in D
  BY Zenon DEF Has, First
<1>3. U = {}
  <2> SUFFICES ASSUME U # {} PROVE FALSE
    OBVIOUS
  <2>1. U \in SUBSET Ops(g)
    BY Zenon
  <2>2. PICK op \in U : \A e \in g : e[2] = op => e[1] \notin U
    <3> HIDE DEF U
    <3> QED BY <2>1, Zenon DEF GraphOK
  <2>3. PICK e \in Missing(g, R, D, op) : TRUE
    BY <1>1, Zenon
  <2>4. e \in g /\ e[2] = op /\ e[1] \notin R /\ e[1] \notin D
    BY <2>3, Zenon DEF Missing
  <2>5. e[1] \in Ops(g)
    BY <2>4, Zenon
  <2> QED BY <1>2, <2>2, <2>4, <2>5, Zenon
<1>4. \A op \in Ops(g) : Has(q, op)
  BY <1>3, Zenon
<1>5. q \in Seq(Ops(g)) /\ Len(q) \in Nat /\ q \in [1 .. Len(q) -> Ops(g)]
  <2>1. q \in Seq(Ops(g))
    BY Zenon DEF Loop
  <2> QED BY <2>1
<1>6. \A j, k \in 1 .. Len(q) : q[j] = q[k] => j = k
  BY Zenon DEF Loop, Once
<1>7. q \in Injection(1 .. Len(q), Ops(g))
  BY <1>5, <1>6, Zenon DEF Injection, IsInjective
<1>8. q \in Surjection(1 .. Len(q), Ops(g))
  BY <1>4, <1>5, Zenon DEF Surjection, Has
<1>9. IsFiniteSet(1 .. Len(q)) /\ Cardinality(1 .. Len(q)) = Len(q)
  BY <1>5, FS_Interval
<1>10. IsFiniteSet(Ops(g))
  BY OpsFinite, Zenon
<1>11. Cardinality(1 .. Len(q)) = Cardinality(Ops(g))
  BY <1>7, <1>8, <1>10, FS_Injection, Zenon
<1> QED BY <1>4, <1>9, <1>11, Zenon

-----------------------------------------------------------------------------
(* The passes *)

\* A graph without some of the edges of a graph of the search.
LEMMA SubgraphOK ==
  ASSUME NEW o \in Graphs, NEW g, g \subseteq o
  PROVE  GraphOK(g) /\ Ops(g) \subseteq Ops(o)
<1>1. /\ IsFiniteSet(o)
      /\ \A e \in o : e[2] \in Nat \ Preserved
      /\ \A S \in SUBSET Ops(o) :
           S # {} => \E op \in S : \A e \in o : e[2] = op => e[1] \notin S
  BY GraphsAssumption, Zenon
<1>2. Ops(g) \subseteq Ops(o)
  BY Zenon DEF Ops
<1>3. IsFiniteSet(g)
  BY <1>1, FS_Subset, Zenon
<1>4. \A e \in g : e[2] \in Nat \ Preserved
  BY <1>1, Zenon
<1>5. ASSUME NEW S \in SUBSET Ops(g), S # {}
      PROVE  \E op \in S : \A e \in g : e[2] = op => e[1] \notin S
  <2>1. S \in SUBSET Ops(o)
    BY <1>2, Zenon
  <2> QED BY <1>1, <1>5, <2>1, Zenon
<1> QED BY <1>2, <1>3, <1>4, <1>5, Zenon DEF GraphOK

\* The preserved guids are no operators.
LEMMA NotPreserved ==
  ASSUME NEW g, GraphOK(g), NEW x \in Preserved
  PROVE  x \notin Ops(g)
BY Zenon DEF GraphOK, Ops

\* The first loop of preprocess_weights finds the operators that depend on no
\* input.
LEMMA WeightsListed ==
  ASSUME NEW g \in Graphs, NEW q, NEW td, Loop(g, {GUID_WEIGHT}, q, Len(q), td)
  PROVE  \A op \in Ops(g) : Has(q, op) <=> op \notin FromInput(g)
<1> DEFINE U == {op \in Ops(g) : ~ Has(q, op)}
           R == {GUID_WEIGHT}
           D == First(q, Len(q))
           Closed(S) == \A e \in g : e[1] \in S \cup {GUID_INPUT} => e[2] \in S
<1>1. /\ GraphOK(g) /\ GUID_INPUT # GUID_WEIGHT
      /\ \A e \in g : e[2] \in Ops(g) /\ e[1] \in Ops(g) \cup Preserved
  BY SubgraphOK, GraphsAssumption, Zenon DEF Ops
<1>2. \A op \in Ops(g) : Has(q, op) <=> Missing(g, R, D, op) = {}
  BY Zenon DEF Loop
<1>3. \A x : Has(q, x) <=> x \in D
  BY Zenon DEF Has, First
<1>4. GUID_INPUT \notin Ops(g) /\ GUID_WEIGHT \notin Ops(g)
  BY <1>1, NotPreserved, Zenon DEF Preserved
<1>5. ASSUME NEW x, Has(q, x) PROVE x \in Ops(g)
  <2>1. q \in Seq(Ops(g))
    BY Zenon DEF Loop
  <2>2. \A k \in 1 .. Len(q) : q[k] \in Ops(g)
    BY <2>1
  <2> QED BY <1>5, <2>2, Zenon DEF Has
<1>6. Closed(U)
  <2> SUFFICES ASSUME NEW e \in g, e[1] \in U \cup {GUID_INPUT} PROVE e[2] \in U
    BY Zenon
  <2>1. e[1] \notin R /\ ~ Has(q, e[1])
    BY <1>1, <1>4, <1>5, Zenon
  <2>2. e \in Missing(g, R, D, e[2])
    BY <1>3, <2>1, Zenon DEF Missing
  <2> QED BY <1>1, <1>2, <2>2, Zenon
<1>7. FromInput(g) \subseteq U
  <2>1. U \in SUBSET Ops(g)
    BY Zenon
  <2> HIDE DEF U
  <2> QED BY <1>6, <2>1, Zenon DEF FromInput
<1>8. ASSUME NEW S \in SUBSET Ops(g), Closed(S) PROVE U \subseteq S
  <2> DEFINE V == U \ S
  <2> SUFFICES ASSUME V # {} PROVE FALSE
    BY Zenon
  <2>1. V \in SUBSET Ops(g)
    BY Zenon
  <2>2. PICK op \in V : \A e \in g : e[2] = op => e[1] \notin V
    <3> HIDE DEF V
    <3> QED BY <1>1, <2>1, Zenon DEF GraphOK
  <2>3. PICK e \in Missing(g, R, D, op) : TRUE
    BY <1>2, Zenon
  <2>4. e \in g /\ e[2] = op /\ e[1] \notin R /\ ~ Has(q, e[1])
    BY <1>3, <2>3, Zenon DEF Missing
  <2>5. e[1] \in U \cup {GUID_INPUT}
    BY <1>1, <2>4, Zenon DEF Preserved
  <2>6. e[1] \in S \cup {GUID_INPUT}
    BY <2>2, <2>4, <2>5, Zenon
  <2> QED BY <1>8, <2>2, <2>4, <2>6, Zenon
<1>9. U \subseteq FromInput(g)
  <2>1. U \subseteq Ops(g)
    BY Zenon
  <2> HIDE DEF U
  <2> QED BY <1>8, <2>1, Zenon DEF FromInput
<1> QED BY <1>7, <1>9, Zenon

\* What removing operators keeps: all the edges into an operator that is left,
\* their sources, and what depends on an input.
Kept(o, g) ==
  /\ g = {e \in o : e[2] \in Ops(g)}
  /\ \A e \in g : e[1] \in Ops(g) \cup Preserved
  /\ FromInput(o) \subseteq Ops(g)

\* The whole graph is such a graph.
LEMMA AllKept ==
  ASSUME NEW o \in Graphs
  PROVE  Kept(o, o)
<1>1. o = {e \in o : e[2] \in Ops(o)}
  BY Zenon DEF Ops
<1>2. \A e \in o : e[1] \in Ops(o) \cup Preserved
  BY GraphsAssumption, Zenon
<1>3. FromInput(o) \subseteq Ops(o)
  BY Zenon DEF FromInput
<1> QED BY <1>1, <1>2, <1>3, Zenon DEF Kept

\* remove_node of an operator that depends on no input and that nothing reads.
LEMMA RemoveKeeps ==
  ASSUME NEW o, NEW g, Kept(o, g), NEW op, op \notin FromInput(o), \A e \in g : e[1] # op,
         op \notin Preserved
  PROVE  Kept(o, {e \in g : e[2] # op})
<1> DEFINE h == {e \in g : e[2] # op}
<1>1. /\ g = {e \in o : e[2] \in Ops(g)}
      /\ \A e \in g : e[1] \in Ops(g) \cup Preserved
      /\ FromInput(o) \subseteq Ops(g)
  BY Zenon DEF Kept
<1>2. \A x : x \in Ops(h) <=> x \in Ops(g) /\ x # op
  BY Zenon DEF Ops
<1>3. \A e : e \in h <=> e \in o /\ e[2] \in Ops(h)
  <2>1. \A e : e \in g <=> e \in o /\ e[2] \in Ops(g)
    <3> SUFFICES ASSUME NEW e PROVE e \in g <=> e \in o /\ e[2] \in Ops(g)
      OBVIOUS
    <3> DEFINE O == Ops(g)
    <3>1. g = {f \in o : f[2] \in O}
      BY <1>1, Zenon
    <3> HIDE DEF O
    <3>2. e \in g <=> e \in o /\ e[2] \in O
      BY <3>1, Zenon
    <3> QED BY <3>2 DEF O
  <2>2. \A e : e \in h <=> e \in g /\ e[2] # op
    BY Zenon
  <2> HIDE DEF h
  <2> QED BY <1>2, <2>1, <2>2, Zenon
<1>4. \A e \in h : e[1] \in Ops(h) \cup Preserved
  BY <1>1, <1>2, Zenon
<1>5. FromInput(o) \subseteq Ops(h)
  BY <1>1, <1>2, Zenon
<1> HIDE DEF h
<1>6. h = {e \in o : e[2] \in Ops(h)}
  BY <1>3
<1>7. Kept(o, h)
  BY <1>4, <1>5, <1>6, Zenon DEF Kept
<1> QED BY <1>7 DEF h

\* A nonempty set of places of a list has a last one.
LEMMA Last ==
  ASSUME NEW n \in Nat, NEW K \in SUBSET (1 .. n), K # {}
  PROVE  \E m \in K : \A k \in K : ~ (m < k)
<1> DEFINE S == {n - k : k \in K}
<1>1. \A k \in K : k \in 1 .. n
  OBVIOUS
<1>2. \A k \in 1 .. n : n - k \in Nat
  OBVIOUS
<1>3. S \subseteq Nat /\ S # {}
  BY <1>1, <1>2, Zenon
<1>4. PICK s \in S : \A t \in S : s <= t
  <2> HIDE DEF S
  <2> QED BY <1>3, Least, Zenon
<1>5. PICK m \in K : s = n - m
  BY Zenon
<1>6. \A k \in K : n - m <= n - k
  BY <1>4, <1>5, Zenon
<1>7. \A k \in 1 .. n : n - m <= n - k => ~ (m < k)
  BY <1>1
<1> QED BY <1>1, <1>6, <1>7, Zenon

\* When nothing more can be removed, what is left is what an operator that
\* depends on an input needs.
LEMMA RemovedAll ==
  ASSUME NEW o \in Graphs, NEW g, Kept(o, g), NEW q, NEW td,
         Loop(o, {GUID_WEIGHT}, q, Len(q), td),
         \A op \in Ops(g) : Has(q, op) => \E e \in g : e[1] = op
  PROVE  Ops(g) = NeededBy(o, FromInput(o))
<1> DEFINE F == FromInput(o)
           Closed(S) == F \subseteq S /\ \A e \in o : e[2] \in S => e[1] \in S \cup Preserved
<1>1. /\ g = {e \in o : e[2] \in Ops(g)}
      /\ \A e \in g : e[1] \in Ops(g) \cup Preserved
      /\ F \subseteq Ops(g)
  BY Zenon DEF Kept
<1>2. g \subseteq o
  BY <1>1, Zenon
<1>3. GraphOK(g) /\ Ops(g) \subseteq Ops(o)
  BY <1>2, SubgraphOK, Zenon
<1>4. Closed(Ops(g))
  BY <1>1, Zenon
<1>5. NeededBy(o, F) \subseteq Ops(g)
  BY <1>3, <1>4, Zenon DEF NeededBy
<1>6. ASSUME NEW S \in SUBSET Ops(o), Closed(S) PROVE Ops(g) \subseteq S
  <2> DEFINE U == Ops(g) \ S
             K == {k \in 1 .. Len(q) : q[k] \in U}
  <2> SUFFICES ASSUME U # {} PROVE FALSE
    BY Zenon
  <2>1. \A op \in Ops(o) : Has(q, op) <=> op \notin F
    BY WeightsListed, Zenon
  <2>2. \A op \in U : Has(q, op)
    BY <1>3, <1>6, <2>1, Zenon
  <2>3. K # {}
    BY <2>2, Zenon DEF Has
  <2>4. Len(q) \in Nat /\ Once(q) /\ \A k \in 1 .. Len(q) : SourcesFirst(o, {GUID_WEIGHT}, q, k)
    <3>1. q \in Seq(Ops(o)) /\ Once(q) /\ \A k \in 1 .. Len(q) : SourcesFirst(o, {GUID_WEIGHT}, q, k)
      BY Zenon DEF Loop
    <3>2. q \in Seq(Ops(o)) => Len(q) \in Nat
      OBVIOUS
    <3> QED BY <3>1, <3>2, Zenon
  <2>5. PICK m \in K : \A k \in K : ~ (m < k)
    <3>1. K \in SUBSET (1 .. Len(q))
      BY Zenon
    <3> HIDE DEF K
    <3> QED BY <2>3, <2>4, <3>1, Last, Zenon
  <2>6. m \in 1 .. Len(q) /\ q[m] \in U
    BY Zenon
  <2>7. PICK e \in g : e[1] = q[m]
    BY <2>2, <2>6, Zenon
  <2>8. q[m] \notin Preserved
    BY <1>3, <2>6, NotPreserved, Zenon
  <2>9. e \in o /\ e[2] \in Ops(g)
    BY <1>2, <2>7, Zenon DEF Ops
  <2>10. e[2] \in U
    BY <1>6, <2>6, <2>7, <2>8, <2>9, Zenon
  <2>11. PICK k \in 1 .. Len(q) : q[k] = e[2]
    BY <2>2, <2>10, Zenon DEF Has
  <2>12. PICK j \in 1 .. Len(q) : j < k /\ q[j] = e[1]
    <3>1. e[1] \notin {GUID_WEIGHT}
      BY <2>7, <2>8, Zenon DEF Preserved
    <3> QED BY <2>4, <2>9, <2>11, <3>1, Zenon DEF SourcesFirst
  <2>13. j = m
    BY <2>4, <2>6, <2>7, <2>12, Zenon DEF Once
  <2> QED BY <2>5, <2>10, <2>11, <2>12, <2>13, Zenon
<1>7. Ops(g) \subseteq NeededBy(o, F)
  BY <1>3, <1>6, Zenon DEF NeededBy
<1> QED BY <1>5, <1>7, Zenon

\* The nodes of a model, and what they do not wait for.
Nodes(o) == {e \in o : ~ Leaf(o, e[2])}
Ready(o) == Preserved \cup {op \in Ops(o) : Leaf(o, op)}

\* The invariant of the passes.
PassInv ==
  /\ origin \in Graphs
  /\ phase \in {"onnx", "reordered", "weights", "remove", "order", "done"}
  /\ phase \in {"onnx", "reordered"} =>
       graph = Nodes(origin) /\ Loop(graph, Ready(origin), list, i, todos)
  /\ phase = "weights" =>
       graph = origin /\ Loop(origin, {GUID_WEIGHT}, list, i, todos)
  /\ phase = "remove" =>
       Kept(origin, graph) /\ Loop(origin, {GUID_WEIGHT}, list, i, todos)
  /\ phase \in {"order", "done"} =>
       /\ Kept(origin, graph) /\ Ops(graph) = NeededBy(origin, FromInput(origin))
       /\ Loop(graph, Preserved, list, i, todos)
  /\ phase \in {"reordered", "remove", "done"} => i = Len(list)

\* Nothing a node waits for is among the sources that are not counted.
LEMMA NodesReady ==
  ASSUME NEW o \in Graphs
  PROVE  /\ Nodes(o) \subseteq o
         /\ \A x \in Ready(o) : x \notin Ops(Nodes(o))
         /\ \A e \in Nodes(o) : e[1] \in Ops(Nodes(o)) \cup Ready(o)
<1> DEFINE g == Nodes(o)
<1>1. g \subseteq o
  BY Zenon DEF Nodes
<1>2. GraphOK(g)
  BY <1>1, SubgraphOK, Zenon
<1>3. \A x : x \in Ops(g) => ~ Leaf(o, x)
  BY Zenon DEF Ops, Nodes
<1>4. \A x \in Ready(o) : x \notin Ops(g)
  BY <1>2, <1>3, NotPreserved, Zenon DEF Ready
<1>5. ASSUME NEW e \in g PROVE e[1] \in Ops(g) \cup Ready(o)
  <2>1. e[1] \in Ops(o) \cup Preserved
    BY <1>1, GraphsAssumption, Zenon
  <2>2. ASSUME e[1] \in Ops(o), ~ Leaf(o, e[1]) PROVE e[1] \in Ops(g)
    BY <2>2, Zenon DEF Ops, Nodes
  <2> QED BY <2>1, <2>2, Zenon DEF Ready
<1> QED BY <1>1, <1>4, <1>5, Zenon

\* Both passes start with PassInv.
LEMMA InitPass == Init => PassInv
<1> SUFFICES ASSUME Init PROVE PassInv
  OBVIOUS
<1>1. origin \in Graphs /\ i = 0
  BY Zenon DEF Init
<1>2. CASE Reorder
  <2>1. /\ graph = Nodes(origin) /\ phase = "onnx"
        /\ todos = Counts(graph, Ready(origin)) /\ list = Waiting(graph, Ready(origin))
    BY <1>2, Zenon DEF Reorder, Nodes, Ready
  <2>2. GraphOK(graph)
    BY <1>1, <2>1, NodesReady, SubgraphOK, Zenon
  <2>3. Loop(graph, Ready(origin), list, i, todos)
    BY <1>1, <2>1, <2>2, LoopStarts, Zenon
  <2> QED BY <1>1, <2>1, <2>3 DEF PassInv
<1>3. CASE PreprocessWeights
  <2>1. /\ graph = origin /\ phase = "weights"
        /\ todos = Counts(origin, {GUID_WEIGHT}) /\ list = Waiting(origin, {GUID_WEIGHT})
    BY <1>3, Zenon DEF PreprocessWeights
  <2>2. GraphOK(origin)
    BY <1>1, SubgraphOK, Zenon
  <2>3. Loop(origin, {GUID_WEIGHT}, list, i, todos)
    BY <1>1, <2>1, <2>2, LoopStarts, Zenon
  <2> QED BY <1>1, <2>1, <2>3 DEF PassInv
<1> QED BY <1>2, <1>3, Zenon DEF Init

\* A turn of one of the three loops.
LEMMA TakePass ==
  ASSUME PassInv, TakeNode \/ CollectWeight \/ TakeOperator
  PROVE  PassInv'
<1>1. origin \in Graphs /\ Take /\ UNCHANGED <<origin, graph, phase>>
  BY Zenon DEF PassInv, TakeNode, CollectWeight, TakeOperator, Take
<1>2. CASE phase = "onnx"
  <2>1. graph = Nodes(origin) /\ Loop(graph, Ready(origin), list, i, todos)
    BY <1>2, Zenon DEF PassInv
  <2>2. GraphOK(graph) /\ \A x \in Ready(origin) : x \notin Ops(graph)
    BY <1>1, <2>1, NodesReady, SubgraphOK, Zenon
  <2>3. Loop(graph, Ready(origin), list', i', todos')
    BY <1>1, <2>1, <2>2, LoopTurn, Zenon
  <2> QED BY <1>1, <1>2, <2>1, <2>3 DEF PassInv
<1>3. CASE phase = "weights"
  <2>1. graph = origin /\ Loop(graph, {GUID_WEIGHT}, list, i, todos)
    BY <1>3, Zenon DEF PassInv
  <2>2. GraphOK(graph)
    BY <1>1, <2>1, SubgraphOK, Zenon
  <2>3. \A x \in {GUID_WEIGHT} : x \notin Ops(graph)
    BY <2>2, NotPreserved, Zenon DEF Preserved
  <2>4. Loop(graph, {GUID_WEIGHT}, list', i', todos')
    BY <1>1, <2>1, <2>2, <2>3, LoopTurn, Zenon
  <2> QED BY <1>1, <1>3, <2>1, <2>4 DEF PassInv
<1>4. CASE phase = "order"
  <2>1. /\ Kept(origin, graph) /\ Ops(graph) = NeededBy(origin, FromInput(origin))
        /\ Loop(graph, Preserved, list, i, todos)
    BY <1>4, Zenon DEF PassInv
  <2>2. GraphOK(graph)
    <3>1. graph \subseteq origin
      BY <2>1, Zenon DEF Kept
    <3> QED BY <1>1, <3>1, SubgraphOK, Zenon
  <2>3. \A x \in Preserved : x \notin Ops(graph)
    BY <2>2, NotPreserved, Zenon
  <2>4. Loop(graph, Preserved, list', i', todos')
    BY <1>1, <2>1, <2>2, <2>3, LoopTurn, Zenon
  <2> QED BY <1>1, <1>4, <2>1, <2>4 DEF PassInv
<1> QED BY <1>2, <1>3, <1>4, Zenon DEF TakeNode, CollectWeight, TakeOperator

\* remove_node of the first operator that can be removed.
LEMMA RemovePass ==
  ASSUME PassInv, RemoveNode
  PROVE  PassInv'
<1> DEFINE op == Sorted(Removable)[1]
<1>1. /\ phase = "remove" /\ Removable # {} /\ graph' = {e \in graph : e[2] # op}
      /\ UNCHANGED <<origin, todos, list, i, phase>>
  BY Zenon DEF RemoveNode
<1>2. /\ origin \in Graphs /\ Kept(origin, graph)
      /\ Loop(origin, {GUID_WEIGHT}, list, i, todos) /\ i = Len(list)
  BY <1>1 DEF PassInv
<1>3. graph \subseteq origin
  BY <1>2, Zenon DEF Kept
<1>4. GraphOK(graph) /\ Ops(graph) \subseteq Ops(origin)
  BY <1>2, <1>3, SubgraphOK, Zenon
<1>5. op \in Removable
  <2>1. Removable \in SUBSET Ops(graph)
    BY Zenon DEF Removable
  <2>2. IsFiniteSet(Removable) /\ Removable \in SUBSET Nat
    BY <1>4, <2>1, OpsFinite, FS_Subset, Zenon
  <2>3. Lists(Sorted(Removable), Removable)
    BY <2>2, SortedLists, Zenon
  <2> DEFINE s == Sorted(Removable)
             N == Removable
  <2> HIDE DEF s, N
  <2>4. s \in Seq(N) /\ \E k \in 1 .. Len(s) : TRUE
    BY <1>1, <2>3, Zenon DEF Lists, s, N
  <2>5. s[1] \in N
    BY <2>4
  <2> QED BY <2>5 DEF s, N
<1> HIDE DEF op
<1>6. op \in Ops(graph) /\ op \in weightOps /\ \A e \in graph : e[1] # op
  BY <1>5, Zenon DEF Removable
<1>7. Has(list, op)
  <2>1. list \in Seq(Ops(origin))
    BY <1>2, Zenon DEF Loop
  <2>2. DOMAIN list = 1 .. Len(list)
    BY <2>1
  <2> QED BY <1>6, <2>2, Zenon DEF weightOps, Has
<1>8. op \notin FromInput(origin)
  BY <1>2, <1>4, <1>6, <1>7, WeightsListed, Zenon
<1>9. op \notin Preserved
  BY <1>4, <1>6, NotPreserved, Zenon
<1>10. Kept(origin, graph')
  <2>1. Kept(origin, graph) /\ op \notin FromInput(origin) /\ op \notin Preserved
    BY <1>2, <1>8, <1>9, Zenon
  <2>2. \A e \in graph : e[1] # op
    BY <1>6, Zenon
  <2>3. Kept(origin, {e \in graph : e[2] # op})
    BY <2>1, <2>2, RemoveKeeps, Zenon
  <2> QED BY <1>1, <2>3
<1> QED BY <1>1, <1>2, <1>10 DEF PassInv

\* The end of preprocess_weights and the start of get_operator_list.
LEMMA OrderPass ==
  ASSUME PassInv, Order
  PROVE  PassInv'
<1>1. /\ phase = "remove" /\ Removable = {} /\ phase' = "order"
      /\ todos' = Counts(graph, Preserved) /\ list' = Waiting(graph, Preserved) /\ i' = 0
      /\ UNCHANGED <<origin, graph>>
  BY Zenon DEF Order
<1>2. /\ origin \in Graphs /\ Kept(origin, graph)
      /\ Loop(origin, {GUID_WEIGHT}, list, Len(list), todos)
  BY <1>1 DEF PassInv
<1>3. graph \subseteq origin
  BY <1>2, Zenon DEF Kept
<1>4. GraphOK(graph)
  BY <1>2, <1>3, SubgraphOK, Zenon
<1>5. ASSUME NEW op \in Ops(graph), Has(list, op) PROVE \E e \in graph : e[1] = op
  <2>1. list \in Seq(Ops(origin))
    BY <1>2, Zenon DEF Loop
  <2>2. DOMAIN list = 1 .. Len(list)
    BY <2>1
  <2>3. op \in weightOps
    BY <1>5, <2>2, Zenon DEF weightOps, Has
  <2> QED BY <1>1, <2>3, Zenon DEF Removable
<1>6. Ops(graph) = NeededBy(origin, FromInput(origin))
  BY <1>2, <1>5, RemovedAll
<1>7. Loop(graph, Preserved, list', i', todos')
  BY <1>1, <1>4, LoopStarts, Zenon
<1> QED BY <1>1, <1>2, <1>6, <1>7 DEF PassInv

\* Every step keeps PassInv.
LEMMA PassStep == PassInv /\ [Next]_vars => PassInv'
<1> SUFFICES ASSUME PassInv, [Next]_vars PROVE PassInv'
  OBVIOUS
<1>1. CASE TakeNode \/ CollectWeight \/ TakeOperator
  BY <1>1, TakePass, Zenon
<1>2. CASE RemoveNode
  BY <1>2, RemovePass, Zenon
<1>3. CASE Order
  BY <1>3, OrderPass, Zenon
<1>4. CASE Reordered
  BY <1>4 DEF Reordered, PassInv
<1>5. CASE WeightsCollected
  <2>1. Kept(origin, origin)
    BY AllKept, Zenon DEF PassInv
  <2> QED BY <1>5, <2>1 DEF WeightsCollected, PassInv
<1>6. CASE Listed
  BY <1>6 DEF Listed, PassInv
<1>7. CASE UNCHANGED vars
  BY <1>7 DEF vars, PassInv
<1> QED BY <1>1, <1>2, <1>3, <1>4, <1>5, <1>6, <1>7, Zenon DEF Next

\* PassInv holds in every reachable state.
LEMMA PassHolds == Spec => []PassInv
BY InitPass, PassStep, PTL DEF Spec

\* preprocess_weights removes what no operator computed from an input needs, and
\* nothing else, from every acyclic graph.
THEOREM WeightsRemoved == Spec => []KeepsWhatInputsNeed
<1>1. ASSUME PassInv PROVE KeepsWhatInputsNeed
  <2> SUFFICES ASSUME phase = "done"
               PROVE  /\ Ops(graph) = NeededBy(origin, FromInput(origin))
                      /\ \A e \in origin : e[2] \in Ops(graph) => e \in graph
    BY Zenon DEF KeepsWhatInputsNeed
  <2>1. Kept(origin, graph) /\ Ops(graph) = NeededBy(origin, FromInput(origin))
    BY <1>1 DEF PassInv
  <2>2. \A e \in origin : e[2] \in Ops(graph) => e \in graph
    BY <2>1, Zenon DEF Kept
  <2> QED BY <2>1, <2>2, Zenon
<1> QED BY <1>1, PassHolds, PTL

\* The list q holds every operator of g, once and after the operators it reads.
InOrder(g, q) ==
  /\ Len(q) = Cardinality(Ops(g))
  /\ \A op \in Ops(g) : \E k \in DOMAIN q : q[k] = op
  /\ \A k \in DOMAIN q : \A e \in g :
       e[2] = q[k] /\ e[1] \in Ops(g) => \E j \in 1 .. k - 1 : q[j] = e[1]

\* A loop that has ended leaves such a list.
LEMMA EndedLoop ==
  ASSUME NEW g, GraphOK(g), NEW R, \A x \in R : x \notin Ops(g),
         \A e \in g : e[1] \in Ops(g) \cup R, NEW q, NEW td, Loop(g, R, q, Len(q), td)
  PROVE  InOrder(g, q)
<1>1. (\A op \in Ops(g) : Has(q, op)) /\ Len(q) = Cardinality(Ops(g))
  BY LoopCovers, Zenon
<1>2. q \in Seq(Ops(g)) /\ \A k \in 1 .. Len(q) : SourcesFirst(g, R, q, k)
  BY Zenon DEF Loop
<1>3. DOMAIN q = 1 .. Len(q) /\ Len(q) \in Nat
  BY <1>2
<1>4. ASSUME NEW k \in 1 .. Len(q), NEW e \in g, e[2] = q[k], e[1] \in Ops(g)
      PROVE  \E j \in 1 .. k - 1 : q[j] = e[1]
  <2>1. PICK j \in 1 .. Len(q) : j < k /\ q[j] = e[1]
    BY <1>2, <1>4, Zenon DEF SourcesFirst
  <2>2. j \in 1 .. k - 1
    BY <1>3, <2>1
  <2> QED BY <2>1, <2>2, Zenon
<1> QED BY <1>1, <1>3, <1>4, Zenon DEF Has, InOrder

\* In every acyclic graph, load_onnx and get_operator_list handle every operator
\* once and after the operators it reads; their assertions hold, and their loops
\* stay within the list.
THEOREM ListsInOrder == Spec => []ProducersFirst
<1>1. ASSUME PassInv PROVE ProducersFirst
  <2>1. /\ origin \in Graphs
        /\ phase \in {"onnx", "reordered", "weights", "remove", "order", "done"}
    BY <1>1, Zenon DEF PassInv
  <2>2. graph \subseteq origin
    BY <1>1, NodesReady, Zenon DEF PassInv, Kept
  <2>3. \E g, R : g \subseteq origin /\ Loop(g, R, list, i, todos)
    BY <1>1, <2>2, Zenon DEF PassInv
  <2>4. PICK g, R : g \subseteq origin /\ Loop(g, R, list, i, todos)
    BY <2>3, Zenon
  <2>5. i \in 0 .. Len(list) /\ \A op \in DOMAIN todos : todos[op] >= 0
    <3>1. IsFiniteSet(g)
      BY <2>1, <2>4, SubgraphOK, Zenon DEF GraphOK
    <3>2. /\ i \in 0 .. Len(list)
          /\ todos = [op \in Ops(g) |-> Cardinality(Missing(g, R, First(list, i), op))]
      BY <2>4, Zenon DEF Loop
    <3>3. ASSUME NEW op \in Ops(g) PROVE todos[op] \in Nat
      BY <3>1, <3>2, MissingFinite, Zenon
    <3>4. DOMAIN todos = Ops(g)
      BY <3>2, Zenon
    <3>5. \A n \in Nat : n >= 0
      OBVIOUS
    <3> QED BY <3>2, <3>3, <3>4, <3>5, Zenon
  <2>6. TypeOK
    BY <2>1, <2>2, <2>5, Zenon DEF TypeOK
  <2>7. GraphOK(graph)
    BY <2>1, <2>2, SubgraphOK, Zenon
  <2>8. CASE phase = "reordered"
    <3>1. graph = Nodes(origin) /\ Loop(graph, Ready(origin), list, Len(list), todos)
      BY <1>1, <2>8 DEF PassInv
    <3>2. /\ \A x \in Ready(origin) : x \notin Ops(graph)
          /\ \A e \in graph : e[1] \in Ops(graph) \cup Ready(origin)
      BY <2>1, <3>1, NodesReady, Zenon
    <3>3. InOrder(graph, list)
      BY <2>7, <3>1, <3>2, EndedLoop, Zenon
    <3> QED BY <2>6, <3>3, Zenon DEF ProducersFirst, InOrder
  <2>9. CASE phase = "done"
    <3>1. Kept(origin, graph) /\ Loop(graph, Preserved, list, Len(list), todos)
      BY <1>1, <2>9 DEF PassInv
    <3>2. /\ \A x \in Preserved : x \notin Ops(graph)
          /\ \A e \in graph : e[1] \in Ops(graph) \cup Preserved
      BY <2>7, <3>1, NotPreserved, Zenon DEF Kept
    <3>3. InOrder(graph, list)
      BY <2>7, <3>1, <3>2, EndedLoop, Zenon
    <3> QED BY <2>6, <3>3, Zenon DEF ProducersFirst, InOrder
  <2> QED BY <2>6, <2>8, <2>9, Zenon DEF ProducersFirst
<1> QED BY <1>1, PassHolds, PTL
=============================================================================
