---------------------------- MODULE ExportProofs ----------------------------
(***************************************************************************)
(* For every ONNX model: which operators of the graph that load_onnx       *)
(* builds record the shape of an input they do not have; and               *)
(* get_operator_list, which lists the operators of that graph with each    *)
(* one after those it reads.                                               *)
(***************************************************************************)
EXTENDS Export, WellFoundedInduction, TLAPS

\* A nonempty set of numbers has a least element.
LEMMA Least ==
  ASSUME NEW S, S \subseteq Nat, S # {}
  PROVE  \E m \in S : \A k \in S : m <= k
<1>1. PICK m \in S : \A k \in S : ~ (<<k, m>> \in OpToRel(<, Nat))
  BY NatLessThanWellFounded, WFMin, Zenon
<1>2. \A k \in S : m \in Nat /\ k \in Nat /\ ~ (k < m)
  BY <1>1, Zenon DEF OpToRel
<1> QED BY <1>2

-----------------------------------------------------------------------------
(* Sequences *)

IsSeq(s) == \E S : s \in Seq(S)

\* A sequence has a length, and its indices are the numbers up to that.
LEMMA LenIs ==
  ASSUME NEW s, IsSeq(s)
  PROVE  Len(s) \in Nat /\ DOMAIN s = 1 .. Len(s)
BY DEF IsSeq

\* A function on the first n numbers is one.
LEMMA SeqIs ==
  ASSUME NEW n \in Nat, NEW f, f = [i \in 1 .. n |-> f[i]]
  PROVE  IsSeq(f) /\ Len(f) = n
<1> DEFINE S == {f[i] : i \in 1 .. n}
<1>1. \A i \in 1 .. n : f[i] \in S
  OBVIOUS
<1> HIDE DEF S
<1>2. f \in Seq(S) /\ Len(f) = n
  BY <1>1
<1> QED BY <1>2 DEF IsSeq

\* What \o gives.
LEMMA ConcatIs ==
  ASSUME NEW p, IsSeq(p), NEW q, IsSeq(q)
  PROVE  /\ IsSeq(p \o q)
         /\ Len(p \o q) = Len(p) + Len(q)
         /\ \A i \in 1 .. (Len(p) + Len(q)) :
              (p \o q)[i] = IF i <= Len(p) THEN p[i] ELSE q[i - Len(p)]
<1>1. PICK P, Q : p \in Seq(P) /\ q \in Seq(Q)
  BY DEF IsSeq
<1>2. PICK S : p \in Seq(S) /\ q \in Seq(S)
  <2>1. p \in Seq(P \cup Q) /\ q \in Seq(P \cup Q)
    BY <1>1
  <2> QED BY <2>1
<1>3. p \o q \in Seq(S)
  BY <1>2
<1> QED BY <1>2, <1>3 DEF IsSeq

\* Where the elements of q \o r come from.
LEMMA ConcatParts ==
  ASSUME NEW q, IsSeq(q), NEW r, IsSeq(r)
  PROVE  /\ \A i \in 1 .. Len(q) : i \in 1 .. Len(q \o r) /\ (q \o r)[i] = q[i]
         /\ \A j \in 1 .. Len(r) : j + Len(q) \in 1 .. Len(q \o r) /\ (q \o r)[j + Len(q)] = r[j]
         /\ \A i \in 1 .. Len(q \o r) :
              \/ i \in 1 .. Len(q)
              \/ i - Len(q) \in 1 .. Len(r) /\ (q \o r)[i] = r[i - Len(q)] /\ Len(q) < i
<1>1. ASSUME NEW n \in Nat, NEW l \in Nat, NEW p, NEW m, m = n + l,
             \A i \in 1 .. (n + l) : p[i] = IF i <= n THEN q[i] ELSE r[i - n]
      PROVE  /\ \A i \in 1 .. n : i \in 1 .. m /\ p[i] = q[i]
             /\ \A j \in 1 .. l : j + n \in 1 .. m /\ p[j + n] = r[j]
             /\ \A i \in 1 .. m : i \in 1 .. n \/ (i - n \in 1 .. l /\ p[i] = r[i - n] /\ n < i)
  BY <1>1
<1>2. Len(q) \in Nat /\ Len(r) \in Nat
  BY LenIs, Zenon
<1> QED BY <1>1, <1>2, ConcatIs

\* Sequences with the same elements are equal.
LEMMA SameElements ==
  ASSUME NEW p, IsSeq(p), NEW q, IsSeq(q), Len(p) = Len(q),
         \A i \in 1 .. Len(p) : p[i] = q[i]
  PROVE  p = q
<1>1. PICK P, Q : p \in Seq(P) /\ q \in Seq(Q)
  BY DEF IsSeq
<1>2. p \in Seq(P \cup Q) /\ q \in Seq(P \cup Q)
  BY <1>1
<1> QED BY <1>2

\* What Append gives.
LEMMA AppendIs ==
  ASSUME NEW p, IsSeq(p), NEW x
  PROVE  /\ IsSeq(Append(p, x)) /\ Len(Append(p, x)) = Len(p) + 1
         /\ \A i \in 1 .. Len(p) : Append(p, x)[i] = p[i]
         /\ Append(p, x)[Len(p) + 1] = x
<1>1. PICK P : p \in Seq(P)
  BY DEF IsSeq
<1>2. p \in Seq(P \cup {x}) /\ x \in P \cup {x}
  BY <1>1
<1>3. Append(p, x) \in Seq(P \cup {x})
  BY <1>2
<1> QED BY <1>2, <1>3 DEF IsSeq

\* A part of a sequence is one.
LEMMA SubSeqIs ==
  ASSUME NEW p, IsSeq(p), NEW m \in Nat \ {0}
  PROVE  IsSeq(SubSeq(p, m, Len(p)))
<1>1. PICK P : p \in Seq(P)
  BY DEF IsSeq
<1>2. SubSeq(p, m, Len(p)) \in Seq(P)
  BY <1>1
<1> QED BY <1>2 DEF IsSeq

-----------------------------------------------------------------------------
(* Recursion *)

Follows(f, b, G, n) == f[0] = b /\ \A i \in 1 .. n : f[i] = G[<<f[i - 1], i>>]

\* A value for 0 and a rule for the next number make a function.
LEMMA RecursionIs ==
  ASSUME NEW n \in Nat, NEW X, NEW b \in X, NEW G \in [X \X (1 .. n) -> X]
  PROVE  \E f \in [0 .. n -> X] : Follows(f, b, G, n)
<1> DEFINE Bad == {m \in 0 .. n : ~ \E f \in [0 .. m -> X] : Follows(f, b, G, m)}
<1>1. CASE Bad = {}
  <2>1. n \in 0 .. n
    OBVIOUS
  <2> QED BY <1>1, <2>1, Zenon
<1>2. CASE Bad # {}
  <2>1. Bad \subseteq Nat
    OBVIOUS
  <2>2. PICK m \in Bad : \A k \in Bad : m <= k
    <3> HIDE DEF Bad
    <3> QED BY <1>2, <2>1, Least, Zenon
  <2>3. m \in 0 .. n /\ ~ \E f \in [0 .. m -> X] : Follows(f, b, G, m)
    BY Zenon
  <2>4. CASE m = 0
    <3> DEFINE f == [i \in 0 .. 0 |-> b]
    <3>1. f \in [0 .. 0 -> X] /\ Follows(f, b, G, 0)
      BY DEF Follows
    <3> QED BY <2>3, <2>4, <3>1, Zenon
  <2>5. CASE m # 0
    <3>1. m - 1 \in 0 .. n /\ ~ (m <= m - 1) /\ m \in 1 .. n
      BY <2>3, <2>5
    <3>2. PICK f \in [0 .. m - 1 -> X] : Follows(f, b, G, m - 1)
      BY <2>2, <3>1, Zenon
    <3> DEFINE h == [i \in 0 .. m |-> IF i = m THEN G[<<f[m - 1], m>>] ELSE f[i]]
    <3>3. /\ f[m - 1] \in X /\ f[0] = b
          /\ \A i \in 1 .. m - 1 : f[i] = G[<<f[i - 1], i>>]
      BY <3>1, <3>2 DEF Follows
    <3>4. G[<<f[m - 1], m>>] \in X
      BY <3>1, <3>3
    <3>5. h \in [0 .. m -> X]
      BY <3>1, <3>4
    <3>6. h[0] = b /\ h[m] = G[<<h[m - 1], m>>]
      BY <3>1, <3>3
    <3>7. ASSUME NEW i \in 1 .. m, i # m PROVE h[i] = G[<<h[i - 1], i>>]
      <4>1. i \in 1 .. m - 1 /\ i - 1 \in 0 .. m /\ i - 1 # m /\ i \in 0 .. m
        BY <3>1, <3>7
      <4>2. h[i] = f[i] /\ h[i - 1] = f[i - 1]
        BY <3>7, <4>1, Zenon
      <4> QED BY <3>3, <4>1, <4>2, Zenon
    <3> HIDE DEF h
    <3>8. Follows(h, b, G, m)
      BY <3>6, <3>7, Zenon DEF Follows
    <3> QED BY <2>3, <3>5, <3>8, Zenon
  <2> QED BY <2>4, <2>5, Zenon
<1> QED BY <1>1, <1>2, Zenon

-----------------------------------------------------------------------------
(* Only *)

\* h takes the elements of q from s, in order, and all that are in S of the
\* first j.
Keeps(s, S, q, j, h) ==
  /\ h \in [1 .. Len(q) -> 1 .. j]
  /\ \A a \in 1 .. Len(q) : q[a] = s[h[a]] /\ q[a] \in S
  /\ \A a, c \in 1 .. Len(q) : a < c => h[a] < h[c]
  /\ \A i \in 1 .. j : s[i] \in S => \E a \in 1 .. Len(q) : h[a] = i

\* The function inside Only.
KeptBy(s, S, kept) ==
  /\ Only(s, S) = kept[Len(s)]
  /\ \A j \in 0 .. Len(s) : IsSeq(kept[j])
  /\ kept[0] = <<>>
  /\ \A j \in 1 .. Len(s) :
       kept[j] = IF s[j] \in S THEN Append(kept[j - 1], s[j]) ELSE kept[j - 1]

LEMMA KeptIs ==
  ASSUME NEW s, IsSeq(s), NEW S
  PROVE  \E kept : KeptBy(s, S, kept)
<1> DEFINE n == Len(s)
<1>1. PICK T : s \in Seq(T)
  BY Zenon DEF IsSeq
<1>2. n \in Nat /\ \A j \in 1 .. n : s[j] \in T
  BY <1>1
<1> DEFINE G == [p \in Seq(T) \X (1 .. n) |->
                   IF s[p[2]] \in S THEN Append(p[1], s[p[2]]) ELSE p[1]]
<1>3. G \in [Seq(T) \X (1 .. n) -> Seq(T)]
  <2> HIDE DEF n
  <2>1. \A q \in Seq(T) : \A j \in 1 .. n : Append(q, s[j]) \in Seq(T)
    BY <1>2
  <2> SUFFICES ASSUME NEW p \in Seq(T) \X (1 .. n)
               PROVE  (IF s[p[2]] \in S THEN Append(p[1], s[p[2]]) ELSE p[1]) \in Seq(T)
    BY Zenon
  <2>2. p[1] \in Seq(T) /\ p[2] \in 1 .. n
    OBVIOUS
  <2> QED BY <2>1, <2>2, Zenon
<1>4. \A q \in Seq(T) : \A j \in 1 .. n :
        G[<<q, j>>] = IF s[j] \in S THEN Append(q, s[j]) ELSE q
  <2> HIDE DEF n
  <2> QED OBVIOUS
<1> DEFINE e == <<>>
<1>5. e \in Seq(T)
  OBVIOUS
<1> HIDE DEF G
<1>6. PICK f \in [0 .. n -> Seq(T)] : Follows(f, e, G, n)
  BY <1>2, <1>3, <1>5, RecursionIs, Zenon
<1>7. \A j \in 1 .. n : j - 1 \in 0 .. n /\ j \in 0 .. n /\ j # 0
  BY <1>2
<1>8. \A j \in 1 .. n : f[j] = IF s[j] \in S THEN Append(f[j - 1], s[j]) ELSE f[j - 1]
  <2> SUFFICES ASSUME NEW j \in 1 .. n
               PROVE  f[j] = IF s[j] \in S THEN Append(f[j - 1], s[j]) ELSE f[j - 1]
    OBVIOUS
  <2>1. f[j - 1] \in Seq(T) /\ f[j] = G[<<f[j - 1], j>>]
    BY <1>6, <1>7, Zenon DEF Follows
  <2> QED BY <1>4, <2>1, Zenon
<1> DEFINE E(g) == [j \in 0 .. n |-> IF j = 0 THEN <<>>
                                     ELSE IF s[j] \in S THEN Append(g[j - 1], s[j]) ELSE g[j - 1]]
           kept == CHOOSE g : g = E(g)
<1>9. \A j \in 0 .. n : j = 0 \/ j \in 1 .. n
  BY <1>2
<1>10. f = E(f)
  <2>1. \A j \in 0 .. n : f[j] = E(f)[j]
    BY <1>6, <1>8, <1>9, Zenon DEF Follows
  <2>2. f = [j \in 0 .. n |-> f[j]]
    BY Zenon
  <2> QED BY <2>1, <2>2, Zenon
<1>11. kept = E(kept)
  <2> HIDE DEF E
  <2> QED BY <1>10, Zenon
<1>12. Only(s, S) = kept[n]
  BY Zenon DEF Only
<1> HIDE DEF kept
<1>13. /\ kept[0] = <<>>
       /\ \A j \in 1 .. n : kept[j] = IF s[j] \in S THEN Append(kept[j - 1], s[j]) ELSE kept[j - 1]
  <2>1. \A j \in 0 .. n : kept[j] = E(kept)[j]
    BY <1>11, Zenon
  <2>2. 0 \in 0 .. n
    BY <1>2
  <2> QED BY <1>7, <2>1, <2>2, Zenon
<1>14. \A j \in 0 .. n : IsSeq(kept[j])
  <2> DEFINE Bad == {j \in 0 .. n : ~ IsSeq(kept[j])}
  <2> SUFFICES ASSUME Bad # {} PROVE FALSE
    BY Zenon
  <2>1. Bad \subseteq Nat
    BY <1>2
  <2>2. PICK m \in Bad : \A k \in Bad : m <= k
    <3> HIDE DEF Bad
    <3> QED BY <2>1, Least, Zenon
  <2>3. m # 0
    <3>1. IsSeq(<<>>)
      BY <1>5, Zenon DEF IsSeq
    <3> QED BY <1>13, <3>1, Zenon
  <2>4. m \in 1 .. n /\ m - 1 \in 0 .. n /\ ~ (m <= m - 1)
    BY <1>2, <2>3
  <2>5. IsSeq(kept[m - 1])
    BY <2>2, <2>4, Zenon
  <2>6. IsSeq(Append(kept[m - 1], s[m]))
    BY <2>5, AppendIs, Zenon
  <2> QED BY <1>13, <2>4, <2>5, <2>6, Zenon
<1> QED BY <1>12, <1>13, <1>14, Zenon DEF KeptBy

LEMMA KeepsOne ==
  ASSUME NEW s, NEW S, NEW q, IsSeq(q), NEW j \in Nat \ {0}, NEW h, Keeps(s, S, q, j - 1, h),
         NEW r, r = IF s[j] \in S THEN Append(q, s[j]) ELSE q
  PROVE  \E g : Keeps(s, S, r, j, g)
<1> DEFINE n == Len(q)
<1>1. n \in Nat
  BY LenIs, Zenon
<1>2. /\ h \in [1 .. n -> 1 .. (j - 1)]
      /\ \A a \in 1 .. n : q[a] = s[h[a]] /\ q[a] \in S
      /\ \A a, c \in 1 .. n : a < c => h[a] < h[c]
      /\ \A i \in 1 .. (j - 1) : s[i] \in S => \E a \in 1 .. n : h[a] = i
  BY Zenon DEF Keeps
<1>3. \A i \in 1 .. j : i \in 1 .. (j - 1) \/ i = j
  OBVIOUS
<1>4. \A i \in 1 .. (j - 1) : i \in 1 .. j
  OBVIOUS
<1>5. CASE s[j] \notin S
  <2>1. r = q
    BY <1>5, Zenon
  <2>2. h \in [1 .. n -> 1 .. j]
    BY <1>2
  <2>3. \A i \in 1 .. j : s[i] \in S => \E a \in 1 .. n : h[a] = i
    BY <1>2, <1>3, <1>5, Zenon
  <2>4. Keeps(s, S, q, j, h)
    BY <1>2, <2>2, <2>3, Zenon DEF Keeps
  <2> QED BY <2>1, <2>4, Zenon
<1>6. CASE s[j] \in S
  <2> DEFINE g == [a \in 1 .. (n + 1) |-> IF a = n + 1 THEN j ELSE h[a]]
  <2>1. /\ IsSeq(r) /\ Len(r) = n + 1
        /\ \A a \in 1 .. n : r[a] = q[a]
        /\ r[n + 1] = s[j]
    <3>1. r = Append(q, s[j])
      BY <1>6, Zenon
    <3> QED BY <3>1, AppendIs
  <2>2. \A a \in 1 .. (n + 1) : a \in 1 .. n \/ a = n + 1
    BY <1>1
  <2>3. \A a \in 1 .. n : a \in 1 .. (n + 1) /\ a # n + 1
    BY <1>1
  <2>4. n + 1 \in 1 .. (n + 1) /\ j \in 1 .. j
    BY <1>1
  <2>5. g[n + 1] = j /\ \A a \in 1 .. n : g[a] = h[a]
    BY <2>3, <2>4, Zenon
  <2>6. g \in [1 .. (n + 1) -> 1 .. j]
    <3>1. \A a \in 1 .. (n + 1) : g[a] \in 1 .. j
      BY <1>2, <1>4, <2>2, <2>4, <2>5, Zenon
    <3>2. g = [a \in 1 .. (n + 1) |-> g[a]]
      BY Zenon
    <3> HIDE DEF g
    <3> QED BY <3>1, <3>2, Zenon
  <2> HIDE DEF g
  <2>7. \A a \in 1 .. (n + 1) : r[a] = s[g[a]] /\ r[a] \in S
    BY <1>2, <1>6, <2>1, <2>2, <2>5, Zenon
  <2>8. ASSUME NEW a \in 1 .. (n + 1), NEW c \in 1 .. (n + 1), a < c PROVE g[a] < g[c]
    <3>1. a \in 1 .. n
      BY <1>1, <2>8
    <3>2. CASE c \in 1 .. n
      BY <1>2, <2>5, <2>8, <3>1, <3>2, Zenon
    <3>3. CASE c = n + 1
      <4>1. h[a] \in 1 .. (j - 1)
        BY <1>2, <3>1, Zenon
      <4> QED BY <2>5, <3>1, <3>3, <4>1
    <3> QED BY <2>2, <3>2, <3>3, Zenon
  <2>9. ASSUME NEW i \in 1 .. j, s[i] \in S PROVE \E a \in 1 .. (n + 1) : g[a] = i
    <3>1. CASE i = j
      BY <2>4, <2>5, <3>1, Zenon
    <3>2. CASE i \in 1 .. (j - 1)
      <4>1. PICK a \in 1 .. n : h[a] = i
        BY <1>2, <2>9, <3>2, Zenon
      <4> QED BY <2>3, <2>5, <4>1, Zenon
    <3> QED BY <1>3, <3>1, <3>2, Zenon
  <2>10. Keeps(s, S, r, j, g)
    BY <2>1, <2>6, <2>7, <2>8, <2>9, Zenon DEF Keeps
  <2> QED BY <2>10, Zenon
<1> QED BY <1>5, <1>6, Zenon

\* What Only keeps.
LEMMA OnlyKeeps ==
  ASSUME NEW s, IsSeq(s), NEW S
  PROVE  IsSeq(Only(s, S)) /\ \E h : Keeps(s, S, Only(s, S), Len(s), h)
<1> DEFINE n == Len(s)
<1>1. n \in Nat
  BY LenIs, Zenon
<1>0. PICK kept : KeptBy(s, S, kept)
  BY KeptIs, Zenon
<1>2. /\ Only(s, S) = kept[n]
      /\ \A j \in 0 .. n : IsSeq(kept[j])
      /\ kept[0] = <<>>
      /\ \A j \in 1 .. n :
           kept[j] = IF s[j] \in S THEN Append(kept[j - 1], s[j]) ELSE kept[j - 1]
  BY <1>0, Zenon DEF KeptBy
<1> HIDE DEF n
<1> DEFINE Bad == {j \in 0 .. n : ~ \E h : Keeps(s, S, kept[j], j, h)}
<1>3. Bad = {}
  <2> SUFFICES ASSUME Bad # {} PROVE FALSE
    OBVIOUS
  <2>1. Bad \subseteq Nat
    BY <1>1
  <2>2. PICK m \in Bad : \A k \in Bad : m <= k
    <3> HIDE DEF Bad
    <3> QED BY <2>1, Least, Zenon
  <2>3. m \in 0 .. n /\ ~ \E h : Keeps(s, S, kept[m], m, h)
    BY Zenon
  <2>4. CASE m = 0
    <3> DEFINE h == [a \in 1 .. 0 |-> a]
               e == <<>>
    <3>1. Len(e) = 0 /\ kept[0] = e
      BY <1>2
    <3>2. h \in [1 .. 0 -> 1 .. 0] /\ \A a \in 1 .. 0 : FALSE
      OBVIOUS
    <3> HIDE DEF h, e
    <3>3. Keeps(s, S, e, 0, h)
      BY <3>1, <3>2, Zenon DEF Keeps
    <3> QED BY <2>3, <2>4, <3>1, <3>3, Zenon
  <2>5. CASE m # 0
    <3>1. m - 1 \in 0 .. n /\ ~ (m <= m - 1) /\ m \in 1 .. n /\ m \in Nat \ {0}
      BY <1>1, <2>3, <2>5
    <3>2. PICK h : Keeps(s, S, kept[m - 1], m - 1, h)
      BY <2>2, <3>1, Zenon
    <3>3. kept[m] = IF s[m] \in S THEN Append(kept[m - 1], s[m]) ELSE kept[m - 1]
      BY <1>2, <3>1, Zenon
    <3>4. IsSeq(kept[m - 1])
      BY <1>2, <3>1, Zenon
    <3> QED BY <2>3, <3>1, <3>2, <3>3, <3>4, KeepsOne, Zenon
  <2> QED BY <2>4, <2>5, Zenon
<1>4. n \in 0 .. n
  BY <1>1
<1> QED BY <1>2, <1>3, <1>4, Zenon DEF n

Lists(q, x) == \E a \in 1 .. Len(q) : q[a] = x

\* A sequence without repetitions.
Once(s) == \A a, c \in 1 .. Len(s) : s[a] = s[c] => a = c

\* The set of what Only keeps.
LEMMA OnlyLists ==
  ASSUME NEW s, IsSeq(s), NEW S, NEW x
  PROVE  Lists(Only(s, S), x) <=> x \in S /\ Lists(s, x)
<1> DEFINE q == Only(s, S)
<1>1. PICK h : Keeps(s, S, q, Len(s), h)
  BY OnlyKeeps, Zenon
<1> HIDE DEF q
<1>2. /\ h \in [1 .. Len(q) -> 1 .. Len(s)]
      /\ \A a \in 1 .. Len(q) : q[a] = s[h[a]] /\ q[a] \in S
      /\ \A i \in 1 .. Len(s) : s[i] \in S => \E a \in 1 .. Len(q) : h[a] = i
  BY <1>1, Zenon DEF Keeps
<1>3. \A a \in 1 .. Len(q) : h[a] \in 1 .. Len(s)
  BY <1>2, Zenon
<1>4. ASSUME Lists(q, x) PROVE x \in S /\ Lists(s, x)
  BY <1>2, <1>3, <1>4, Zenon DEF Lists
<1>5. ASSUME x \in S, Lists(s, x) PROVE Lists(q, x)
  <2>1. PICK i \in 1 .. Len(s) : s[i] = x
    BY <1>5, Zenon DEF Lists
  <2>2. PICK a \in 1 .. Len(q) : h[a] = i
    BY <1>2, <1>5, <2>1, Zenon
  <2> QED BY <1>2, <2>1, <2>2, Zenon DEF Lists
<1> QED BY <1>4, <1>5, Zenon DEF q

\* What is in order in s is in order in what Only keeps.
LEMMA OnlyOrder ==
  ASSUME NEW s, IsSeq(s), NEW S, Once(s)
  PROVE  /\ Once(Only(s, S))
         /\ \A a \in 1 .. Len(Only(s, S)) : \A i, j \in 1 .. Len(s) :
              /\ s[i] = Only(s, S)[a] /\ j < i /\ s[j] \in S
              => \E c \in 1 .. Len(Only(s, S)) : Only(s, S)[c] = s[j] /\ c < a
<1> DEFINE q == Only(s, S)
<1>1. IsSeq(q) /\ \E h : Keeps(s, S, q, Len(s), h)
  BY OnlyKeeps, Zenon
<1> HIDE DEF q
<1>2. PICK h : Keeps(s, S, q, Len(s), h)
  BY <1>1, Zenon
<1>3. /\ h \in [1 .. Len(q) -> 1 .. Len(s)]
      /\ \A a \in 1 .. Len(q) : q[a] = s[h[a]] /\ q[a] \in S
      /\ \A a, c \in 1 .. Len(q) : a < c => h[a] < h[c]
      /\ \A i \in 1 .. Len(s) : s[i] \in S => \E a \in 1 .. Len(q) : h[a] = i
  BY <1>2, Zenon DEF Keeps
<1>4. \A a \in 1 .. Len(q) : h[a] \in 1 .. Len(s)
  BY <1>3, Zenon
<1>5. Len(q) \in Nat /\ Len(s) \in Nat
  BY <1>1, LenIs, Zenon
<1>6. \A a, c \in 1 .. Len(q) : a < c \/ c < a \/ a = c
  BY <1>5
<1>7. \A i, j \in 1 .. Len(s) : i < j => i # j /\ ~ (j < i)
  BY <1>5
<1>8. Once(q)
  <2> SUFFICES ASSUME NEW a \in 1 .. Len(q), NEW c \in 1 .. Len(q), q[a] = q[c] PROVE a = c
    BY Zenon DEF Once
  <2>1. h[a] = h[c]
    BY <1>3, <1>4, Zenon DEF Once
  <2>2. h[a] \in 1 .. Len(s) /\ h[c] \in 1 .. Len(s)
    BY <1>4, Zenon
  <2>3. ~ (h[a] < h[c]) /\ ~ (h[c] < h[a])
    BY <1>5, <2>1, <2>2
  <2>4. ~ (a < c) /\ ~ (c < a)
    BY <1>3, <2>3, Zenon
  <2> QED BY <1>6, <2>4, Zenon
<1>9. ASSUME NEW a \in 1 .. Len(q), NEW i \in 1 .. Len(s), NEW j \in 1 .. Len(s),
             s[i] = q[a], j < i, s[j] \in S
      PROVE  \E c \in 1 .. Len(q) : q[c] = s[j] /\ c < a
  <2>1. h[a] = i
    BY <1>3, <1>4, <1>9, Zenon DEF Once
  <2>2. PICK c \in 1 .. Len(q) : h[c] = j
    BY <1>3, <1>9, Zenon
  <2>3. ~ (a < c) /\ a # c
    BY <1>3, <1>7, <1>9, <2>1, <2>2, Zenon
  <2> QED BY <1>3, <1>6, <2>2, <2>3, Zenon
<1> QED BY <1>8, <1>9, Zenon DEF q

-----------------------------------------------------------------------------
(* Counting *)

Onto(f, k, n) == \A y \in 1 .. n : \E j \in 1 .. k : f[j] = y

\* k values do not cover more than k numbers.
LEMMA Pigeonhole ==
  ASSUME NEW k \in Nat, NEW n \in Nat, k < n, NEW f \in [1 .. k -> 1 .. n]
  PROVE  ~ Onto(f, k, n)
<1> DEFINE Bad == {j \in Nat : \E m \in Nat : j < m /\ \E g \in [1 .. j -> 1 .. m] : Onto(g, j, m)}
<1> SUFFICES Bad = {}
  BY Zenon
<1> SUFFICES ASSUME Bad # {} PROVE FALSE
  OBVIOUS
<1>1. Bad \subseteq Nat
  OBVIOUS
<1>2. PICK j \in Bad : \A i \in Bad : j <= i
  <2> HIDE DEF Bad
  <2> QED BY <1>1, Least, Zenon
<1>3. PICK m \in Nat : j < m /\ \E g \in [1 .. j -> 1 .. m] : Onto(g, j, m)
  BY Zenon
<1>4. PICK g \in [1 .. j -> 1 .. m] : Onto(g, j, m)
  BY <1>3, Zenon
<1>5. j \in Nat /\ j < m
  BY <1>3, Zenon
<1>6. \A y \in 1 .. m : \E i \in 1 .. j : g[i] = y
  BY <1>4, Zenon DEF Onto
<1>7. j # 0
  <2>1. 1 \in 1 .. m
    BY <1>5
  <2>2. PICK i \in 1 .. j : TRUE
    BY <1>6, <2>1, Zenon
  <2> QED BY <1>5, <2>2
<1> DEFINE c == g[j]
           h == [i \in 1 .. (j - 1) |-> IF g[i] > c THEN g[i] - 1 ELSE IF g[i] = c THEN 1 ELSE g[i]]
<1>8. c \in 1 .. m
  BY <1>5, <1>7
<1>9. \A i \in 1 .. j : g[i] \in 1 .. m
  OBVIOUS
<1>10. \A i \in 1 .. (j - 1) : i \in 1 .. j
  BY <1>5
<1> HIDE DEF c
<1>11. h \in [1 .. (j - 1) -> 1 .. (m - 1)]
  <2>1. \A i \in 1 .. (j - 1) :
          (IF g[i] > c THEN g[i] - 1 ELSE IF g[i] = c THEN 1 ELSE g[i]) \in 1 .. (m - 1)
    <3>1. ASSUME NEW x \in 1 .. m
          PROVE  (IF x > c THEN x - 1 ELSE IF x = c THEN 1 ELSE x) \in 1 .. (m - 1)
      BY <1>5, <1>7, <1>8
    <3>2. \A i \in 1 .. (j - 1) : g[i] \in 1 .. m
      BY <1>9, <1>10, Zenon
    <3> QED BY <3>1, <3>2, Zenon
  <2> QED BY <2>1, Zenon
<1>12. ASSUME NEW y \in 1 .. (m - 1) PROVE \E i \in 1 .. (j - 1) : h[i] = y
  <2>1. CASE y < c
    <3>1. y \in 1 .. m
      BY <1>5
    <3>2. PICK i \in 1 .. j : g[i] = y
      BY <1>6, <3>1, Zenon
    <3>3. i \in 1 .. (j - 1)
      BY <1>5, <1>8, <2>1, <3>2 DEF c
    <3>4. h[i] = y
      BY <1>8, <2>1, <3>2, <3>3
    <3> QED BY <3>3, <3>4, Zenon
  <2>2. CASE ~ (y < c)
    <3>1. y + 1 \in 1 .. m
      BY <1>5
    <3>2. PICK i \in 1 .. j : g[i] = y + 1
      BY <1>6, <3>1, Zenon
    <3>3. i \in 1 .. (j - 1)
      BY <1>5, <1>8, <2>2, <3>2 DEF c
    <3>4. h[i] = y
      BY <1>8, <2>2, <3>2, <3>3
    <3> QED BY <3>3, <3>4, Zenon
  <2> QED BY <2>1, <2>2, Zenon
<1>13. j - 1 \in Nat /\ m - 1 \in Nat /\ j - 1 < m - 1 /\ ~ (j <= j - 1)
  BY <1>5, <1>7
<1> HIDE DEF h
<1>14. Onto(h, j - 1, m - 1)
  BY <1>12, Zenon DEF Onto
<1>15. j - 1 \in Bad
  BY <1>11, <1>13, <1>14, Zenon
<1> QED BY <1>2, <1>13, <1>15, Zenon

\* Nor are there more than n different ones among n.
LEMMA OnceIsShort ==
  ASSUME NEW n \in Nat, NEW s, IsSeq(s), Once(s), \A a \in 1 .. Len(s) : s[a] \in 1 .. n
  PROVE  Len(s) <= n
<1>1. Len(s) \in Nat
  BY LenIs, Zenon
<1> SUFFICES ASSUME n < Len(s) PROVE FALSE
  BY <1>1
<1> DEFINE P(y, a) == a \in 1 .. Len(s) /\ s[a] = y
           f == [y \in 1 .. n |-> IF \E a : P(y, a) THEN CHOOSE a : P(y, a) ELSE 1]
<1>2. 1 \in 1 .. Len(s)
  BY <1>1
<1>3. \A y \in 1 .. n : f[y] \in 1 .. Len(s)
  BY <1>2, Zenon
<1>4. f = [y \in 1 .. n |-> f[y]]
  OBVIOUS
<1>5. ASSUME NEW a \in 1 .. Len(s) PROVE \E y \in 1 .. n : f[y] = a
  <2>1. s[a] \in 1 .. n /\ P(s[a], a)
    OBVIOUS
  <2>2. P(s[a], f[s[a]])
    <3> HIDE DEF P
    <3> QED BY <2>1, Zenon
  <2>3. f[s[a]] = a
    BY <2>2, Zenon DEF Once
  <2> QED BY <2>1, <2>3, Zenon
<1> HIDE DEF f
<1>6. f \in [1 .. n -> 1 .. Len(s)]
  BY <1>3, <1>4, Zenon
<1>7. Onto(f, n, Len(s))
  BY <1>5, Zenon DEF Onto
<1> QED BY <1>1, <1>6, <1>7, Pigeonhole, Zenon

-----------------------------------------------------------------------------
(* Keys *)

\* serialize starts with the number of dimensions and the dimensions.
Starts(c, s) ==
  /\ IsSeq(c) /\ Len(c) >= Len(s) + 1
  /\ c[1] = Len(s)
  /\ \A i \in 1 .. Len(s) : c[i + 1] = s[i]

\* What starts with a sequence and goes on in some way.
LEMMA StartsOn ==
  ASSUME NEW s, IsSeq(s), NEW p, Starts(p, s), NEW q, IsSeq(q)
  PROVE  Starts(p \o q, s)
<1>1. Len(s) \in Nat /\ Len(p) \in Nat /\ Len(q) \in Nat /\ IsSeq(p) /\ Len(p) >= Len(s) + 1
  BY LenIs DEF Starts
<1>2. /\ IsSeq(p \o q) /\ Len(p \o q) = Len(p) + Len(q)
      /\ \A i \in 1 .. (Len(p) + Len(q)) :
           (p \o q)[i] = IF i <= Len(p) THEN p[i] ELSE q[i - Len(p)]
  BY <1>1, ConcatIs, Zenon
<1>3. Len(p \o q) >= Len(s) + 1
  BY <1>1, <1>2
<1>4. (p \o q)[1] = p[1] /\ \A i \in 1 .. Len(s) : (p \o q)[i + 1] = p[i + 1]
  BY <1>1, <1>2
<1> QED BY <1>2, <1>3, <1>4, Zenon DEF Starts

LEMMA SerializeStarts ==
  ASSUME NEW s, IsSeq(s)
  PROVE  Starts(serialize(s), s)
<1> DEFINE h == <<Len(s)>>
           t == [i \in 1 .. Len(s) |-> Prod(s, i + 1, Len(s))]
           z == <<0>>
<1>1. Len(s) \in Nat
  BY LenIs
<1>2. IsSeq(h) /\ Len(h) = 1 /\ h[1] = Len(s)
  <2>1. h \in Seq(Nat)
    BY <1>1
  <2> QED BY <2>1, Zenon DEF IsSeq
<1>3. IsSeq(z)
  <2>1. z \in Seq(Nat)
    OBVIOUS
  <2> QED BY <2>1, Zenon DEF IsSeq
<1>4. IsSeq(t)
  <2>1. t = [i \in 1 .. Len(s) |-> t[i]]
    BY Zenon
  <2> HIDE DEF t
  <2> QED BY <1>1, <2>1, SeqIs, Zenon
<1> HIDE DEF h, t, z
<1>5. Starts(h \o s, s)
  <2>1. /\ IsSeq(h \o s) /\ Len(h \o s) = Len(h) + Len(s)
        /\ \A i \in 1 .. (Len(h) + Len(s)) :
             (h \o s)[i] = IF i <= Len(h) THEN h[i] ELSE s[i - Len(h)]
    BY <1>2, ConcatIs, Zenon
  <2>2. \A i \in 1 .. Len(s) : (h \o s)[i + 1] = s[i]
    BY <1>1, <1>2, <2>1
  <2>3. (h \o s)[1] = Len(s) /\ Len(h \o s) >= Len(s) + 1
    BY <1>1, <1>2, <2>1
  <2> QED BY <2>1, <2>2, <2>3, Zenon DEF Starts
<1>6. Starts((h \o s \o t) \o z, s)
  BY <1>3, <1>4, <1>5, StartsOn, Zenon
<1> QED BY <1>6, Zenon DEF serialize, h, t, z

\* The start says which sequence it was.
LEMMA StartDetermines ==
  ASSUME NEW s, IsSeq(s), NEW t, IsSeq(t), NEW c, Starts(c, s), Starts(c, t)
  PROVE  s = t
<1>1. Len(s) = Len(t)
  BY Zenon DEF Starts
<1>2. \A i \in 1 .. Len(s) : s[i] = t[i]
  BY <1>1, Zenon DEF Starts
<1> QED BY <1>1, <1>2, SameElements, Zenon

\* A key of one tensor determines the type, the parameters and the tensor.
LEMMA Key1Determines ==
  ASSUME NEW a, NEW p, NEW s, IsSeq(s), NEW b, NEW q, NEW t, IsSeq(t),
         Key1(a, p, s) = Key1(b, q, t)
  PROVE  a = b /\ p = q /\ s = t
<1>1. a = b /\ p = q /\ serialize(s) = serialize(t)
  BY DEF Key1
<1>2. Starts(serialize(s), s) /\ Starts(serialize(s), t)
  BY <1>1, SerializeStarts, Zenon
<1> QED BY <1>1, <1>2, StartDetermines, Zenon

\* A key of two determines the type, the parameters and the second tensor.
LEMMA Key2Determines ==
  ASSUME NEW a, NEW p, NEW s, IsSeq(s), NEW t, IsSeq(t),
         NEW b, NEW q, NEW u, IsSeq(u), NEW v, IsSeq(v),
         Key2(a, p, s, t) = Key2(b, q, u, v)
  PROVE  a = b /\ p = q /\ t = v
<1> DEFINE Rest2(x, y) == SubSeq(serialize(x), Len(serialize(y)) + 1, Len(serialize(x)))
<1>1. a = b /\ p = q /\ serialize(t) \o Rest2(s, t) = serialize(v) \o Rest2(u, v)
  BY DEF Key2
<1>2. ASSUME NEW x, IsSeq(x), NEW y, IsSeq(y) PROVE Starts(serialize(y) \o Rest2(x, y), y)
  <2>1. Starts(serialize(y), y) /\ Starts(serialize(x), x)
    BY <1>2, SerializeStarts, Zenon
  <2>2. IsSeq(serialize(x)) /\ IsSeq(serialize(y))
    BY <2>1, Zenon DEF Starts
  <2>3. Len(serialize(y)) + 1 \in Nat \ {0}
    BY <2>2, LenIs
  <2>4. IsSeq(Rest2(x, y))
    BY <2>2, <2>3, SubSeqIs, Zenon
  <2> HIDE DEF Rest2
  <2> QED BY <1>2, <2>1, <2>4, StartsOn, Zenon
<1> HIDE DEF Rest2
<1>3. Starts(serialize(t) \o Rest2(s, t), t) /\ Starts(serialize(v) \o Rest2(u, v), v)
  BY <1>2, Zenon
<1> QED BY <1>1, <1>3, StartDetermines, Zenon

-----------------------------------------------------------------------------
(* The graph that load_onnx builds *)

Two == {"conv2d", "matmul", "ew_add"}

\* The number of inputs of a node of type t.
NumInputs(t) ==
  IF t \in {"input", "weight"} THEN 0
  ELSE IF t \in {"relu", "reshape", "transpose"} THEN 1 ELSE 2
Types == Two \cup {"input", "weight", "relu", "reshape", "transpose", "pool2d_avg"}

\* k is a key under which get_or_create_* stores p.
KeyOf(k, p) ==
  \/ /\ p.type \in Two
     /\ \E pars : k = Key2(p.type, pars, p.inputs[1], p.inputs[2])
  \/ /\ p.type = "pool2d_avg"
     /\ \E size, stride, pad :
          /\ k = Key1("pool2d_avg", <<size, stride, pad>>, p.inputs[1])
          /\ p.inputs[2] = <<p.inputs[1][2], 1, size, size>>
  \/ /\ p.type \in {"relu", "reshape"}
     /\ \E pars : k = Key1(p.type, pars, p.inputs[1])

\* An operator object records as many inputs as its type has; an input or a
\* weight records itself.
PtrOK(p) ==
  /\ p.type \in Types
  /\ IsSeq(p.out) /\ IsSeq(p.inputs)
  /\ Len(p.inputs) = IF NumInputs(p.type) = 0 THEN 1 ELSE NumInputs(p.type)
  /\ \A i \in 1 .. Len(p.inputs) : IsSeq(p.inputs[i])

TypeIn(g, n) == g.nodes[n].ptr.type
StaleIn(g, n, i) == g.nodes[n].ptr.inputs[i] # Shape(g, g.nodes[n].in[i])

\* What a node of type t may read: transposed matrices are made for a product,
\* and the weight of a pool for the pool.
Wired(g, t, in) ==
  /\ IsSeq(in) /\ Len(in) = NumInputs(t)
  /\ \A i \in 1 .. Len(in) : TypeIn(g, in[i]) = "transpose" => t = "matmul" /\ i = 2
  /\ t = "transpose" => TypeIn(g, in[1]) = "weight"
  /\ t = "matmul" => TypeIn(g, in[2]) \in {"weight", "transpose"}
  /\ t = "pool2d_avg" => TypeIn(g, in[2]) = "weight"

\* A recorded input is stale only where the key did not tell it from an
\* earlier node's.
StaleOK(g, p, in, n) ==
  \A i \in 1 .. Len(in) :
    p.inputs[i] # Shape(g, in[i]) =>
      /\ i = 1 /\ p.type \in Two
      /\ \E m \in 1 .. n : g.nodes[m].ptr = p /\ ~ StaleIn(g, m, 1)

NodeOK(g, n) ==
  /\ PtrOK(g.nodes[n].ptr)
  /\ Wired(g, g.nodes[n].ptr.type, g.nodes[n].in)
  /\ \A i \in 1 .. Len(g.nodes[n].in) : g.nodes[n].in[i] \in 1 .. (n - 1)
  /\ StaleOK(g, g.nodes[n].ptr, g.nodes[n].in, n - 1)

\* Some node has p with exactly the inputs p records.
Created(g, p) ==
  \E m \in 1 .. Len(g.nodes) :
    /\ g.nodes[m].ptr = p
    /\ \A i \in 1 .. Len(g.nodes[m].in) : ~ StaleIn(g, m, i)

MemoOK(g) ==
  \A k \in DOMAIN g.memo :
    /\ KeyOf(k, g.memo[k]) /\ PtrOK(g.memo[k])
    /\ Created(g, g.memo[k])

GoodGraph(g) ==
  /\ g = [nodes |-> g.nodes, memo |-> g.memo]
  /\ IsSeq(g.nodes)
  /\ \A n \in 1 .. Len(g.nodes) : NodeOK(g, n)
  /\ MemoOK(g)

\* The nodes of g are the first ones of h.
Prefix(g, h) ==
  /\ IsSeq(h.nodes) /\ Len(g.nodes) <= Len(h.nodes)
  /\ \A n \in 1 .. Len(g.nodes) : h.nodes[n] = g.nodes[n]

\* What has been made stays as it is.
LEMMA NodesStay ==
  ASSUME NEW g, GoodGraph(g), NEW h, Prefix(g, h)
  PROVE  /\ \A n \in 1 .. Len(g.nodes) : NodeOK(h, n)
         /\ \A p : Created(g, p) => Created(h, p)
<1>1. Len(g.nodes) \in Nat /\ Len(h.nodes) \in Nat
  BY LenIs DEF GoodGraph, Prefix
<1>2. \A n \in 1 .. Len(g.nodes) : n \in Nat /\ n \in 1 .. Len(h.nodes)
  BY <1>1 DEF Prefix
<1>3. \A n \in 1 .. Len(g.nodes) : \A m \in 1 .. (n - 1) : m \in 1 .. Len(g.nodes)
  BY <1>1
<1>4. \A n \in 1 .. Len(g.nodes) : Shape(h, n) = Shape(g, n) /\ TypeIn(h, n) = TypeIn(g, n)
  BY Zenon DEF Prefix, Shape, TypeIn
<1>5. ASSUME NEW n \in 1 .. Len(g.nodes) 
      PROVE  /\ h.nodes[n] = g.nodes[n]
             /\ \A i \in 1 .. Len(g.nodes[n].in) :
                  /\ g.nodes[n].in[i] \in 1 .. Len(g.nodes)
                  /\ StaleIn(h, n, i) <=> StaleIn(g, n, i)
  <2>1. \A i \in 1 .. Len(g.nodes[n].in) : g.nodes[n].in[i] \in 1 .. (n - 1)
    BY Zenon DEF GoodGraph, NodeOK
  <2>2. h.nodes[n] = g.nodes[n]
    BY Zenon DEF Prefix
  <2> QED BY <1>3, <1>4, <2>1, <2>2, Zenon DEF StaleIn
<1>6. ASSUME NEW n \in 1 .. Len(g.nodes) PROVE NodeOK(h, n)
  <2> DEFINE p == g.nodes[n].ptr
             in == g.nodes[n].in
  <2>1. h.nodes[n] = g.nodes[n] /\ NodeOK(g, n)
    BY Zenon DEF GoodGraph, Prefix
  <2>2. \A i \in 1 .. Len(in) : in[i] \in 1 .. Len(g.nodes)
    BY <1>5, Zenon
  <2>3. IsSeq(in) /\ Len(in) = NumInputs(p.type) /\ p.type \in Types
    BY <2>1, Zenon DEF NodeOK, Wired, PtrOK
  <2>4. /\ p.type = "transpose" => 1 \in 1 .. Len(in)
        /\ p.type \in {"matmul", "pool2d_avg"} => 2 \in 1 .. Len(in)
    BY <2>3 DEF NumInputs
  <2>5. Wired(h, p.type, in)
    BY <1>4, <2>1, <2>2, <2>4, Zenon DEF NodeOK, Wired
  <2>6. StaleOK(h, p, in, n - 1)
    <3> SUFFICES ASSUME NEW i \in 1 .. Len(in), p.inputs[i] # Shape(h, in[i])
                 PROVE  /\ i = 1 /\ p.type \in Two
                        /\ \E m \in 1 .. (n - 1) : h.nodes[m].ptr = p /\ ~ StaleIn(h, m, 1)
      BY Zenon DEF StaleOK
    <3>1. p.inputs[i] # Shape(g, in[i])
      BY <1>4, <2>2, Zenon
    <3>2. /\ i = 1 /\ p.type \in Two
          /\ \E m \in 1 .. (n - 1) : g.nodes[m].ptr = p /\ ~ StaleIn(g, m, 1)
      BY <2>1, <3>1, Zenon DEF NodeOK, StaleOK
    <3>3. PICK m \in 1 .. (n - 1) : g.nodes[m].ptr = p /\ ~ StaleIn(g, m, 1)
      BY <3>2, Zenon
    <3>4. m \in 1 .. Len(g.nodes)
      BY <1>3, Zenon
    <3>5. NodeOK(g, m) /\ g.nodes[m].ptr.type = p.type
      BY <3>3, <3>4, Zenon DEF GoodGraph
    <3>6. 1 \in 1 .. Len(g.nodes[m].in)
      <4>1. Len(g.nodes[m].in) = 2
        BY <3>2, <3>5 DEF NodeOK, Wired, NumInputs, Two
      <4> QED BY <4>1
    <3>7. h.nodes[m].ptr = p /\ ~ StaleIn(h, m, 1)
      BY <1>5, <3>3, <3>4, <3>6, Zenon
    <3> QED BY <3>2, <3>7, Zenon
  <2> QED BY <2>1, <2>5, <2>6, Zenon DEF NodeOK
<1>7. ASSUME NEW p, Created(g, p) PROVE Created(h, p)
  <2>1. PICK m \in 1 .. Len(g.nodes) :
          /\ g.nodes[m].ptr = p
          /\ \A i \in 1 .. Len(g.nodes[m].in) : ~ StaleIn(g, m, i)
    BY <1>7, Zenon DEF Created
  <2>2. h.nodes[m] = g.nodes[m] /\ \A i \in 1 .. Len(g.nodes[m].in) : ~ StaleIn(h, m, i)
    BY <1>5, <2>1, Zenon
  <2> QED BY <1>2, <2>1, <2>2, Zenon DEF Created
<1> QED BY <1>6, <1>7, Zenon

\* h is g with one more node, of type t.
Added(g, h, t, in) ==
  /\ GoodGraph(h) /\ Prefix(g, h)
  /\ Len(h.nodes) = Len(g.nodes) + 1
  /\ TypeIn(h, Len(h.nodes)) = t /\ h.nodes[Len(h.nodes)].in = in

\* A node whose inputs are as StaleOK says can be added, with entries for what
\* was created.
LEMMA AddNode ==
  ASSUME NEW g, GoodGraph(g), NEW p, PtrOK(p), NEW in, Wired(g, p.type, in),
         \A i \in 1 .. Len(in) : in[i] \in 1 .. Len(g.nodes),
         StaleOK(g, p, in, Len(g.nodes)),
         NEW m, \A k \in DOMAIN m : \/ k \in DOMAIN g.memo /\ m[k] = g.memo[k]
                                    \/ /\ KeyOf(k, m[k]) /\ m[k] = p
                                       /\ \A i \in 1 .. Len(in) : p.inputs[i] = Shape(g, in[i])
  PROVE  Added(g, [nodes |-> Append(g.nodes, Node(p, in)), memo |-> m], p.type, in)
<1> DEFINE h == [nodes |-> Append(g.nodes, Node(p, in)), memo |-> m]
           N == Len(g.nodes)
<1>1. N \in Nat /\ IsSeq(g.nodes)
  BY LenIs, Zenon DEF GoodGraph
<1>2. /\ h = [nodes |-> h.nodes, memo |-> h.memo] /\ h.memo = m
      /\ h.nodes = Append(g.nodes, Node(p, in))
  OBVIOUS
<1> HIDE DEF h
<1>3. /\ IsSeq(h.nodes) /\ Len(h.nodes) = N + 1
      /\ \A n \in 1 .. N : h.nodes[n] = g.nodes[n]
      /\ h.nodes[N + 1] = Node(p, in)
  <2> DEFINE q == Append(g.nodes, Node(p, in))
  <2>1. /\ IsSeq(q) /\ Len(q) = N + 1
        /\ \A n \in 1 .. N : q[n] = g.nodes[n]
        /\ q[N + 1] = Node(p, in)
    BY <1>1, AppendIs
  <2> HIDE DEF q
  <2> QED BY <1>2, <2>1, Zenon DEF q
<1>4. h.nodes[N + 1].ptr = p /\ h.nodes[N + 1].in = in
  BY <1>3 DEF Node
<1>5. N <= N + 1 /\ N + 1 \in 1 .. (N + 1) /\ (N + 1) - 1 = N
  BY <1>1
<1>6. Prefix(g, h)
  BY <1>3, <1>5, Zenon DEF Prefix
<1>7. /\ \A n \in 1 .. N : NodeOK(h, n)
      /\ \A q : Created(g, q) => Created(h, q)
  BY <1>6, NodesStay, Zenon
<1>8. \A n \in 1 .. N : Shape(h, n) = Shape(g, n) /\ TypeIn(h, n) = TypeIn(g, n)
  BY <1>3, Zenon DEF Shape, TypeIn
<1>9. p.type \in Types /\ Len(in) = NumInputs(p.type) /\ IsSeq(in)
  BY Zenon DEF PtrOK, Wired
<1>10. NodeOK(h, N + 1)
  <2>1. /\ p.type = "transpose" => 1 \in 1 .. Len(in)
        /\ p.type \in {"matmul", "pool2d_avg"} => 2 \in 1 .. Len(in)
    BY <1>9 DEF NumInputs
  <2>2. Wired(h, p.type, in)
    BY <1>8, <2>1, Zenon DEF Wired
  <2>3. StaleOK(h, p, in, N)
    <3> SUFFICES ASSUME NEW i \in 1 .. Len(in), p.inputs[i] # Shape(h, in[i])
                 PROVE  /\ i = 1 /\ p.type \in Two
                        /\ \E n \in 1 .. N : h.nodes[n].ptr = p /\ ~ StaleIn(h, n, 1)
      BY Zenon DEF StaleOK
    <3>1. /\ i = 1 /\ p.type \in Two
          /\ \E n \in 1 .. N : g.nodes[n].ptr = p /\ ~ StaleIn(g, n, 1)
      BY <1>8, Zenon DEF StaleOK
    <3>2. PICK n \in 1 .. N : g.nodes[n].ptr = p /\ ~ StaleIn(g, n, 1)
      BY <3>1, Zenon
    <3>3. NodeOK(g, n)
      BY Zenon DEF GoodGraph
    <3>4. 1 \in 1 .. Len(g.nodes[n].in) /\ n \in Nat
      <4>1. Len(g.nodes[n].in) = 2
        BY <3>1, <3>2, <3>3 DEF NodeOK, Wired, NumInputs, Two
      <4> QED BY <1>1, <4>1
    <3>5. g.nodes[n].in[1] \in 1 .. N
      <4>1. g.nodes[n].in[1] \in 1 .. (n - 1)
        BY <3>3, <3>4, Zenon DEF NodeOK
      <4> QED BY <1>1, <4>1
    <3>6. h.nodes[n] = g.nodes[n] /\ Shape(h, g.nodes[n].in[1]) = Shape(g, g.nodes[n].in[1])
      BY <1>3, <1>8, <3>5, Zenon
    <3>7. h.nodes[n].ptr = p /\ ~ StaleIn(h, n, 1)
      BY <3>2, <3>6, Zenon DEF StaleIn
    <3> QED BY <3>1, <3>7, Zenon
  <2> QED BY <1>4, <1>5, <2>2, <2>3, Zenon DEF NodeOK
<1>11. \A n \in 1 .. (N + 1) : NodeOK(h, n)
  <2>1. \A n \in 1 .. (N + 1) : n \in 1 .. N \/ n = N + 1
    BY <1>1
  <2> QED BY <1>7, <1>10, <2>1, Zenon
<1>12. (\A i \in 1 .. Len(in) : p.inputs[i] = Shape(g, in[i])) => Created(h, p)
  <2> SUFFICES ASSUME \A i \in 1 .. Len(in) : p.inputs[i] = Shape(g, in[i])
               PROVE  Created(h, p)
    OBVIOUS
  <2>1. \A i \in 1 .. Len(in) : ~ StaleIn(h, N + 1, i)
    BY <1>4, <1>8, Zenon DEF StaleIn
  <2> QED BY <1>3, <1>4, <1>5, <2>1, Zenon DEF Created
<1>13. MemoOK(h)
  <2> SUFFICES ASSUME NEW k \in DOMAIN m
               PROVE  KeyOf(k, m[k]) /\ PtrOK(m[k]) /\ Created(h, m[k])
    BY <1>2, Zenon DEF MemoOK
  <2>1. CASE k \in DOMAIN g.memo /\ m[k] = g.memo[k]
    BY <1>7, <2>1, Zenon DEF GoodGraph, MemoOK
  <2>2. CASE ~ (k \in DOMAIN g.memo /\ m[k] = g.memo[k])
    BY <1>12, <2>2, Zenon
  <2> QED BY <2>1, <2>2, Zenon
<1>14. GoodGraph(h)
  BY <1>2, <1>3, <1>11, <1>13, Zenon DEF GoodGraph
<1>15. Added(g, h, p.type, in)
  BY <1>3, <1>4, <1>6, <1>14, Zenon DEF Added, TypeIn
<1> QED BY <1>15, Zenon DEF h

\* A key tells whose object it stores, up to the first of two inputs.
LEMMA KeyTells ==
  ASSUME NEW k, NEW p, PtrOK(p), KeyOf(k, p), NEW q, PtrOK(q), KeyOf(k, q)
  PROVE  /\ p.type = q.type
         /\ p.type \in Two => p.inputs[2] = q.inputs[2]
         /\ p.type \notin Two => p.inputs[1] = q.inputs[1]
         /\ p.type = "pool2d_avg" => p.inputs[2] = q.inputs[2]
<1>1. \A t, pars, a, b : Key1(t, pars, a)[1] = t /\ Key2(t, pars, a, b)[1] = t
  BY DEF Key1, Key2
<1>2. ASSUME NEW o, KeyOf(k, o) PROVE k[1] = o.type
  <2>1. CASE \E pars : k = Key2(o.type, pars, o.inputs[1], o.inputs[2])
    BY <1>1, <2>1
  <2>2. CASE o.type = "pool2d_avg" /\ \E a, b, c : k = Key1("pool2d_avg", <<a, b, c>>, o.inputs[1])
    BY <1>1, <2>2
  <2>3. CASE \E pars : k = Key1(o.type, pars, o.inputs[1])
    BY <1>1, <2>3
  <2> QED BY <1>2, <2>1, <2>2, <2>3, Zenon DEF KeyOf
<1>3. p.type = q.type
  BY <1>2, Zenon
<1>4. IsSeq(p.inputs[1]) /\ IsSeq(q.inputs[1])
  <2>1. 1 \in 1 .. Len(p.inputs) /\ 1 \in 1 .. Len(q.inputs)
    BY DEF PtrOK, NumInputs
  <2> QED BY <2>1, Zenon DEF PtrOK
<1>5. CASE p.type \in Two
  <2>1. IsSeq(p.inputs[2]) /\ IsSeq(q.inputs[2])
    <3>1. 2 \in 1 .. Len(p.inputs) /\ 2 \in 1 .. Len(q.inputs)
      BY <1>3, <1>5 DEF PtrOK, NumInputs, Two
    <3> QED BY <3>1, Zenon DEF PtrOK
  <2>2. p.type # "pool2d_avg" /\ p.type \notin {"relu", "reshape"}
    BY <1>5 DEF Two
  <2>3. PICK pars : k = Key2(p.type, pars, p.inputs[1], p.inputs[2])
    BY <2>2, Zenon DEF KeyOf
  <2>4. PICK pars2 : k = Key2(q.type, pars2, q.inputs[1], q.inputs[2])
    BY <1>3, <2>2, Zenon DEF KeyOf
  <2>5. p.inputs[2] = q.inputs[2]
    <3>1. Key2(p.type, pars, p.inputs[1], p.inputs[2])
          = Key2(q.type, pars2, q.inputs[1], q.inputs[2])
      BY <2>3, <2>4, Zenon
    <3> QED BY <1>4, <2>1, <3>1, Key2Determines
  <2> QED BY <1>3, <1>5, <2>2, <2>5, Zenon
<1>6. CASE p.type = "pool2d_avg"
  <2>1. p.type \notin Two /\ p.type \notin {"relu", "reshape"}
    BY <1>6 DEF Two
  <2>2. PICK a, b, c : /\ k = Key1("pool2d_avg", <<a, b, c>>, p.inputs[1])
                       /\ p.inputs[2] = <<p.inputs[1][2], 1, a, a>>
    BY <2>1, Zenon DEF KeyOf
  <2>3. PICK d, e, f : /\ k = Key1("pool2d_avg", <<d, e, f>>, q.inputs[1])
                       /\ q.inputs[2] = <<q.inputs[1][2], 1, d, d>>
    BY <1>3, <2>1, Zenon DEF KeyOf
  <2>4. <<a, b, c>> = <<d, e, f>> /\ p.inputs[1] = q.inputs[1]
    <3>1. Key1("pool2d_avg", <<a, b, c>>, p.inputs[1])
          = Key1("pool2d_avg", <<d, e, f>>, q.inputs[1])
      BY <2>2, <2>3, Zenon
    <3> QED BY <1>4, <3>1, Key1Determines
  <2>5. a = d
    BY <2>4
  <2> QED BY <1>3, <2>1, <2>2, <2>3, <2>4, <2>5, Zenon
<1>7. CASE p.type \notin Two /\ p.type # "pool2d_avg"
  <2>1. PICK pars : k = Key1(p.type, pars, p.inputs[1])
    BY <1>7, Zenon DEF KeyOf
  <2>2. PICK pars2 : k = Key1(q.type, pars2, q.inputs[1])
    BY <1>3, <1>7, Zenon DEF KeyOf
  <2>3. p.inputs[1] = q.inputs[1]
    <3>1. Key1(p.type, pars, p.inputs[1]) = Key1(q.type, pars2, q.inputs[1])
      BY <2>1, <2>2, Zenon
    <3> QED BY <1>4, <3>1, Key1Determines
  <2> QED BY <1>3, <1>7, <2>3, Zenon
<1> QED BY <1>5, <1>6, <1>7, Zenon

\* get_or_create_*: the operator wanted, or one that only differs in the first
\* of two inputs.
LEMMA GetOrCreateAdds ==
  ASSUME NEW g, GoodGraph(g), NEW k, NEW p, PtrOK(p), KeyOf(k, p),
         NEW in, Wired(g, p.type, in),
         \A i \in 1 .. Len(in) : in[i] \in 1 .. Len(g.nodes) /\ p.inputs[i] = Shape(g, in[i])
  PROVE  Added(g, GetOrCreate(g, k, p, in), p.type, in)
<1>1. CASE k \notin DOMAIN g.memo
  <2> DEFINE m == [j \in DOMAIN g.memo \cup {k} |-> IF j = k THEN p ELSE g.memo[j]]
  <2>1. GetOrCreate(g, k, p, in) = [nodes |-> Append(g.nodes, Node(p, in)), memo |-> m]
    BY <1>1, Zenon DEF GetOrCreate
  <2>2. StaleOK(g, p, in, Len(g.nodes))
    BY Zenon DEF StaleOK
  <2>3. \A j \in DOMAIN m : \/ j \in DOMAIN g.memo /\ m[j] = g.memo[j]
                            \/ /\ KeyOf(j, m[j]) /\ m[j] = p
                               /\ \A i \in 1 .. Len(in) : p.inputs[i] = Shape(g, in[i])
    BY Zenon
  <2> HIDE DEF m
  <2>4. Added(g, [nodes |-> Append(g.nodes, Node(p, in)), memo |-> m], p.type, in)
    BY <2>2, <2>3, AddNode, Zenon
  <2> QED BY <2>1, <2>4, Zenon
<1>2. CASE k \in DOMAIN g.memo
  <2> DEFINE q == g.memo[k]
  <2>1. GetOrCreate(g, k, p, in) = [nodes |-> Append(g.nodes, Node(q, in)), memo |-> g.memo]
    BY <1>2, Zenon DEF GetOrCreate
  <2>2. KeyOf(k, q) /\ PtrOK(q) /\ Created(g, q)
    BY <1>2, Zenon DEF GoodGraph, MemoOK
  <2> HIDE DEF q
  <2>3. /\ p.type = q.type
        /\ p.type \in Two => p.inputs[2] = q.inputs[2]
        /\ p.type \notin Two => p.inputs[1] = q.inputs[1]
        /\ p.type = "pool2d_avg" => p.inputs[2] = q.inputs[2]
    BY <2>2, KeyTells, Zenon
  <2>4. StaleOK(g, q, in, Len(g.nodes))
    <3> SUFFICES ASSUME NEW i \in 1 .. Len(in), q.inputs[i] # p.inputs[i]
                 PROVE  /\ i = 1 /\ q.type \in Two
                        /\ \E n \in 1 .. Len(g.nodes) : g.nodes[n].ptr = q /\ ~ StaleIn(g, n, 1)
      BY Zenon DEF StaleOK
    <3>1. i \in {1, 2} /\ (i = 2 => p.type \in Two \cup {"pool2d_avg"})
      <4>1. Len(in) = NumInputs(p.type) /\ p.type \in Types
        BY Zenon DEF Wired, PtrOK
      <4> QED BY <4>1 DEF NumInputs, Types, Two
    <3>2. i = 1 /\ p.type \in Two
      BY <2>3, <3>1
    <3>3. PICK n \in 1 .. Len(g.nodes) :
            /\ g.nodes[n].ptr = q
            /\ \A j \in 1 .. Len(g.nodes[n].in) : ~ StaleIn(g, n, j)
      BY <2>2, Zenon DEF Created
    <3>4. NodeOK(g, n)
      BY Zenon DEF GoodGraph
    <3>5. 1 \in 1 .. Len(g.nodes[n].in)
      BY <2>3, <3>2, <3>3, <3>4 DEF NodeOK, Wired, NumInputs, Two
    <3> QED BY <2>3, <3>2, <3>3, <3>5, Zenon
  <2>5. Wired(g, q.type, in)
    BY <2>3, Zenon
  <2>6. Added(g, [nodes |-> Append(g.nodes, Node(q, in)), memo |-> g.memo], q.type, in)
    BY <2>2, <2>4, <2>5, AddNode, Zenon
  <2> QED BY <2>1, <2>3, <2>6, Zenon
<1> QED BY <1>1, <1>2, Zenon

-----------------------------------------------------------------------------
(* The methods of Graph *)

\* Pairs and singletons.
LEMMA TupleIs ==
  ASSUME NEW a, NEW b
  PROVE  /\ IsSeq(<<a>>) /\ Len(<<a>>) = 1 /\ <<a>>[1] = a
         /\ IsSeq(<<a, b>>) /\ Len(<<a, b>>) = 2 /\ <<a, b>>[1] = a /\ <<a, b>>[2] = b
<1>1. <<a>> \in Seq({a}) /\ <<a, b>> \in Seq({a, b})
  OBVIOUS
<1>2. IsSeq(<<a>>) /\ IsSeq(<<a, b>>)
  BY <1>1, Zenon DEF IsSeq
<1> QED BY <1>2

\* A node has a shape.
LEMMA ShapeIsSeq ==
  ASSUME NEW g, GoodGraph(g), NEW n \in 1 .. Len(g.nodes)
  PROVE  IsSeq(Shape(g, n))
BY Zenon DEF GoodGraph, NodeOK, PtrOK, Shape

\* An operator with two inputs.
LEMMA BinaryAdds ==
  ASSUME NEW g, GoodGraph(g), NEW n \in 1 .. Len(g.nodes), NEW m \in 1 .. Len(g.nodes),
         NEW t \in Two, NEW pars, NEW out, IsSeq(out),
         TypeIn(g, n) # "transpose",
         IF t = "matmul" THEN TypeIn(g, m) \in {"weight", "transpose"}
         ELSE TypeIn(g, m) # "transpose"
  PROVE  Added(g, GetOrCreate(g, Key2(t, pars, Shape(g, n), Shape(g, m)),
                              Ptr(t, <<Shape(g, n), Shape(g, m)>>, out), <<n, m>>),
               t, <<n, m>>)
<1> DEFINE s == Shape(g, n)
           u == Shape(g, m)
           p == Ptr(t, <<s, u>>, out)
           in == <<n, m>>
           k == Key2(t, pars, s, u)
<1>1. IsSeq(s) /\ IsSeq(u)
  BY ShapeIsSeq, Zenon
<1>2. p.type = t /\ p.inputs = <<s, u>> /\ p.out = out
  BY DEF Ptr
<1>3. IsSeq(in) /\ Len(in) = 2 /\ in[1] = n /\ in[2] = m
  BY TupleIs, Zenon
<1>4. IsSeq(<<s, u>>) /\ Len(<<s, u>>) = 2 /\ <<s, u>>[1] = s /\ <<s, u>>[2] = u
  BY TupleIs, Zenon
<1> HIDE DEF s, u, p, in
<1>5. \A i \in 1 .. 2 : i = 1 \/ i = 2
  OBVIOUS
<1>6. NumInputs(t) = 2 /\ t \in Types /\ t # "transpose" /\ t # "pool2d_avg"
  BY DEF NumInputs, Types, Two
<1>7. PtrOK(p)
  <2>1. \A i \in 1 .. 2 : IsSeq(<<s, u>>[i])
    BY <1>1, <1>4, <1>5, Zenon
  <2>2. Len(p.inputs) = IF NumInputs(p.type) = 0 THEN 1 ELSE NumInputs(p.type)
    BY <1>2, <1>4, <1>6
  <2> QED BY <1>2, <1>4, <1>6, <2>1, <2>2, Zenon DEF PtrOK
<1>8. KeyOf(k, p)
  BY <1>2, <1>4, Zenon DEF KeyOf
<1>9. Wired(g, t, in)
  <2>1. \A i \in 1 .. 2 : TypeIn(g, in[i]) = "transpose" => t = "matmul" /\ i = 2
    BY <1>3, <1>5, Zenon
  <2> QED BY <1>3, <1>6, <2>1, Zenon DEF Wired
<1>10. \A i \in 1 .. Len(in) : in[i] \in 1 .. Len(g.nodes) /\ p.inputs[i] = Shape(g, in[i])
  BY <1>2, <1>3, <1>4, <1>5, Zenon DEF s, u
<1> HIDE DEF k
<1>11. Added(g, GetOrCreate(g, k, p, in), t, in)
  BY <1>2, <1>7, <1>8, <1>9, <1>10, GetOrCreateAdds, Zenon
<1> QED BY <1>11, Zenon DEF k, p, in, s, u

\* An operator with one input.
LEMMA UnaryAdds ==
  ASSUME NEW g, GoodGraph(g), NEW n \in 1 .. Len(g.nodes),
         NEW t \in {"relu", "reshape"}, NEW pars, NEW out, IsSeq(out),
         TypeIn(g, n) # "transpose"
  PROVE  Added(g, GetOrCreate(g, Key1(t, pars, Shape(g, n)),
                              Ptr(t, <<Shape(g, n)>>, out), <<n>>), t, <<n>>)
<1> DEFINE s == Shape(g, n)
           p == Ptr(t, <<s>>, out)
           in == <<n>>
           k == Key1(t, pars, s)
<1>1. IsSeq(s)
  BY ShapeIsSeq, Zenon
<1>2. p.type = t /\ p.inputs = <<s>> /\ p.out = out
  BY DEF Ptr
<1>3. IsSeq(in) /\ Len(in) = 1 /\ in[1] = n
  BY TupleIs, Zenon
<1>4. IsSeq(<<s>>) /\ Len(<<s>>) = 1 /\ <<s>>[1] = s
  BY TupleIs, Zenon
<1> HIDE DEF s, p, in
<1>5. \A i \in 1 .. 1 : i = 1
  OBVIOUS
<1>6. /\ NumInputs(t) = 1 /\ t \in Types
      /\ t # "transpose" /\ t # "pool2d_avg" /\ t # "matmul"
  BY DEF NumInputs, Types, Two
<1>7. PtrOK(p)
  <2>1. \A i \in 1 .. 1 : IsSeq(<<s>>[i])
    BY <1>1, <1>4, <1>5, Zenon
  <2>2. Len(p.inputs) = IF NumInputs(p.type) = 0 THEN 1 ELSE NumInputs(p.type)
    BY <1>2, <1>4, <1>6
  <2> QED BY <1>2, <1>4, <1>6, <2>1, <2>2, Zenon DEF PtrOK
<1>8. KeyOf(k, p)
  BY <1>2, <1>4, Zenon DEF KeyOf
<1>9. Wired(g, t, in)
  <2>1. \A i \in 1 .. 1 : TypeIn(g, in[i]) = "transpose" => t = "matmul" /\ i = 2
    BY <1>3, <1>5, Zenon
  <2> QED BY <1>3, <1>6, <2>1, Zenon DEF Wired
<1>10. \A i \in 1 .. Len(in) : in[i] \in 1 .. Len(g.nodes) /\ p.inputs[i] = Shape(g, in[i])
  BY <1>2, <1>3, <1>4, <1>5, Zenon DEF s
<1> HIDE DEF k
<1>11. Added(g, GetOrCreate(g, k, p, in), t, in)
  BY <1>2, <1>7, <1>8, <1>9, <1>10, GetOrCreateAdds, Zenon
<1> QED BY <1>11, Zenon DEF k, p, in, s

\* The greater of two numbers.
LEMMA MaxIs ==
  ASSUME NEW a \in Nat, NEW b \in Nat
  PROVE  Max({a, b}) \in Nat
<1>1. \E x \in {a, b} : \A y \in {a, b} : x >= y
  OBVIOUS
<1>2. Max({a, b}) \in {a, b}
  BY <1>1 DEF Max
<1> QED BY <1>2

\* conv2d
LEMMA ConvAdds ==
  ASSUME NEW g, GoodGraph(g), NEW n \in 1 .. Len(g.nodes), NEW w \in 1 .. Len(g.nodes),
         NEW stride, NEW pad, TypeIn(g, n) # "transpose", TypeIn(g, w) # "transpose"
  PROVE  Added(g, conv2d(g, n, w, stride, pad), "conv2d", <<n, w>>)
<1> DEFINE out == ConvShape(Shape(g, n), Shape(g, w), stride, pad)
<1>1. IsSeq(out)
  <2>1. \A a, b, c, d : <<a, b, c, d>> \in Seq({a, b, c, d})
    OBVIOUS
  <2> QED BY <2>1, Zenon DEF ConvShape, IsSeq
<1> HIDE DEF out
<1>2. "conv2d" \in Two /\ "conv2d" # "matmul"
  BY DEF Two
<1> QED BY <1>1, <1>2, BinaryAdds, Zenon DEF conv2d, out

\* element
LEMMA ElementAdds ==
  ASSUME NEW g, GoodGraph(g), NEW n \in 1 .. Len(g.nodes), NEW m \in 1 .. Len(g.nodes),
         TypeIn(g, n) # "transpose", TypeIn(g, m) # "transpose"
  PROVE  Added(g, element(g, "ew_add", n, m), "ew_add", <<n, m>>)
<1> DEFINE s == Shape(g, n)
           t == Shape(g, m)
           out == ElementShape(s, t)
           N == Max({Len(s), Len(t)})
<1>1. IsSeq(out)
  <2>1. N \in Nat
    BY ShapeIsSeq, LenIs, MaxIs, Zenon
  <2>2. out = [i \in 1 .. N |-> out[i]]
    BY Zenon DEF ElementShape
  <2> HIDE DEF out, N
  <2> QED BY <2>1, <2>2, SeqIs, Zenon
<1> HIDE DEF out
<1>2. "ew_add" \in Two /\ "ew_add" # "matmul"
  BY DEF Two
<1> QED BY <1>1, <1>2, BinaryAdds, Zenon DEF element, out

\* matmul
LEMMA MatmulAdds ==
  ASSUME NEW g, GoodGraph(g), NEW n \in 1 .. Len(g.nodes), NEW w \in 1 .. Len(g.nodes),
         TypeIn(g, n) # "transpose", TypeIn(g, w) \in {"weight", "transpose"}
  PROVE  Added(g, matmul(g, n, w), "matmul", <<n, w>>)
<1> DEFINE s == Shape(g, n)
           t == Shape(g, w)
           out == MatmulShape(s, t)
<1>1. IsSeq(out)
  <2>1. IsSeq(s) /\ Len(s) \in Nat /\ DOMAIN s = 1 .. Len(s)
    BY ShapeIsSeq, LenIs, Zenon
  <2>2. out = [i \in 1 .. Len(s) |-> out[i]]
    <3> HIDE DEF s, t
    <3> QED BY <2>1 DEF MatmulShape
  <2> HIDE DEF out, s
  <2> QED BY <2>1, <2>2, SeqIs, Zenon
<1> HIDE DEF out
<1>2. "matmul" \in Two
  BY DEF Two
<1> QED BY <1>1, <1>2, BinaryAdds, Zenon DEF matmul, out

\* relu
LEMMA ReluAdds ==
  ASSUME NEW g, GoodGraph(g), NEW n \in 1 .. Len(g.nodes), TypeIn(g, n) # "transpose"
  PROVE  Added(g, relu(g, n), "relu", <<n>>)
<1>1. IsSeq(Shape(g, n))
  BY ShapeIsSeq, Zenon
<1> QED BY <1>1, UnaryAdds, Zenon DEF relu

\* reshape
LEMMA ReshapeAdds ==
  ASSUME NEW g, GoodGraph(g), NEW n \in 1 .. Len(g.nodes), TypeIn(g, n) # "transpose",
         NEW shape, IsSeq(shape)
  PROVE  Added(g, reshape(g, n, shape), "reshape", <<n>>)
<1> DEFINE out == Reshaped(Shape(g, n), shape)
<1>1. Len(shape) \in Nat /\ DOMAIN shape = 1 .. Len(shape)
  BY LenIs, Zenon
<1>2. out = [i \in 1 .. Len(shape) |-> out[i]]
  BY <1>1, Zenon DEF Reshaped
<1> HIDE DEF out
<1>3. IsSeq(out)
  BY <1>1, <1>2, SeqIs, Zenon
<1> QED BY <1>3, UnaryAdds, Zenon DEF reshape, out

\* A node that the memo knows nothing of.
LEMMA PlainAdds ==
  ASSUME NEW g, GoodGraph(g), NEW p, PtrOK(p), NEW in, Wired(g, p.type, in),
         \A i \in 1 .. Len(in) : in[i] \in 1 .. Len(g.nodes) /\ p.inputs[i] = Shape(g, in[i])
  PROVE  Added(g, [g EXCEPT !.nodes = Append(g.nodes, Node(p, in))], p.type, in)
<1> DEFINE q == Append(g.nodes, Node(p, in))
<1>1. [g EXCEPT !.nodes = q] = [nodes |-> q, memo |-> g.memo]
  <2> HIDE DEF q
  <2>1. g = [nodes |-> g.nodes, memo |-> g.memo]
    BY Zenon DEF GoodGraph
  <2> QED BY <2>1
<1>2. StaleOK(g, p, in, Len(g.nodes))
  BY Zenon DEF StaleOK
<1>3. Added(g, [nodes |-> q, memo |-> g.memo], p.type, in)
  BY <1>2, AddNode, Zenon
<1> QED BY <1>1, <1>3, Zenon

\* new_weight
LEMMA WeightAdds ==
  ASSUME NEW g, GoodGraph(g), NEW shape, IsSeq(shape)
  PROVE  /\ Added(g, new_weight(g, shape), "weight", <<>>)
         /\ Shape(new_weight(g, shape), Returned(new_weight(g, shape))) = shape
<1> DEFINE p == Ptr("weight", <<shape>>, shape)
           in == <<>>
<1>1. new_weight(g, shape) = [g EXCEPT !.nodes = Append(g.nodes, Node(p, in))]
  BY DEF new_weight, NoOp
<1>2. p.type = "weight" /\ p.inputs = <<shape>> /\ p.out = shape
  BY DEF Ptr
<1>3. IsSeq(<<shape>>) /\ Len(<<shape>>) = 1 /\ <<shape>>[1] = shape
  BY TupleIs, Zenon
<1>4. IsSeq(in) /\ Len(in) = 0
  <2>1. in \in Seq({})
    OBVIOUS
  <2> QED BY <2>1, Zenon DEF IsSeq
<1> HIDE DEF p, in
<1>5. PtrOK(p)
  <2>1. \A i \in 1 .. 1 : i = 1
    OBVIOUS
  <2>2. \A i \in 1 .. 1 : IsSeq(<<shape>>[i])
    BY <1>3, <2>1, Zenon
  <2>3. NumInputs("weight") = 0 /\ "weight" \in Types
    BY DEF NumInputs, Types
  <2> QED BY <1>2, <1>3, <2>2, <2>3, Zenon DEF PtrOK
<1>6. \A i \in 1 .. Len(in) : FALSE
  BY <1>4
<1>7. Wired(g, "weight", in)
  <2>1. NumInputs("weight") = 0
    BY DEF NumInputs
  <2> QED BY <1>4, <1>6, <2>1 DEF Wired
<1>8. Added(g, new_weight(g, shape), "weight", in)
  <2>1. Wired(g, p.type, in)
    BY <1>2, <1>7, Zenon
  <2>2. Added(g, [g EXCEPT !.nodes = Append(g.nodes, Node(p, in))], p.type, in)
    BY <1>5, <1>6, <2>1, PlainAdds
  <2> QED BY <1>1, <1>2, <2>2, Zenon
<1>9. Shape(new_weight(g, shape), Returned(new_weight(g, shape))) = shape
  <2> DEFINE q == Append(g.nodes, Node(p, in))
  <2>1. IsSeq(q) /\ Len(q) = Len(g.nodes) + 1 /\ q[Len(g.nodes) + 1] = Node(p, in)
    BY AppendIs, Zenon DEF GoodGraph
  <2>2. new_weight(g, shape).nodes = q
    <3> HIDE DEF q
    <3>1. g = [nodes |-> g.nodes, memo |-> g.memo]
      BY Zenon DEF GoodGraph
    <3>2. new_weight(g, shape) = [g EXCEPT !.nodes = q]
      BY <1>1, Zenon DEF q
    <3> QED BY <3>1, <3>2
  <2>3. Node(p, in).ptr = p
    BY DEF Node
  <2> HIDE DEF q
  <2> QED BY <1>2, <2>1, <2>2, <2>3, Zenon DEF Shape, Returned
<1> QED BY <1>8, <1>9, Zenon DEF in

\* transpose
LEMMA TransposeAdds ==
  ASSUME NEW g, GoodGraph(g), NEW n \in 1 .. Len(g.nodes), TypeIn(g, n) = "weight"
  PROVE  Added(g, transpose(g, n), "transpose", <<n>>)
<1> DEFINE s == Shape(g, n)
           p == Ptr("transpose", <<s>>, <<s[2], s[1]>>)
           in == <<n>>
<1>1. transpose(g, n) = [g EXCEPT !.nodes = Append(g.nodes, Node(p, in))]
  BY DEF transpose
<1>2. p.type = "transpose" /\ p.inputs = <<s>> /\ p.out = <<s[2], s[1]>>
  BY DEF Ptr
<1>3. IsSeq(<<s>>) /\ Len(<<s>>) = 1 /\ <<s>>[1] = s /\ IsSeq(<<s[2], s[1]>>)
  BY TupleIs, Zenon
<1>4. IsSeq(in) /\ Len(in) = 1 /\ in[1] = n
  BY TupleIs, Zenon
<1>5. IsSeq(s)
  BY ShapeIsSeq, Zenon
<1> HIDE DEF s, p, in
<1>6. \A i \in 1 .. 1 : i = 1
  OBVIOUS
<1>7. NumInputs("transpose") = 1 /\ "transpose" \in Types /\ "weight" # "transpose"
  BY DEF NumInputs, Types
<1>8. PtrOK(p)
  <2>1. \A i \in 1 .. 1 : IsSeq(<<s>>[i])
    BY <1>3, <1>5, <1>6, Zenon
  <2>2. Len(p.inputs) = IF NumInputs(p.type) = 0 THEN 1 ELSE NumInputs(p.type)
    BY <1>2, <1>3, <1>7
  <2> QED BY <1>2, <1>3, <1>7, <2>1, <2>2, Zenon DEF PtrOK
<1>9. Wired(g, "transpose", in)
  <2>1. \A i \in 1 .. 1 : TypeIn(g, in[i]) # "transpose"
    BY <1>4, <1>6, <1>7, Zenon
  <2>2. "transpose" # "matmul" /\ "transpose" # "pool2d_avg"
    OBVIOUS
  <2> QED BY <1>4, <1>7, <2>1, <2>2, Zenon DEF Wired
<1>10. \A i \in 1 .. Len(in) : in[i] \in 1 .. Len(g.nodes) /\ p.inputs[i] = Shape(g, in[i])
  BY <1>2, <1>3, <1>4, <1>6, Zenon DEF s
<1>11. Added(g, transpose(g, n), "transpose", in)
  <2>1. Wired(g, p.type, in)
    BY <1>2, <1>9, Zenon
  <2>2. Added(g, [g EXCEPT !.nodes = Append(g.nodes, Node(p, in))], p.type, in)
    BY <1>8, <1>10, <2>1, PlainAdds
  <2> QED BY <1>1, <1>2, <2>2, Zenon
<1> QED BY <1>11, Zenon DEF in

\* What stays when nodes are added.
LEMMA PrefixKeeps ==
  ASSUME NEW g, GoodGraph(g), NEW h, Prefix(g, h), NEW n \in 1 .. Len(g.nodes)
  PROVE  n \in 1 .. Len(h.nodes) /\ TypeIn(h, n) = TypeIn(g, n) /\ Shape(h, n) = Shape(g, n)
<1>1. Len(g.nodes) \in Nat /\ Len(h.nodes) \in Nat /\ Len(g.nodes) <= Len(h.nodes)
  BY LenIs, Zenon DEF GoodGraph, Prefix
<1>2. n \in 1 .. Len(h.nodes)
  BY <1>1
<1> QED BY <1>2, Zenon DEF Prefix, TypeIn, Shape

\* pool2d_avg adds its weight to g, and then itself.
LEMMA PoolAdds ==
  ASSUME NEW g, GoodGraph(g), NEW n \in 1 .. Len(g.nodes), TypeIn(g, n) # "transpose",
         NEW k, NEW stride, NEW pad
  PROVE  \E h : /\ Added(g, h, "weight", <<>>)
                /\ Added(h, pool2d_avg(g, n, k, stride, pad), "pool2d_avg", <<n, Len(h.nodes)>>)
<1> DEFINE s == Shape(g, n)
           v == <<s[2], 1, k, k>>
           h == new_weight(g, v)
           w == Len(h.nodes)
           out == PoolShape(s, k, stride, pad)
           p == Ptr("pool2d_avg", <<s, v>>, out)
           in == <<n, w>>
           key == Key1("pool2d_avg", <<k, stride, pad>>, s)
<1>1. \A a, b, c, d : IsSeq(<<a, b, c, d>>)
  <2>1. \A a, b, c, d : <<a, b, c, d>> \in Seq({a, b, c, d})
    OBVIOUS
  <2> QED BY <2>1, Zenon DEF IsSeq
<1>2. IsSeq(v) /\ IsSeq(out)
  BY <1>1, Zenon DEF PoolShape
<1>3. Added(g, h, "weight", <<>>) /\ Shape(h, w) = v
  <2> HIDE DEF v
  <2> QED BY <1>2, WeightAdds, Zenon DEF Returned
<1>4. pool2d_avg(g, n, k, stride, pad) = GetOrCreate(h, key, Ptr("pool2d_avg", <<s, Shape(h, w)>>, out), in)
  BY Zenon DEF pool2d_avg, Returned
<1>5. p.type = "pool2d_avg" /\ p.inputs = <<s, v>> /\ p.out = out
  <2> HIDE DEF s, v, out
  <2> QED BY DEF Ptr
<1>6. IsSeq(s)
  BY ShapeIsSeq, Zenon
<1>7. IsSeq(<<s, v>>) /\ Len(<<s, v>>) = 2 /\ <<s, v>>[1] = s /\ <<s, v>>[2] = v
  BY TupleIs, Zenon
<1>8. IsSeq(in) /\ Len(in) = 2 /\ in[1] = n /\ in[2] = w
  BY TupleIs, Zenon
<1>9. v = <<s[2], 1, k, k>>
  BY Zenon
<1>10. \A i \in 1 .. 2 : i = 1 \/ i = 2
  OBVIOUS
<1>11. /\ NumInputs("pool2d_avg") = 2 /\ "pool2d_avg" \in Types
       /\ "pool2d_avg" # "transpose" /\ "pool2d_avg" # "matmul" /\ "weight" # "transpose"
  BY DEF NumInputs, Types, Two
<1> HIDE DEF v, h, w, out, p, in
<1>12. PtrOK(p)
  <2>1. \A i \in 1 .. 2 : IsSeq(<<s, v>>[i])
    BY <1>2, <1>6, <1>7, <1>10, Zenon
  <2>2. Len(p.inputs) = IF NumInputs(p.type) = 0 THEN 1 ELSE NumInputs(p.type)
    BY <1>5, <1>7, <1>11
  <2> QED BY <1>2, <1>5, <1>7, <1>11, <2>1, <2>2, Zenon DEF PtrOK
<1>13. KeyOf(key, p)
  BY <1>5, <1>7, <1>9, Zenon DEF KeyOf
<1>14. GoodGraph(h) /\ TypeIn(h, w) = "weight" /\ Len(h.nodes) = Len(g.nodes) + 1
  BY <1>3, Zenon DEF Added, w
<1>15. w \in 1 .. Len(h.nodes)
  <2>1. Len(g.nodes) \in Nat
    BY LenIs, Zenon DEF GoodGraph
  <2> QED BY <1>14, <2>1 DEF w
<1>16. n \in 1 .. Len(h.nodes) /\ TypeIn(h, n) = TypeIn(g, n) /\ Shape(h, n) = Shape(g, n)
  <2>1. Prefix(g, h)
    BY <1>3, Zenon DEF Added
  <2> QED BY <2>1, PrefixKeeps, Zenon
<1>17. Wired(h, "pool2d_avg", in)
  <2>1. \A i \in 1 .. 2 : TypeIn(h, in[i]) # "transpose"
    BY <1>8, <1>10, <1>11, <1>14, <1>16, Zenon
  <2> QED BY <1>8, <1>11, <1>14, <2>1, Zenon DEF Wired
<1>18. \A i \in 1 .. Len(in) : in[i] \in 1 .. Len(h.nodes) /\ p.inputs[i] = Shape(h, in[i])
  BY <1>3, <1>5, <1>7, <1>8, <1>10, <1>15, <1>16, Zenon
<1> HIDE DEF key
<1>19. Added(h, GetOrCreate(h, key, p, in), "pool2d_avg", in)
  BY <1>5, <1>12, <1>13, <1>14, <1>17, <1>18, GetOrCreateAdds, Zenon
<1>20. GetOrCreate(h, key, p, in) = pool2d_avg(g, n, k, stride, pad)
  BY <1>3, <1>4, Zenon DEF p
<1>21. in = <<n, Len(h.nodes)>>
  BY Zenon DEF in, w
<1> QED BY <1>3, <1>19, <1>20, <1>21, Zenon

-----------------------------------------------------------------------------
(* load_onnx *)

ReadIn(g, n) ==
  \E m \in 1 .. Len(g.nodes) : \E i \in 1 .. Len(g.nodes[m].in) : g.nodes[m].in[i] = n

\* h has the nodes of g, and others that are read or in S.
Grows(g, h, S) ==
  /\ GoodGraph(h) /\ Prefix(g, h)
  /\ \A n \in 1 .. Len(h.nodes) : n \in 1 .. Len(g.nodes) \/ n \in S \/ ReadIn(h, n)

LEMMA GrowsNone ==
  ASSUME NEW g, GoodGraph(g)
  PROVE  Grows(g, g, {})
<1>1. IsSeq(g.nodes) /\ Len(g.nodes) \in Nat
  BY LenIs, Zenon DEF GoodGraph
<1>2. Len(g.nodes) <= Len(g.nodes)
  BY <1>1
<1> QED BY <1>1, <1>2, Zenon DEF Grows, Prefix

\* When the node r that reads in is made, what is still to be read is in T.
Passes(S, r, in, T) ==
  r \in T /\ \A n \in S : n \in T \/ \E i \in 1 .. Len(in) : in[i] = n

\* One more node.
LEMMA GrowsBy ==
  ASSUME NEW g, NEW h, NEW S, Grows(g, h, S), NEW k, NEW t, NEW in, Added(h, k, t, in),
         IsSeq(g.nodes), NEW T, Passes(S, Returned(k), in, T)
  PROVE  /\ Grows(g, k, T)
         /\ Returned(k) \in 1 .. Len(k.nodes) /\ TypeIn(k, Returned(k)) = t
         /\ \A n \in 1 .. Len(h.nodes) : n \in 1 .. Len(k.nodes) /\ TypeIn(k, n) = TypeIn(h, n)
<1>1. /\ GoodGraph(h) /\ Prefix(g, h) /\ GoodGraph(k) /\ Prefix(h, k)
      /\ Len(k.nodes) = Len(h.nodes) + 1 /\ IsSeq(h.nodes) /\ IsSeq(k.nodes)
      /\ TypeIn(k, Len(k.nodes)) = t /\ k.nodes[Len(k.nodes)].in = in
  BY Zenon DEF Grows, Added, GoodGraph
<1>2. Len(g.nodes) \in Nat /\ Len(h.nodes) \in Nat /\ Len(k.nodes) \in Nat
  BY <1>1, LenIs, Zenon
<1>3. /\ Len(g.nodes) <= Len(h.nodes) /\ Len(h.nodes) <= Len(k.nodes)
      /\ \A n \in 1 .. Len(g.nodes) : h.nodes[n] = g.nodes[n]
      /\ \A n \in 1 .. Len(h.nodes) : k.nodes[n] = h.nodes[n]
  BY <1>1, Zenon DEF Prefix
<1>4. /\ \A n \in 1 .. Len(g.nodes) : n \in 1 .. Len(h.nodes)
      /\ \A n \in 1 .. Len(h.nodes) : n \in 1 .. Len(k.nodes)
      /\ \A n \in 1 .. Len(k.nodes) : n \in 1 .. Len(h.nodes) \/ n = Len(k.nodes)
      /\ Len(g.nodes) <= Len(k.nodes) /\ Len(k.nodes) \in 1 .. Len(k.nodes)
  BY <1>1, <1>2, <1>3
<1>5. Prefix(g, k)
  BY <1>1, <1>3, <1>4, Zenon DEF Prefix
<1>6. ASSUME NEW n \in 1 .. Len(k.nodes)
      PROVE  n \in 1 .. Len(g.nodes) \/ n \in T \/ ReadIn(k, n)
  <2>1. CASE n = Len(k.nodes)
    BY <2>1, Zenon DEF Returned, Passes
  <2>2. CASE n \in S /\ n \notin T
    <3>1. PICK i \in 1 .. Len(in) : in[i] = n
      BY <2>2, Zenon DEF Passes
    <3> QED BY <1>1, <1>4, <3>1, Zenon DEF ReadIn
  <2>3. CASE ReadIn(h, n)
    <3>1. PICK m \in 1 .. Len(h.nodes) : \E i \in 1 .. Len(h.nodes[m].in) : h.nodes[m].in[i] = n
      BY <2>3, Zenon DEF ReadIn
    <3> QED BY <1>3, <1>4, <3>1, Zenon DEF ReadIn
  <2> QED BY <1>4, <2>1, <2>2, <2>3, Zenon DEF Grows
<1>7. \A n \in 1 .. Len(h.nodes) : TypeIn(k, n) = TypeIn(h, n)
  BY <1>3, Zenon DEF TypeIn
<1> QED BY <1>1, <1>4, <1>5, <1>6, <1>7, Zenon DEF Grows, Returned

\* What load_onnx keeps: the graph is well formed, and an output that has no
\* name in the model is read.
BuildInv ==
  /\ GoodGraph(graph)
  /\ cnt \in 0 .. MaxOnnx
  /\ tensors \subseteq 1 .. Len(nodes)
  /\ 1 \in 1 .. Len(nodes) /\ nodes[1].ptr.type = "input"
  /\ \A n \in tensors : TypeIn(graph, n) # "transpose"
  /\ \A n \in 1 .. Len(nodes) : n \in tensors \/ ReadIn(graph, n)

\* A handler that ends with the graph h.
LEMMA BecomesBuilds ==
  ASSUME BuildInv, cnt < MaxOnnx, NEW h, Grows(graph, h, {Returned(h)}),
         TypeIn(h, Returned(h)) # "transpose", Returned(h) \in 1 .. Len(h.nodes), Becomes(h)
  PROVE  BuildInv'
<1>1. h = [nodes |-> h.nodes, memo |-> h.memo] /\ GoodGraph(h) /\ Prefix(graph, h)
  BY Zenon DEF Grows, GoodGraph
<1>2. graph' = h /\ nodes' = h.nodes /\ graph.nodes = nodes
  BY <1>1 DEF Becomes, graph
<1>3. cnt' \in 0 .. MaxOnnx
  BY ModelAssumption DEF Becomes, BuildInv
<1>4. \A n \in 1 .. Len(nodes) :
        n \in 1 .. Len(h.nodes) /\ TypeIn(h, n) = TypeIn(graph, n) /\ h.nodes[n] = nodes[n]
  BY <1>1, <1>2, PrefixKeeps, Zenon DEF BuildInv, Prefix
<1>5. tensors' = tensors \cup {Returned(h)}
  BY Zenon DEF Becomes
<1>6. tensors' \subseteq 1 .. Len(h.nodes) /\ \A n \in tensors' : TypeIn(h, n) # "transpose"
  BY <1>4, <1>5, Zenon DEF BuildInv
<1>7. 1 \in 1 .. Len(h.nodes) /\ h.nodes[1].ptr.type = "input"
  BY <1>4, Zenon DEF BuildInv
<1>8. ASSUME NEW n \in 1 .. Len(h.nodes) PROVE n \in tensors' \/ ReadIn(h, n)
  <2>1. CASE n \in 1 .. Len(nodes) /\ n \notin tensors
    <3>1. PICK m \in 1 .. Len(nodes) : \E i \in 1 .. Len(nodes[m].in) : nodes[m].in[i] = n
      BY <1>2, <2>1, Zenon DEF BuildInv, ReadIn
    <3> QED BY <1>4, <3>1, Zenon DEF ReadIn
  <2> QED BY <1>2, <1>5, <2>1, Zenon DEF Grows
<1> QED BY <1>1, <1>2, <1>3, <1>6, <1>7, <1>8, Zenon DEF BuildInv

\* load_onnx starts so.
LEMMA BuildStarts == Init => BuildInv
<1> SUFFICES ASSUME Init PROVE BuildInv
  OBVIOUS
<1>1. /\ Tensors \in Seq([type : {"input", "weight"}, shape : Seq(Nat)]) /\ Tensors # <<>>
      /\ \A i \in DOMAIN Tensors : Tensors[i].type = "input" <=> i = 1
  BY ModelAssumption
<1>2. Len(Tensors) \in Nat \ {0} /\ DOMAIN Tensors = 1 .. Len(Tensors)
  BY <1>1
<1> DEFINE N == Len(Tensors)
<1>3. ASSUME NEW i \in 1 .. N
      PROVE  Tensors[i].type \in {"input", "weight"} /\ IsSeq(Tensors[i].shape)
  <2>1. Tensors[i] \in [type : {"input", "weight"}, shape : Seq(Nat)]
    <3>1. \A S : \A s \in Seq(S) : \A j \in 1 .. Len(s) : s[j] \in S
      OBVIOUS
    <3> QED BY <1>1, <3>1, Zenon
  <2>2. Tensors[i].type \in {"input", "weight"} /\ Tensors[i].shape \in Seq(Nat)
    BY <2>1
  <2> QED BY <2>2, Zenon DEF IsSeq
<1>4. nodes = [i \in 1 .. N |-> NoOp(Tensors[i])]
  BY <1>2, Zenon DEF Init
<1>5. /\ IsSeq(nodes) /\ Len(nodes) = N
      /\ \A i \in 1 .. N : nodes[i] = NoOp(Tensors[i])
  <2>1. \A i \in 1 .. N : nodes[i] = NoOp(Tensors[i])
    BY <1>4, Zenon
  <2>2. nodes = [i \in 1 .. N |-> nodes[i]]
    BY <1>4, <2>1, Zenon
  <2> QED BY <1>2, <2>1, <2>2, SeqIs, Zenon
<1>6. graph.nodes = nodes /\ graph.memo = <<>> /\ graph = [nodes |-> graph.nodes, memo |-> graph.memo]
  BY DEF graph, Init
<1>7. \A t : /\ NoOp(t).in = <<>> /\ NoOp(t).ptr.type = t.type
             /\ NoOp(t).ptr.inputs = <<t.shape>> /\ NoOp(t).ptr.out = t.shape
  BY DEF NoOp, Node, Ptr
<1>8. IsSeq(<<>>) /\ Len(<<>>) = 0 /\ \A i \in 1 .. Len(<<>>) : FALSE
  <2>1. <<>> \in Seq({})
    OBVIOUS
  <2>2. Len(<<>>) = 0 /\ \A i \in 1 .. Len(<<>>) : FALSE
    OBVIOUS
  <2> QED BY <2>1, <2>2, Zenon DEF IsSeq
<1> DEFINE none == <<>>
<1>9. IsSeq(none) /\ Len(none) = 0 /\ \A i \in 1 .. Len(none) : FALSE
  BY <1>8, Zenon
<1>10. \A t : NoOp(t).in = none
  BY <1>7, Zenon
<1>11. \A t \in {"input", "weight"} :
         NumInputs(t) = 0 /\ t \in Types
         /\ t # "transpose" /\ t # "matmul" /\ t # "pool2d_avg"
  BY DEF NumInputs, Types, Two
<1> HIDE DEF none
<1>12. ASSUME NEW n \in 1 .. N PROVE NodeOK(graph, n)
  <2> DEFINE p == graph.nodes[n].ptr
  <2>1. graph.nodes[n].in = none /\ p.type = Tensors[n].type
        /\ p.inputs = <<Tensors[n].shape>> /\ p.out = Tensors[n].shape
    BY <1>5, <1>6, <1>7, <1>10, Zenon
  <2> HIDE DEF p
  <2>2. p.type \in {"input", "weight"} /\ IsSeq(p.out) /\ p.inputs = <<p.out>>
    BY <1>3, <2>1, Zenon
  <2>3. IsSeq(<<p.out>>) /\ Len(<<p.out>>) = 1 /\ <<p.out>>[1] = p.out
    BY TupleIs, Zenon
  <2>4. \A i \in 1 .. 1 : i = 1
    OBVIOUS
  <2>5. \A i \in 1 .. 1 : IsSeq(<<p.out>>[i])
    BY <2>2, <2>3, <2>4, Zenon
  <2>6. PtrOK(p)
    BY <1>11, <2>2, <2>3, <2>5, Zenon DEF PtrOK
  <2>7. Wired(graph, p.type, none)
    BY <1>9, <1>11, <2>2, Zenon DEF Wired
  <2>8. StaleOK(graph, p, none, n - 1)
    BY <1>9, Zenon DEF StaleOK
  <2> QED BY <1>9, <2>1, <2>6, <2>7, <2>8, Zenon DEF NodeOK, p
<1>13. MemoOK(graph)
  <2>1. DOMAIN graph.memo = {}
    BY <1>6
  <2> QED BY <2>1, Zenon DEF MemoOK
<1>14. GoodGraph(graph)
  BY <1>5, <1>6, <1>12, <1>13, Zenon DEF GoodGraph
<1>15. tensors = 1 .. N /\ cnt = 0
  BY <1>2, Zenon DEF Init
<1>16. cnt \in 0 .. MaxOnnx /\ 1 \in 1 .. N
  BY <1>2, <1>15, ModelAssumption
<1>17. nodes[1].ptr.type = "input"
  BY <1>1, <1>2, <1>5, <1>7, <1>16, Zenon
<1>18. ASSUME NEW n \in 1 .. N PROVE TypeIn(graph, n) # "transpose"
  BY <1>3, <1>5, <1>6, <1>7, <1>11, Zenon DEF TypeIn
<1> QED BY <1>5, <1>14, <1>15, <1>16, <1>17, <1>18, Zenon DEF BuildInv

\* The tensors a handler gets.
LEMMA ArgumentsAre ==
  ASSUME BuildInv
  PROVE  /\ GoodGraph(graph) /\ graph.nodes = nodes /\ IsSeq(graph.nodes)
         /\ \A n \in tensors : n \in 1 .. Len(graph.nodes) /\ TypeIn(graph, n) # "transpose"
         /\ Features \subseteq tensors /\ Weights \subseteq tensors
         /\ \A w \in Weights : TypeIn(graph, w) = "weight"
<1>1. graph.nodes = nodes
  BY DEF graph
<1>2. Features \subseteq tensors /\ Weights \subseteq tensors
  BY Zenon DEF Features, Weights
<1>3. \A w \in Weights : TypeIn(graph, w) = "weight"
  BY <1>1, Zenon DEF Weights, TypeIn
<1> QED BY <1>1, <1>2, <1>3, Zenon DEF BuildInv, GoodGraph

\* A handler that adds one node.
LEMMA OneNode ==
  ASSUME BuildInv, cnt < MaxOnnx, NEW h, NEW t, t # "transpose", NEW in,
         Added(graph, h, t, in), Becomes(h)
  PROVE  BuildInv'
<1>1. Grows(graph, graph, {}) /\ IsSeq(graph.nodes)
  BY GrowsNone, ArgumentsAre, Zenon
<1>2. Passes({}, Returned(h), in, {Returned(h)})
  BY Zenon DEF Passes
<1>3. /\ Grows(graph, h, {Returned(h)}) /\ Returned(h) \in 1 .. Len(h.nodes)
      /\ TypeIn(h, Returned(h)) = t
  BY <1>1, <1>2, GrowsBy
<1> QED BY <1>3, BecomesBuilds, Zenon

LEMMA AddBuilds ==
  ASSUME BuildInv, cnt < MaxOnnx, NEW n \in Features, NEW m \in tensors, _add(n, m)
  PROVE  BuildInv'
<1>1. Added(graph, element(graph, "ew_add", n, m), "ew_add", <<n, m>>)
  BY ArgumentsAre, ElementAdds, Zenon
<1>2. Becomes(element(graph, "ew_add", n, m)) /\ "ew_add" # "transpose"
  BY DEF _add
<1> QED BY <1>1, <1>2, OneNode, Zenon

LEMMA ReluBuilds ==
  ASSUME BuildInv, cnt < MaxOnnx, NEW n \in Features, _relu(n)
  PROVE  BuildInv'
<1>1. Added(graph, relu(graph, n), "relu", <<n>>)
  BY ArgumentsAre, ReluAdds, Zenon
<1>2. Becomes(relu(graph, n)) /\ "relu" # "transpose"
  BY DEF _relu
<1> QED BY <1>1, <1>2, OneNode, Zenon

LEMMA ReshapeBuilds ==
  ASSUME BuildInv, cnt < MaxOnnx, NEW n \in Features, _reshape(n)
  PROVE  BuildInv'
<1>1. PICK shape \in Shapes : Becomes(reshape(graph, n, shape))
  BY Zenon DEF _reshape
<1>2. IsSeq(shape)
  BY ModelAssumption, Zenon DEF IsSeq
<1>3. Added(graph, reshape(graph, n, shape), "reshape", <<n>>)
  BY <1>2, ArgumentsAre, ReshapeAdds, Zenon
<1>4. "reshape" # "transpose"
  OBVIOUS
<1> QED BY <1>1, <1>3, <1>4, OneNode, Zenon

LEMMA ConstantBuilds ==
  ASSUME BuildInv, cnt < MaxOnnx, _constant
  PROVE  BuildInv'
<1>1. PICK shape \in Constants : Becomes(new_weight(graph, shape))
  BY Zenon DEF _constant
<1>2. IsSeq(shape)
  BY ModelAssumption, Zenon DEF IsSeq
<1>3. Added(graph, new_weight(graph, shape), "weight", <<>>)
  BY <1>2, ArgumentsAre, WeightAdds, Zenon
<1>4. "weight" # "transpose"
  OBVIOUS
<1> QED BY <1>1, <1>3, <1>4, OneNode, Zenon

LEMMA PadBuilds ==
  ASSUME BuildInv, cnt < MaxOnnx, _pad
  PROVE  BuildInv'
<1>1. graph' = graph /\ nodes' = nodes /\ tensors' = tensors
  BY DEF _pad, graph
<1>2. cnt' \in 0 .. MaxOnnx
  BY ModelAssumption DEF _pad, BuildInv
<1> QED BY <1>1, <1>2, Zenon DEF BuildInv

LEMMA PoolBuilds ==
  ASSUME BuildInv, cnt < MaxOnnx, NEW n \in Features, _avgpool2d(n)
  PROVE  BuildInv'
<1>1. PICK k \in PoolSizes, stride \in Strides, pad \in Paddings :
        Becomes(pool2d_avg(graph, n, k, stride, pad))
  BY Zenon DEF _avgpool2d
<1> DEFINE h == pool2d_avg(graph, n, k, stride, pad)
<1>2. PICK g : Added(graph, g, "weight", <<>>) /\ Added(g, h, "pool2d_avg", <<n, Len(g.nodes)>>)
  BY ArgumentsAre, PoolAdds, Zenon
<1> HIDE DEF h
<1>3. Grows(graph, graph, {}) /\ IsSeq(graph.nodes)
  BY GrowsNone, ArgumentsAre, Zenon
<1>4. Grows(graph, g, {Returned(g)})
  <2>1. Passes({}, Returned(g), <<>>, {Returned(g)})
    BY Zenon DEF Passes
  <2> QED BY <1>2, <1>3, <2>1, GrowsBy, Zenon
<1>5. /\ Grows(graph, h, {Returned(h)}) /\ Returned(h) \in 1 .. Len(h.nodes)
      /\ TypeIn(h, Returned(h)) = "pool2d_avg"
  <2> DEFINE in == <<n, Len(g.nodes)>>
  <2>1. Len(in) = 2 /\ in[2] = Len(g.nodes)
    BY TupleIs, Zenon
  <2> HIDE DEF in
  <2>2. 2 \in 1 .. Len(in)
    BY <2>1
  <2>3. Passes({Returned(g)}, Returned(h), in, {Returned(h)})
    BY <2>1, <2>2, Zenon DEF Passes, Returned
  <2>4. Added(g, h, "pool2d_avg", in)
    BY <1>2, Zenon DEF in
  <2> QED BY <1>3, <1>4, <2>3, <2>4, GrowsBy
<1>6. "pool2d_avg" # "transpose"
  OBVIOUS
<1> QED BY <1>1, <1>5, <1>6, BecomesBuilds, Zenon DEF h

LEMMA ConvBuilds ==
  ASSUME BuildInv, cnt < MaxOnnx, NEW n \in Features, NEW w \in Weights, _conv2d(n, w)
  PROVE  BuildInv'
<1>0. PICK stride \in Strides, pad \in Paddings :
        LET g == conv2d(graph, n, w, stride, pad)
        IN  \/ Becomes(g)
            \/ \E bias \in Weights : Becomes(WithConvBias(g, bias))
  BY Zenon DEF _conv2d
<1> DEFINE g == conv2d(graph, n, w, stride, pad)
<1>1. Becomes(g) \/ \E bias \in Weights : Becomes(WithConvBias(g, bias))
  BY <1>0, Zenon
<1>2. /\ "conv2d" # "transpose" /\ "weight" # "transpose"
      /\ "reshape" # "transpose" /\ "ew_add" # "transpose"
  OBVIOUS
<1>3. Added(graph, g, "conv2d", <<n, w>>)
  BY <1>2, ArgumentsAre, ConvAdds, Zenon
<1> HIDE DEF g
<1>4. CASE Becomes(g)
  BY <1>2, <1>3, <1>4, OneNode, Zenon
<1>5. CASE \E bias \in Weights : Becomes(WithConvBias(g, bias))
  <2>1. PICK bias \in Weights : Becomes(WithConvBias(g, bias))
    BY <1>5, Zenon
  <2> DEFINE shape == <<1, Shape(g, bias)[1], 1, 1>>
             h == reshape(g, bias, shape)
             c == Returned(g)
             r == Returned(h)
             k == element(h, "ew_add", c, r)
  <2>2. WithConvBias(g, bias) = k
    BY Zenon DEF WithConvBias
  <2>3. IsSeq(shape)
    <3>1. shape \in Seq({1, Shape(g, bias)[1]})
      OBVIOUS
    <3> QED BY <3>1, Zenon DEF IsSeq
  <2> HIDE DEF shape
  <2>4. Grows(graph, graph, {}) /\ IsSeq(graph.nodes)
    BY GrowsNone, ArgumentsAre, Zenon
  <2>5. /\ Grows(graph, g, {c})
        /\ c \in 1 .. Len(g.nodes) /\ TypeIn(g, c) = "conv2d"
        /\ \A m \in 1 .. Len(graph.nodes) : m \in 1 .. Len(g.nodes) /\ TypeIn(g, m) = TypeIn(graph, m)
    <3>1. Passes({}, c, <<n, w>>, {c})
      BY Zenon DEF Passes
    <3> QED BY <1>3, <2>4, <3>1, GrowsBy, Zenon
  <2>6. bias \in 1 .. Len(g.nodes) /\ TypeIn(g, bias) = "weight" /\ GoodGraph(g)
    BY <2>5, ArgumentsAre, Zenon DEF Grows
  <2>7. Added(g, h, "reshape", <<bias>>)
    BY <1>2, <2>3, <2>6, ReshapeAdds, Zenon
  <2> HIDE DEF h
  <2>8. /\ Grows(graph, h, {c, r})
        /\ r \in 1 .. Len(h.nodes) /\ TypeIn(h, r) = "reshape"
        /\ c \in 1 .. Len(h.nodes) /\ TypeIn(h, c) = "conv2d"
    <3>1. Passes({c}, r, <<bias>>, {c, r})
      BY Zenon DEF Passes
    <3> HIDE DEF c
    <3> QED BY <2>4, <2>5, <2>7, <3>1, GrowsBy
  <2>9. Added(h, k, "ew_add", <<c, r>>)
    BY <1>2, <2>8, ElementAdds, Zenon DEF Grows
  <2> HIDE DEF c, r, k
  <2>10. /\ Grows(graph, k, {Returned(k)}) /\ Returned(k) \in 1 .. Len(k.nodes)
         /\ TypeIn(k, Returned(k)) = "ew_add"
    <3> DEFINE in == <<c, r>>
    <3>1. Len(in) = 2 /\ in[1] = c /\ in[2] = r
      BY TupleIs, Zenon
    <3>2. Added(h, k, "ew_add", in)
      BY <2>9, Zenon
    <3> HIDE DEF in
    <3>3. 1 \in 1 .. Len(in) /\ 2 \in 1 .. Len(in)
      BY <3>1
    <3>4. Passes({c, r}, Returned(k), in, {Returned(k)})
      BY <3>1, <3>3, Zenon DEF Passes
    <3> QED BY <2>4, <2>8, <3>2, <3>4, GrowsBy
  <2> QED BY <1>2, <2>1, <2>2, <2>10, BecomesBuilds, Zenon
<1> QED BY <1>1, <1>4, <1>5, Zenon

LEMMA GemmBuilds ==
  ASSUME BuildInv, cnt < MaxOnnx, NEW n \in Features, NEW w \in Weights, _gemm(n, w)
  PROVE  BuildInv'
<1>0. PICK transB \in BOOLEAN :
        LET g == IF transB THEN transpose(graph, w) ELSE graph
            v == IF transB THEN Returned(g) ELSE w
            h == matmul(g, n, v)
        IN  \/ Becomes(h)
            \/ \E bias \in Weights : Becomes(element(h, "ew_add", Returned(h), bias))
  BY Zenon DEF _gemm
<1> DEFINE g == IF transB THEN transpose(graph, w) ELSE graph
           v == IF transB THEN Returned(g) ELSE w
           h == matmul(g, n, v)
           r == Returned(h)
<1>1. Becomes(h) \/ \E bias \in Weights : Becomes(element(h, "ew_add", r, bias))
  BY <1>0, Zenon
<1>2. /\ "weight" # "transpose" /\ "matmul" # "transpose" /\ "ew_add" # "transpose"
      /\ "weight" \in {"weight", "transpose"} /\ "transpose" \in {"weight", "transpose"}
  OBVIOUS
<1>3. Grows(graph, graph, {}) /\ IsSeq(graph.nodes)
  BY GrowsNone, ArgumentsAre, Zenon
<1>4. /\ n \in 1 .. Len(graph.nodes) /\ TypeIn(graph, n) # "transpose"
      /\ w \in 1 .. Len(graph.nodes) /\ TypeIn(graph, w) = "weight"
  BY ArgumentsAre, Zenon
<1>5. \E S : /\ Grows(graph, g, S) /\ S \subseteq {v}
             /\ v \in 1 .. Len(g.nodes) /\ TypeIn(g, v) \in {"weight", "transpose"}
             /\ \A m \in 1 .. Len(graph.nodes) :
                  m \in 1 .. Len(g.nodes) /\ TypeIn(g, m) = TypeIn(graph, m)
  <2>1. CASE transB
    <3> DEFINE q == transpose(graph, w)
               u == Returned(q)
    <3>1. g = q /\ v = u
      BY <2>1, Zenon
    <3>2. Added(graph, q, "transpose", <<w>>)
      BY <1>4, ArgumentsAre, TransposeAdds, Zenon
    <3>3. Passes({}, u, <<w>>, {u})
      BY Zenon DEF Passes
    <3> HIDE DEF q, g, v
    <3>4. /\ Grows(graph, q, {u})
          /\ u \in 1 .. Len(q.nodes) /\ TypeIn(q, u) = "transpose"
          /\ \A m \in 1 .. Len(graph.nodes) :
               m \in 1 .. Len(q.nodes) /\ TypeIn(q, m) = TypeIn(graph, m)
      BY <1>3, <3>2, <3>3, GrowsBy, Zenon
    <3> QED BY <1>2, <3>1, <3>4, Zenon
  <2>2. CASE ~ transB
    <3>1. g = graph /\ v = w
      BY <2>2, Zenon
    <3> HIDE DEF g, v
    <3>2. {} \subseteq {v}
      OBVIOUS
    <3>3. /\ Grows(graph, g, {}) /\ v \in 1 .. Len(g.nodes)
          /\ TypeIn(g, v) \in {"weight", "transpose"}
      BY <1>3, <1>4, <3>1
    <3>4. \A m \in 1 .. Len(graph.nodes) :
            m \in 1 .. Len(g.nodes) /\ TypeIn(g, m) = TypeIn(graph, m)
      BY <3>1, Zenon
    <3> WITNESS {}
    <3> QED BY <3>2, <3>3, <3>4, Zenon
  <2> QED BY <2>1, <2>2, Zenon
<1> HIDE DEF g, v
<1>6. PICK S : /\ Grows(graph, g, S) /\ S \subseteq {v}
               /\ v \in 1 .. Len(g.nodes) /\ TypeIn(g, v) \in {"weight", "transpose"}
               /\ \A m \in 1 .. Len(graph.nodes) :
                    m \in 1 .. Len(g.nodes) /\ TypeIn(g, m) = TypeIn(graph, m)
  BY <1>5, Zenon
<1>7. Added(g, h, "matmul", <<n, v>>)
  BY <1>4, <1>6, MatmulAdds, Zenon DEF Grows
<1> HIDE DEF h
<1>8. /\ Grows(graph, h, {r}) /\ r \in 1 .. Len(h.nodes) /\ TypeIn(h, r) = "matmul"
      /\ \A m \in 1 .. Len(g.nodes) : m \in 1 .. Len(h.nodes) /\ TypeIn(h, m) = TypeIn(g, m)
  <2> DEFINE in == <<n, v>>
  <2>1. Len(in) = 2 /\ in[2] = v
    BY TupleIs, Zenon
  <2>2. Added(g, h, "matmul", in)
    BY <1>7, Zenon
  <2> HIDE DEF in
  <2>3. 2 \in 1 .. Len(in)
    BY <2>1
  <2>4. Passes(S, r, in, {r})
    BY <1>6, <2>1, <2>3, Zenon DEF Passes
  <2> QED BY <1>3, <1>6, <2>2, <2>4, GrowsBy
<1>9. CASE Becomes(h)
  BY <1>2, <1>8, <1>9, BecomesBuilds, Zenon
<1>10. CASE \E bias \in Weights : Becomes(element(h, "ew_add", r, bias))
  <2>1. PICK bias \in Weights : Becomes(element(h, "ew_add", r, bias))
    BY <1>10, Zenon
  <2> DEFINE k == element(h, "ew_add", r, bias)
  <2>2. bias \in 1 .. Len(h.nodes) /\ TypeIn(h, bias) = "weight" /\ GoodGraph(h)
    BY <1>6, <1>8, ArgumentsAre, Zenon DEF Grows
  <2>3. Added(h, k, "ew_add", <<r, bias>>)
    BY <1>2, <1>8, <2>2, ElementAdds, Zenon
  <2> HIDE DEF r, k
  <2>4. /\ Grows(graph, k, {Returned(k)}) /\ Returned(k) \in 1 .. Len(k.nodes)
        /\ TypeIn(k, Returned(k)) = "ew_add"
    <3> DEFINE in == <<r, bias>>
    <3>1. Len(in) = 2 /\ in[1] = r
      BY TupleIs, Zenon
    <3>2. Added(h, k, "ew_add", in)
      BY <2>3, Zenon
    <3> HIDE DEF in
    <3>3. 1 \in 1 .. Len(in)
      BY <3>1
    <3>4. Passes({r}, Returned(k), in, {Returned(k)})
      BY <3>1, <3>3, Zenon DEF Passes
    <3> QED BY <1>3, <1>8, <3>2, <3>4, GrowsBy
  <2> QED BY <1>2, <2>1, <2>4, BecomesBuilds, Zenon DEF k
<1> QED BY <1>1, <1>9, <1>10, Zenon

LEMMA BuildStep == BuildInv /\ [Next]_vars => BuildInv'
<1> SUFFICES ASSUME BuildInv, [Next]_vars PROVE BuildInv'
  OBVIOUS
<1>1. CASE UNCHANGED vars
  <2>1. graph' = graph /\ nodes' = nodes /\ tensors' = tensors /\ cnt' = cnt
    BY <1>1 DEF vars, graph
  <2> QED BY <2>1, Zenon DEF BuildInv
<1>2. CASE Next
  <2>1. cnt < MaxOnnx
    BY <1>2, Zenon DEF Next
  <2>2. \/ \E n \in Features, m \in tensors : _add(n, m)
        \/ \E n \in Features, w \in Weights : _conv2d(n, w) \/ _gemm(n, w)
        \/ \E n \in Features : _avgpool2d(n) \/ _relu(n) \/ _reshape(n)
        \/ _pad \/ _constant
    BY <1>2, Zenon DEF Next
  <2> QED BY <2>1, <2>2, AddBuilds, ConvBuilds, GemmBuilds, PoolBuilds, ReluBuilds,
             ReshapeBuilds, PadBuilds, ConstantBuilds, Zenon
<1> QED BY <1>1, <1>2, Zenon

\* A stale input is the first of two.
LEMMA StaleIsFirst ==
  ASSUME BuildInv
  PROVE  OnlyFirstInputStale
<1>1. GoodGraph(graph) /\ graph.nodes = nodes /\ IsSeq(nodes)
  BY ArgumentsAre, Zenon
<1>2. Len(nodes) \in Nat /\ DOMAIN nodes = 1 .. Len(nodes)
  BY <1>1, LenIs, Zenon
<1>3. \A n \in 1 .. Len(nodes) : NodeOK(graph, n)
  BY <1>1, Zenon DEF GoodGraph
<1>4. ASSUME NEW n \in 1 .. Len(nodes)
      PROVE  /\ DOMAIN nodes[n].in = 1 .. Len(nodes[n].in)
             /\ Len(nodes[n].in) \in Nat
             /\ Len(nodes[n].ptr.inputs) \in 1 .. 2
             /\ \A i \in 1 .. Len(nodes[n].in) : nodes[n].in[i] \in 1 .. (n - 1)
  <2>1. NodeOK(graph, n)
    BY <1>3, Zenon
  <2>2. IsSeq(nodes[n].in) /\ Len(nodes[n].ptr.inputs) =
          IF NumInputs(nodes[n].ptr.type) = 0 THEN 1 ELSE NumInputs(nodes[n].ptr.type)
    BY <1>1, <2>1, Zenon DEF NodeOK, Wired, PtrOK
  <2>3. Len(nodes[n].ptr.inputs) \in 1 .. 2
    BY <2>2 DEF NumInputs
  <2>4. \A i \in 1 .. Len(nodes[n].in) : nodes[n].in[i] \in 1 .. (n - 1)
    BY <1>1, <2>1, Zenon DEF NodeOK
  <2> QED BY <2>2, <2>3, <2>4, LenIs, Zenon
<1>5. TypeOK
  <2>1. \A n \in DOMAIN nodes : \A i \in DOMAIN nodes[n].in : nodes[n].in[i] < n
    <3> SUFFICES ASSUME NEW n \in 1 .. Len(nodes), NEW i \in 1 .. Len(nodes[n].in)
                 PROVE  nodes[n].in[i] < n
      BY <1>2, <1>4, Zenon
    <3>1. nodes[n].in[i] \in 1 .. (n - 1)
      BY <1>4, Zenon
    <3> QED BY <1>2, <3>1
  <2>2. \A k \in DOMAIN memo : memo[k].type = k[1]
    <3> SUFFICES ASSUME NEW k \in DOMAIN memo PROVE memo[k].type = k[1]
      OBVIOUS
    <3> DEFINE p == memo[k]
    <3>1. graph.memo = memo
      BY DEF graph
    <3>2. KeyOf(k, p)
      BY <1>1, <3>1, Zenon DEF GoodGraph, MemoOK
    <3> HIDE DEF p
    <3>3. \A t, pars, a, b : Key1(t, pars, a)[1] = t /\ Key2(t, pars, a, b)[1] = t
      BY DEF Key1, Key2
    <3>4. \/ \E pars : k = Key2(p.type, pars, p.inputs[1], p.inputs[2])
          \/ p.type = "pool2d_avg" /\ \E a, b, c : k = Key1("pool2d_avg", <<a, b, c>>, p.inputs[1])
          \/ \E pars : k = Key1(p.type, pars, p.inputs[1])
      BY <3>2, Zenon DEF KeyOf
    <3>5. p.type = k[1]
      <4>1. CASE \E pars : k = Key2(p.type, pars, p.inputs[1], p.inputs[2])
        BY <3>3, <4>1
      <4>2. CASE p.type = "pool2d_avg" /\ \E a, b, c : k = Key1("pool2d_avg", <<a, b, c>>, p.inputs[1])
        BY <3>3, <4>2
      <4>3. CASE \E pars : k = Key1(p.type, pars, p.inputs[1])
        BY <3>3, <4>3
      <4> QED BY <3>4, <4>1, <4>2, <4>3, Zenon
    <3> QED BY <3>5, Zenon DEF p
  <2>3. tensors \subseteq DOMAIN nodes /\ cnt \in 0 .. MaxOnnx
    BY <1>2, Zenon DEF BuildInv
  <2> QED BY <1>2, <1>4, <2>1, <2>2, <2>3, Zenon DEF TypeOK
<1>6. ASSUME NEW n \in 1 .. Len(nodes), NEW i \in 1 .. Len(nodes[n].in), Stale(n, i)
      PROVE  /\ i = 1 /\ nodes[n].ptr.type \in Two
             /\ \E m \in 1 .. (n - 1) : nodes[m].ptr = nodes[n].ptr /\ ~ Stale(m, 1)
  <2>1. StaleOK(graph, nodes[n].ptr, nodes[n].in, n - 1)
    BY <1>1, <1>3, Zenon DEF NodeOK
  <2>2. /\ i = 1 /\ nodes[n].ptr.type \in Two
        /\ \E m \in 1 .. (n - 1) : graph.nodes[m].ptr = nodes[n].ptr /\ ~ StaleIn(graph, m, 1)
    BY <1>6, <2>1, Zenon DEF StaleOK, Stale
  <2> QED BY <1>1, <2>2, Zenon DEF StaleIn, Stale
<1> QED BY <1>2, <1>4, <1>5, <1>6, Zenon DEF OnlyFirstInputStale, Two

\* With second inputs of different shapes no input is stale.
LEMMA DistinctKeepsShapes ==
  ASSUME BuildInv
  PROVE  DistinctWeightsAreSafe
<1> SUFFICES ASSUME \A n, m \in DOMAIN nodes :
                      Len(nodes[n].in) = 2 /\ Len(nodes[m].in) = 2 /\ n # m =>
                        Shape(graph, nodes[n].in[2]) # Shape(graph, nodes[m].in[2])
             PROVE  CheckCorrectness
  BY Zenon DEF DistinctWeightsAreSafe
<1> SUFFICES ASSUME NEW n \in DOMAIN nodes, NEW i \in DOMAIN nodes[n].in
             PROVE  EdgeCorrect(n, i)
  BY Zenon DEF CheckCorrectness
<1>1. GoodGraph(graph) /\ graph.nodes = nodes /\ IsSeq(nodes)
  BY ArgumentsAre, Zenon
<1>2. Len(nodes) \in Nat /\ DOMAIN nodes = 1 .. Len(nodes)
  BY <1>1, LenIs, Zenon
<1>3. ASSUME NEW m \in DOMAIN nodes, nodes[m].ptr.type \in Two
      PROVE  Len(nodes[m].in) = 2 /\ 2 \in DOMAIN nodes[m].in
  <2>1. NodeOK(graph, m)
    BY <1>1, <1>2, Zenon DEF GoodGraph
  <2>2. IsSeq(nodes[m].in) /\ Len(nodes[m].in) = NumInputs(nodes[m].ptr.type)
    BY <1>1, <2>1, Zenon DEF NodeOK, Wired
  <2>3. Len(nodes[m].in) = 2
    BY <1>3, <2>2 DEF NumInputs, Two
  <2>4. DOMAIN nodes[m].in = 1 .. 2
    BY <2>2, <2>3, LenIs, Zenon
  <2> QED BY <2>3, <2>4
<1>4. ~ Stale(n, i)
  <2> SUFFICES ASSUME Stale(n, i) PROVE FALSE
    OBVIOUS
  <2>1. /\ nodes[n].ptr.type \in Two
        /\ \E m \in 1 .. n - 1 : nodes[m].ptr = nodes[n].ptr /\ ~ Stale(m, i)
    BY StaleIsFirst, Zenon DEF OnlyFirstInputStale, Two
  <2>2. PICK m \in 1 .. n - 1 : nodes[m].ptr = nodes[n].ptr
    BY <2>1, Zenon
  <2>3. m \in DOMAIN nodes /\ m # n
    BY <1>2
  <2>4. nodes[m].ptr.type \in Two
    BY <2>1, <2>2, Zenon
  <2>5. ~ Stale(n, 2) /\ ~ Stale(m, 2)
    <3>1. 2 # 1
      OBVIOUS
    <3> QED BY <1>3, <2>1, <2>3, <2>4, <3>1, StaleIsFirst, Zenon DEF OnlyFirstInputStale
  <2>6. Shape(graph, nodes[n].in[2]) = Shape(graph, nodes[m].in[2])
    BY <2>2, <2>5, Zenon DEF Stale
  <2> QED BY <1>3, <2>1, <2>3, <2>4, <2>6, Zenon
<1>5. nodes[n].ptr.inputs[i] = Shape(graph, nodes[n].in[i])
  BY <1>4, Zenon DEF Stale
<1>6. Shape(graph, nodes[n].in[i]) = nodes[nodes[n].in[i]].ptr.out
  BY <1>1, Zenon DEF Shape
<1> QED BY <1>5, <1>6, Zenon DEF EdgeCorrect

\* load_onnx, and export after it, keep the invariant.
LEMMA BuildHolds == Spec => []BuildInv
<1> QED BY BuildStarts, BuildStep, PTL DEF Spec

\* For every ONNX model, of what get_or_create_* hands out only the first input
\* of a convolution, a product or a sum can have another shape than recorded,
\* and then an earlier node had it.
THEOREM OnlyFirstInputIsLost == Spec => []OnlyFirstInputStale
<1>1. BuildInv => OnlyFirstInputStale
  BY StaleIsFirst
<1> QED BY <1>1, BuildHolds, PTL

\* For every ONNX model whose second inputs all differ in shape, the graph is as
\* check_correctness asserts.
THEOREM DistinctSecondInputs == Spec => []DistinctWeightsAreSafe
<1>1. BuildInv => DistinctWeightsAreSafe
  BY DistinctKeepsShapes
<1> QED BY <1>1, BuildHolds, PTL


-----------------------------------------------------------------------------
(* The graph, for the exporter *)

\* What the exporter may rely on.
GraphOK ==
  /\ Len(nodes) \in Nat /\ DOMAIN nodes = 1 .. Len(nodes)
  /\ \A n \in 1 .. Len(nodes) :
       /\ Type(n) \in Types
       /\ DOMAIN nodes[n].in = 1 .. NumInputs(Type(n))
       /\ \A i \in 1 .. NumInputs(Type(n)) :
            /\ In(n, i) \in 1 .. (n - 1)
            /\ Type(In(n, i)) = "transpose" => Type(n) = "matmul" /\ i = 2
       /\ Type(n) = "transpose" => Type(In(n, 1)) = "weight"
       /\ Type(n) = "matmul" => Type(In(n, 2)) \in {"weight", "transpose"}
       /\ Type(n) = "pool2d_avg" => Type(In(n, 2)) = "weight"

LEMMA BuiltIsOK ==
  ASSUME BuildInv
  PROVE  GraphOK
<1>1. GoodGraph(graph) /\ graph.nodes = nodes /\ IsSeq(nodes)
  BY ArgumentsAre, Zenon
<1>2. Len(nodes) \in Nat /\ DOMAIN nodes = 1 .. Len(nodes)
  BY <1>1, LenIs, Zenon
<1>3. ASSUME NEW n \in 1 .. Len(nodes)
      PROVE  /\ Type(n) \in Types
             /\ DOMAIN nodes[n].in = 1 .. NumInputs(Type(n))
             /\ \A i \in 1 .. NumInputs(Type(n)) :
                  /\ In(n, i) \in 1 .. (n - 1)
                  /\ Type(In(n, i)) = "transpose" => Type(n) = "matmul" /\ i = 2
             /\ Type(n) = "transpose" => Type(In(n, 1)) = "weight"
             /\ Type(n) = "matmul" => Type(In(n, 2)) \in {"weight", "transpose"}
             /\ Type(n) = "pool2d_avg" => Type(In(n, 2)) = "weight"
  <2>1. NodeOK(graph, n)
    BY <1>1, Zenon DEF GoodGraph
  <2>2. \A m : TypeIn(graph, m) = Type(m)
    BY <1>1, Zenon DEF TypeIn, Type
  <2>3. PtrOK(nodes[n].ptr) /\ Wired(graph, Type(n), nodes[n].in)
        /\ \A i \in 1 .. Len(nodes[n].in) : nodes[n].in[i] \in 1 .. (n - 1)
    BY <1>1, <2>1, Zenon DEF NodeOK, Type
  <2>4. IsSeq(nodes[n].in) /\ Len(nodes[n].in) = NumInputs(Type(n))
    BY <2>3, Zenon DEF Wired
  <2>5. DOMAIN nodes[n].in = 1 .. NumInputs(Type(n))
    BY <2>4, LenIs, Zenon
  <2>6. Type(n) \in Types
    BY <2>3, Zenon DEF PtrOK, Type
  <2> QED BY <2>2, <2>3, <2>4, <2>5, <2>6, Zenon DEF Wired, In
<1> QED BY <1>2, <1>3, Zenon DEF GraphOK

-----------------------------------------------------------------------------
(* get_operator_list *)

Firsts(q, k) == {q[j] : j \in 1 .. k}
SourcesFirst(q) ==
  \A a \in 1 .. Len(q) : \A i \in 1 .. NumInputs(Type(q[a])) :
    \E c \in 1 .. Len(q) : c < a /\ q[c] = In(q[a], i)

\* The list after k turns: what the first k make ready, sources first.
ListOK(q, k) ==
  /\ IsSeq(q) /\ Once(q) /\ SourcesFirst(q)
  /\ \A x : Lists(q, x) <=> x \in Ready(Firsts(q, k))
  /\ Len(q) >= k /\ (k < Len(nodes) => Len(q) >= k + 1)

LEMMA ReadyIs ==
  ASSUME GraphOK, NEW D
  PROVE  \A n : n \in Ready(D) <=> /\ n \in 1 .. Len(nodes)
                                   /\ \A i \in 1 .. NumInputs(Type(n)) : In(n, i) \in D
<1>1. DOMAIN nodes = 1 .. Len(nodes)
  BY Zenon DEF GraphOK
<1>2. \A n \in 1 .. Len(nodes) : DOMAIN nodes[n].in = 1 .. NumInputs(Type(n))
  BY Zenon DEF GraphOK
<1> QED BY <1>1, <1>2, Zenon DEF Ready

\* The list does not end before all nodes are in it.
LEMMA ListGoesOn ==
  ASSUME GraphOK, NEW q, IsSeq(q), NEW k \in Nat, Len(q) >= k, k < Len(nodes),
         \A x : Lists(q, x) <=> x \in Ready(Firsts(q, k))
  PROVE  Len(q) >= k + 1
<1> DEFINE N == Len(nodes)
<1>1. N \in Nat /\ Len(q) \in Nat
  BY LenIs, Zenon DEF GraphOK
<1> SUFFICES ASSUME Len(q) = k PROVE FALSE
  BY <1>1
<1>2. \A a \in 1 .. k : q[a] \in 1 .. N
  BY ReadyIs, Zenon DEF Lists
<1> DEFINE f == [a \in 1 .. k |-> q[a]]
<1>3. f \in [1 .. k -> 1 .. N]
  BY <1>2, Zenon
<1>4. ~ Onto(f, k, N)
  <2> HIDE DEF f
  <2> QED BY <1>1, <1>3, Pigeonhole, Zenon
<1> DEFINE Miss == {n \in 1 .. N : ~ Lists(q, n)}
<1>5. Miss # {}
  <2>1. PICK y \in 1 .. N : ~ \E j \in 1 .. k : f[j] = y
    BY <1>4, Zenon DEF Onto
  <2> QED BY <2>1, Zenon DEF Lists
<1>6. Miss \subseteq Nat
  BY <1>1
<1>7. PICK n \in Miss : \A m \in Miss : n <= m
  <2> HIDE DEF Miss
  <2> QED BY <1>5, <1>6, Least, Zenon
<1>8. n \in 1 .. N /\ ~ Lists(q, n)
  BY Zenon
<1>9. ASSUME NEW i \in 1 .. NumInputs(Type(n)) PROVE In(n, i) \in Firsts(q, k)
  <2>1. In(n, i) \in 1 .. (n - 1)
    BY <1>8, Zenon DEF GraphOK
  <2>2. In(n, i) \in 1 .. N /\ ~ (n <= In(n, i))
    BY <1>1, <1>8, <2>1
  <2>3. Lists(q, In(n, i))
    BY <1>7, <2>2, Zenon
  <2> QED BY <2>3, Zenon DEF Lists, Firsts
<1>10. n \in Ready(Firsts(q, k))
  BY <1>8, <1>9, ReadyIs, Zenon
<1> QED BY <1>8, <1>10, Zenon

\* guids lists the nodes.
LEMMA GuidsAre ==
  ASSUME GraphOK
  PROVE  /\ IsSeq(guids) /\ Len(guids) = Len(nodes) /\ Once(guids)
         /\ \A x : Lists(guids, x) <=> x \in 1 .. Len(nodes)
<1>1. Len(nodes) \in Nat /\ DOMAIN nodes = 1 .. Len(nodes)
  BY Zenon DEF GraphOK
<1>2. guids = [n \in 1 .. Len(nodes) |-> n]
  BY <1>1, Zenon DEF guids
<1>3. \A n \in 1 .. Len(nodes) : guids[n] = n
  BY <1>2, Zenon
<1>4. guids = [n \in 1 .. Len(nodes) |-> guids[n]]
  BY <1>2, <1>3, Zenon
<1>5. IsSeq(guids) /\ Len(guids) = Len(nodes)
  BY <1>1, <1>4, SeqIs, Zenon
<1> QED BY <1>3, <1>5, Zenon DEF Once, Lists

\* What Only makes of guids.
LEMMA OnlyGuids ==
  ASSUME GraphOK, NEW S, S \subseteq 1 .. Len(nodes)
  PROVE  /\ IsSeq(Only(guids, S)) /\ Once(Only(guids, S))
         /\ \A x : Lists(Only(guids, S), x) <=> x \in S
<1>2. IsSeq(guids) /\ Once(guids)
  BY GuidsAre, Zenon
<1>3. IsSeq(Only(guids, S)) /\ Once(Only(guids, S))
  BY <1>2, OnlyKeeps, OnlyOrder, Zenon
<1>5. ASSUME NEW x PROVE Lists(Only(guids, S), x) <=> x \in S
  BY <1>2, OnlyLists, GuidsAre, Zenon
<1> QED BY <1>3, <1>5, Zenon

LEMMA ListStarts ==
  ASSUME GraphOK
  PROVE  ListOK(Only(guids, Ready({})), 0)
<1> DEFINE q == Only(guids, Ready({}))
<1>1. Ready({}) \subseteq 1 .. Len(nodes)
  BY ReadyIs, Zenon
<1>2. IsSeq(q) /\ Once(q) /\ \A x : Lists(q, x) <=> x \in Ready({})
  BY <1>1, OnlyGuids, Zenon
<1> HIDE DEF q
<1>3. Len(q) \in Nat /\ Len(nodes) \in Nat
  BY <1>2, LenIs, Zenon DEF GraphOK
<1>4. Firsts(q, 0) = {}
  <2>1. \A j \in 1 .. 0 : FALSE
    OBVIOUS
  <2> QED BY <2>1, Zenon DEF Firsts
<1>5. SourcesFirst(q)
  <2> SUFFICES ASSUME NEW a \in 1 .. Len(q), NEW i \in 1 .. NumInputs(Type(q[a])) PROVE FALSE
    BY Zenon DEF SourcesFirst
  <2>1. q[a] \in Ready({})
    BY <1>2, Zenon DEF Lists
  <2>2. In(q[a], i) \in {}
    BY <2>1, ReadyIs
  <2> QED BY <2>2
<1>6. \A x : Lists(q, x) <=> x \in Ready(Firsts(q, 0))
  BY <1>2, <1>4, Zenon
<1>7. Len(q) >= 0
  BY <1>3
<1>8. 0 \in Nat
  OBVIOUS
<1>9. 0 < Len(nodes) => Len(q) >= 0 + 1
  BY <1>2, <1>6, <1>7, <1>8, ListGoesOn, Zenon
<1>10. ListOK(q, 0)
  BY <1>2, <1>5, <1>6, <1>7, <1>9, Zenon DEF ListOK
<1> QED BY <1>10, Zenon DEF q

NextList(q, k) == q \o Only(guids, Ready(Firsts(q, k)) \ Range(q))

LEMMA ListStep ==
  ASSUME GraphOK, NEW k \in 1 .. Len(nodes), NEW q, ListOK(q, k - 1)
  PROVE  ListOK(NextList(q, k), k)
<1> DEFINE D == Firsts(q, k)
           r == Only(guids, Ready(D) \ Range(q))
           p == NextList(q, k)
           n == Len(q)
           N == Len(nodes)
<1>1. /\ IsSeq(q) /\ Once(q) /\ SourcesFirst(q)
      /\ \A x : Lists(q, x) <=> x \in Ready(Firsts(q, k - 1))
      /\ n >= k - 1 /\ (k - 1 < N => n >= (k - 1) + 1)
  BY Zenon DEF ListOK
<1>2. N \in Nat /\ n \in Nat /\ DOMAIN q = 1 .. n
  BY <1>1, LenIs, Zenon DEF GraphOK
<1>3. k \in Nat \ {0} /\ n >= k
  BY <1>1, <1>2
<1>4. \A x : x \in Range(q) <=> Lists(q, x)
  BY <1>2, Zenon DEF Range, Lists
<1>5. \A x : x \in Ready(D) => x \in 1 .. N
  BY ReadyIs, Zenon
<1>6. IsSeq(r) /\ Once(r) /\ \A x : Lists(r, x) <=> x \in Ready(D) /\ ~ Lists(q, x)
  <2>1. Ready(D) \ Range(q) \subseteq 1 .. N
    BY <1>5, Zenon
  <2>2. IsSeq(r) /\ Once(r) /\ \A x : Lists(r, x) <=> x \in Ready(D) \ Range(q)
    BY <2>1, OnlyGuids, Zenon
  <2> HIDE DEF r
  <2> QED BY <1>4, <2>2, Zenon
<1>7. p = q \o r
  BY Zenon DEF NextList
<1> HIDE DEF r, p
<1> DEFINE l == Len(r)
<1>8. l \in Nat
  BY <1>6, LenIs, Zenon
<1>9. /\ IsSeq(p) /\ Len(p) = n + l
      /\ \A i \in 1 .. (n + l) : p[i] = IF i <= n THEN q[i] ELSE r[i - n]
  BY <1>1, <1>6, <1>7, ConcatIs, Zenon
<1>10. /\ \A i \in 1 .. n : i \in 1 .. Len(p) /\ p[i] = q[i]
       /\ \A j \in 1 .. l : j + n \in 1 .. Len(p) /\ p[j + n] = r[j]
       /\ \A i \in 1 .. Len(p) : i \in 1 .. n \/ (i - n \in 1 .. l /\ p[i] = r[i - n] /\ n < i)
  <2>1. /\ \A i \in 1 .. Len(q) : i \in 1 .. Len(q \o r) /\ (q \o r)[i] = q[i]
        /\ \A j \in 1 .. Len(r) : j + Len(q) \in 1 .. Len(q \o r) /\ (q \o r)[j + Len(q)] = r[j]
        /\ \A i \in 1 .. Len(q \o r) :
             \/ i \in 1 .. Len(q)
             \/ i - Len(q) \in 1 .. Len(r) /\ (q \o r)[i] = r[i - Len(q)] /\ Len(q) < i
    BY <1>1, <1>6, ConcatParts, Zenon
  <2> QED BY <1>7, <2>1, Zenon
<1>11. \A x : Lists(p, x) <=> Lists(q, x) \/ Lists(r, x)
  <2>1. ASSUME NEW x, Lists(p, x) PROVE Lists(q, x) \/ Lists(r, x)
    <3>1. PICK i \in 1 .. Len(p) : p[i] = x
      BY <2>1, Zenon DEF Lists
    <3> QED BY <1>10, <3>1, Zenon DEF Lists
  <2>2. ASSUME NEW x, Lists(q, x) PROVE Lists(p, x)
    <3>1. PICK i \in 1 .. n : q[i] = x
      BY <2>2, Zenon DEF Lists
    <3> QED BY <1>10, <3>1, Zenon DEF Lists
  <2>3. ASSUME NEW x, Lists(r, x) PROVE Lists(p, x)
    <3>1. PICK i \in 1 .. l : r[i] = x
      BY <2>3, Zenon DEF Lists
    <3> QED BY <1>10, <3>1, Zenon DEF Lists
  <2> QED BY <2>1, <2>2, <2>3, Zenon
<1>12. Firsts(p, k) = D
  <2>1. \A j \in 1 .. k : j \in 1 .. n
    BY <1>2, <1>3
  <2>2. \A j \in 1 .. k : p[j] = q[j]
    BY <1>10, <2>1, Zenon
  <2> QED BY <2>2, Zenon DEF Firsts
<1>13. \A x : Lists(q, x) => x \in Ready(D)
  <2>1. \A j \in 1 .. k - 1 : j \in 1 .. k
    BY <1>3
  <2>2. \A x \in Firsts(q, k - 1) : x \in D
    BY <2>1, Zenon DEF Firsts
  <2> HIDE DEF D
  <2> QED BY <1>1, <2>2, ReadyIs, Zenon
<1> HIDE DEF D
<1>14. \A x : Lists(p, x) <=> x \in Ready(Firsts(p, k))
  BY <1>6, <1>11, <1>12, <1>13, Zenon
<1>15. Once(p)
  <2> SUFFICES ASSUME NEW a \in 1 .. Len(p), NEW c \in 1 .. Len(p), p[a] = p[c] PROVE a = c
    BY Zenon DEF Once
  <2>1. CASE a \in 1 .. n /\ c \in 1 .. n
    BY <1>1, <1>10, <2>1, Zenon DEF Once
  <2>2. CASE a \notin 1 .. n /\ c \notin 1 .. n
    <3>1. a - n \in 1 .. l /\ c - n \in 1 .. l /\ r[a - n] = r[c - n]
      BY <1>10, <2>2, Zenon
    <3>2. a - n = c - n
      BY <1>6, <3>1, Zenon DEF Once
    <3> QED BY <1>2, <1>8, <1>9, <3>2
  <2>3. CASE a \in 1 .. n /\ c \notin 1 .. n
    <3>1. c - n \in 1 .. l /\ r[c - n] = q[a]
      BY <1>10, <2>3, Zenon
    <3> QED BY <1>6, <2>3, <3>1, Zenon DEF Lists
  <2>4. CASE a \notin 1 .. n /\ c \in 1 .. n
    <3>1. a - n \in 1 .. l /\ r[a - n] = q[c]
      BY <1>10, <2>4, Zenon
    <3> QED BY <1>6, <2>4, <3>1, Zenon DEF Lists
  <2> QED BY <2>1, <2>2, <2>3, <2>4, Zenon
<1>16. SourcesFirst(p)
  <2> SUFFICES ASSUME NEW a \in 1 .. Len(p), NEW i \in 1 .. NumInputs(Type(p[a]))
               PROVE  \E c \in 1 .. Len(p) : c < a /\ p[c] = In(p[a], i)
    BY Zenon DEF SourcesFirst
  <2>1. CASE a \in 1 .. n
    <3>1. p[a] = q[a]
      BY <1>10, <2>1, Zenon
    <3>2. PICK c \in 1 .. n : c < a /\ q[c] = In(q[a], i)
      BY <1>1, <2>1, <3>1, Zenon DEF SourcesFirst
    <3> QED BY <1>10, <3>1, <3>2, Zenon
  <2>2. CASE a \notin 1 .. n
    <3>1. a - n \in 1 .. l /\ p[a] = r[a - n] /\ n < a
      BY <1>10, <2>2, Zenon
    <3>2. p[a] \in Ready(D)
      BY <1>6, <3>1, Zenon DEF Lists
    <3>3. In(p[a], i) \in Firsts(q, k)
      BY <3>2, ReadyIs, Zenon DEF D
    <3>4. PICK c \in 1 .. k : q[c] = In(p[a], i)
      BY <3>3, Zenon DEF Firsts
    <3>5. c \in 1 .. n /\ c < a
      BY <1>2, <1>3, <1>8, <1>9, <3>1
    <3> QED BY <1>10, <3>4, <3>5, Zenon
  <2> QED BY <2>1, <2>2, Zenon
<1>17. Len(p) >= k
  BY <1>2, <1>3, <1>8, <1>9
<1>18. k < N => Len(p) >= k + 1
  BY <1>3, <1>9, <1>14, <1>17, ListGoesOn, Zenon
<1>19. ListOK(p, k)
  BY <1>9, <1>14, <1>15, <1>16, <1>17, <1>18, Zenon DEF ListOK
<1> QED BY <1>19, Zenon DEF p

\* Ordered lists every node once, after its sources.
LEMMA OrderedIs ==
  ASSUME GraphOK
  PROVE  /\ IsSeq(Ordered) /\ Once(Ordered) /\ SourcesFirst(Ordered)
         /\ \A x : Lists(Ordered, x) <=> x \in 1 .. Len(nodes)
<1> DEFINE N == Len(nodes)
           X == Seq(1 .. N)
           b == Only(guids, Ready({}))
           G == [p \in X \X (1 .. N) |-> NextList(p[1], p[2])]
<1>1. N \in Nat
  BY Zenon DEF GraphOK
<1>2. ASSUME NEW S, S \subseteq 1 .. N PROVE Only(guids, S) \in X
  <2> DEFINE q == Only(guids, S)
  <2>1. IsSeq(q) /\ \A x : Lists(q, x) <=> x \in S
    BY <1>2, OnlyGuids, Zenon
  <2> HIDE DEF q
  <2>2. \A a \in 1 .. Len(q) : q[a] \in 1 .. N
    BY <1>2, <2>1, Zenon DEF Lists
  <2>3. q \in X
    BY <2>1, <2>2 DEF IsSeq
  <2> QED BY <2>3, Zenon DEF q
<1>3. b \in X
  <2>1. Ready({}) \subseteq 1 .. N
    BY ReadyIs, Zenon
  <2> QED BY <1>2, <2>1, Zenon
<1>4. \A q \in X : \A k \in 1 .. N : NextList(q, k) \in X
  <2> SUFFICES ASSUME NEW q \in X, NEW k \in 1 .. N PROVE NextList(q, k) \in X
    OBVIOUS
  <2> DEFINE r == Only(guids, Ready(Firsts(q, k)) \ Range(q))
  <2>1. Ready(Firsts(q, k)) \ Range(q) \subseteq 1 .. N
    BY ReadyIs, Zenon
  <2>2. r \in X
    BY <1>2, <2>1, Zenon
  <2> HIDE DEF r
  <2>3. q \o r \in X
    BY <2>2
  <2> QED BY <2>3, Zenon DEF NextList, r
<1>5. G \in [X \X (1 .. N) -> X]
  <2> SUFFICES ASSUME NEW p \in X \X (1 .. N) PROVE NextList(p[1], p[2]) \in X
    BY Zenon
  <2> HIDE DEF X
  <2>1. p[1] \in X /\ p[2] \in 1 .. N
    OBVIOUS
  <2> QED BY <1>4, <2>1, Zenon
<1>6. \A q \in X : \A k \in 1 .. N : G[<<q, k>>] = NextList(q, k)
  <2> HIDE DEF X
  <2> QED OBVIOUS
<1> HIDE DEF X, b, G
<1>7. PICK f \in [0 .. N -> X] : Follows(f, b, G, N)
  BY <1>1, <1>3, <1>5, RecursionIs, Zenon
<1>8. \A k \in 1 .. N : k - 1 \in 0 .. N /\ k \in 0 .. N /\ k # 0
  BY <1>1
<1>9. \A k \in 0 .. N : k = 0 \/ k \in 1 .. N
  BY <1>1
<1>10. \A k \in 1 .. N : f[k] = NextList(f[k - 1], k)
  <2> SUFFICES ASSUME NEW k \in 1 .. N PROVE f[k] = NextList(f[k - 1], k)
    OBVIOUS
  <2>1. f[k - 1] \in X /\ f[k] = G[<<f[k - 1], k>>]
    BY <1>7, <1>8, Zenon DEF Follows
  <2> QED BY <1>6, <2>1, Zenon
<1> DEFINE E(g) == [k \in 0 .. N |->
                      IF k = 0 THEN Only(guids, Ready({}))
                      ELSE LET before == g[k - 1]
                           IN  before \o Only(guids, Ready({before[j] : j \in 1 .. k}) \ Range(before))]
           list == CHOOSE g : g = E(g)
<1>11. \A g : E(g) = [k \in 0 .. N |-> IF k = 0 THEN b ELSE NextList(g[k - 1], k)]
  BY Zenon DEF NextList, Firsts, b
<1>12. Ordered = list[N]
  BY Zenon DEF Ordered
<1> HIDE DEF E
<1>13. f = E(f)
  <2> DEFINE e == [k \in 0 .. N |-> IF k = 0 THEN b ELSE NextList(f[k - 1], k)]
  <2>1. \A k \in 0 .. N : f[k] = e[k]
    BY <1>7, <1>9, <1>10, Zenon DEF Follows
  <2>2. f = [k \in 0 .. N |-> f[k]]
    BY Zenon
  <2>3. f = e
    BY <2>1, <2>2, Zenon
  <2> QED BY <1>11, <2>3, Zenon
<1>14. list = E(list)
  BY <1>13, Zenon
<1> HIDE DEF list
<1>15. list = [k \in 0 .. N |-> IF k = 0 THEN b ELSE NextList(list[k - 1], k)]
  BY <1>11, <1>14, Zenon
<1>16. list[0] = b /\ \A k \in 1 .. N : list[k] = NextList(list[k - 1], k)
  <2> DEFINE e == [k \in 0 .. N |-> IF k = 0 THEN b ELSE NextList(list[k - 1], k)]
  <2>1. \A k \in 0 .. N : list[k] = e[k]
    BY <1>15, Zenon
  <2>2. 0 \in 0 .. N
    BY <1>1
  <2> QED BY <1>8, <2>1, <2>2, Zenon
<1> DEFINE Bad == {k \in 0 .. N : ~ ListOK(list[k], k)}
<1>17. Bad = {}
  <2> SUFFICES ASSUME Bad # {} PROVE FALSE
    OBVIOUS
  <2>1. Bad \subseteq Nat
    BY <1>1
  <2>2. PICK m \in Bad : \A k \in Bad : m <= k
    <3> HIDE DEF Bad
    <3> QED BY <2>1, Least, Zenon
  <2>3. m # 0
    BY <1>16, ListStarts, Zenon DEF b
  <2>4. m \in 1 .. N /\ m - 1 \in 0 .. N /\ ~ (m <= m - 1)
    BY <1>1, <2>3
  <2>5. ListOK(list[m - 1], m - 1)
    BY <2>2, <2>4, Zenon
  <2>6. ListOK(list[m], m)
    BY <1>16, <2>4, <2>5, ListStep, Zenon
  <2> QED BY <2>6, Zenon
<1> DEFINE q == Ordered
<1>18. ListOK(q, N)
  <2>1. N \in 0 .. N
    BY <1>1
  <2> QED BY <1>12, <1>17, <2>1, Zenon
<1> HIDE DEF q
<1>19. /\ IsSeq(q) /\ Once(q) /\ SourcesFirst(q) /\ Len(q) >= N
       /\ \A x : Lists(q, x) <=> x \in Ready(Firsts(q, N))
  BY <1>18, Zenon DEF ListOK
<1>20. \A a \in 1 .. Len(q) : q[a] \in 1 .. N
  BY <1>19, ReadyIs, Zenon DEF Lists
<1>21. Len(q) = N
  <2>1. Len(q) <= N
    BY <1>1, <1>19, <1>20, OnceIsShort, Zenon
  <2>2. Len(q) \in Nat
    BY <1>19, LenIs, Zenon
  <2> QED BY <1>1, <1>19, <2>1, <2>2
<1> DEFINE Miss == {n \in 1 .. N : ~ Lists(q, n)}
<1>22. Miss = {}
  <2> SUFFICES ASSUME Miss # {} PROVE FALSE
    OBVIOUS
  <2>1. Miss \subseteq Nat
    BY <1>1
  <2>2. PICK n \in Miss : \A m \in Miss : n <= m
    <3> HIDE DEF Miss
    <3> QED BY <2>1, Least, Zenon
  <2>3. n \in 1 .. N /\ ~ Lists(q, n)
    BY Zenon
  <2>4. ASSUME NEW i \in 1 .. NumInputs(Type(n)) PROVE In(n, i) \in Firsts(q, N)
    <3>1. In(n, i) \in 1 .. (n - 1)
      BY <2>3, Zenon DEF GraphOK
    <3>2. In(n, i) \in 1 .. N /\ ~ (n <= In(n, i))
      BY <1>1, <2>3, <3>1
    <3>3. Lists(q, In(n, i))
      BY <2>2, <3>2, Zenon
    <3> QED BY <1>21, <3>3, Zenon DEF Lists, Firsts
  <2>5. n \in Ready(Firsts(q, N))
    BY <2>3, <2>4, ReadyIs, Zenon
  <2> QED BY <1>19, <2>3, <2>5, Zenon
<1>23. ASSUME NEW x PROVE Lists(q, x) <=> x \in 1 .. N
  BY <1>20, <1>22, Zenon DEF Lists
<1> QED BY <1>19, <1>23, Zenon DEF q

\* What get_operator_list gives: every operator once, after those it reads.
LEMMA OperatorList ==
  ASSUME GraphOK
  PROVE  LET L == get_operator_list
         IN  /\ IsSeq(L) /\ Once(L)
             /\ \A x : Lists(L, x) <=> x \in Operators
             /\ \A a \in 1 .. Len(L) : \A i \in 1 .. NumInputs(Type(L[a])) :
                  In(L[a], i) \in Operators
                  => \E c \in 1 .. Len(L) : c < a /\ L[c] = In(L[a], i)
<1> DEFINE s == Ordered
           L == Only(s, Operators)
<1>1. /\ IsSeq(s) /\ Once(s) /\ SourcesFirst(s)
      /\ \A x : Lists(s, x) <=> x \in 1 .. Len(nodes)
  BY OrderedIs, Zenon
<1>2. DOMAIN nodes = 1 .. Len(nodes)
  BY Zenon DEF GraphOK
<1> HIDE DEF s
<1>3. IsSeq(L) /\ Once(L)
  BY <1>1, OnlyKeeps, OnlyOrder, Zenon
<1>4. ASSUME NEW x PROVE Lists(L, x) <=> x \in Operators
  <2>1. x \in Operators => x \in 1 .. Len(nodes)
    BY <1>2, Zenon DEF Operators
  <2> QED BY <1>1, <2>1, OnlyLists, Zenon
<1>5. ASSUME NEW a \in 1 .. Len(L), NEW i \in 1 .. NumInputs(Type(L[a])), In(L[a], i) \in Operators
      PROVE  \E c \in 1 .. Len(L) : c < a /\ L[c] = In(L[a], i)
  <2>1. Lists(s, L[a])
    <3>1. Lists(L, L[a])
      BY Zenon DEF Lists
    <3> HIDE DEF L
    <3> QED BY <1>1, <1>2, <1>4, <3>1, Zenon DEF Operators
  <2>2. PICK k \in 1 .. Len(s) : s[k] = L[a]
    BY <2>1, Zenon DEF Lists
  <2>3. PICK j \in 1 .. Len(s) : j < k /\ s[j] = In(s[k], i)
    BY <1>1, <2>2, Zenon DEF SourcesFirst
  <2>4. s[j] \in Operators
    BY <1>5, <2>2, <2>3, Zenon
  <2>5. \E c \in 1 .. Len(L) : L[c] = s[j] /\ c < a
    BY <1>1, <2>2, <2>3, <2>4, OnlyOrder
  <2> HIDE DEF L
  <2> QED BY <2>2, <2>3, <2>5, Zenon
<1>6. get_operator_list = L
  BY Zenon DEF get_operator_list, s
<1> HIDE DEF L
<1> QED BY <1>3, <1>4, <1>5, <1>6, Zenon

=============================================================================
