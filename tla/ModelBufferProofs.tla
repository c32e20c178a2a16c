-------------------------- MODULE ModelBufferProofs --------------------------
(***************************************************************************)
(* The linked list of LruCache is well formed and implements LruSpec, for  *)
(* any names, capacity and number of nodes.  What the pools of the         *)
(* processes of a parallel query hold, for any workers, models and rows.   *)
(***************************************************************************)
EXTENDS LruCache, ParallelQuery, FiniteSetTheorems, TLAPS

----------------------------------------------------------------------------
(* The nodes of a list, in order *)

\* s has sz nodes, those of al, each once.
Enumerates(s, sz, al) ==
  /\ s \in [1 .. sz -> al]
  /\ \A a \in al : \E i \in 1 .. sz : s[i] = a
  /\ \A i, j \in 1 .. sz : s[i] = s[j] => i = j

\* s is the list of the nodes of al that starts at hd and ends at tl: their links
\* lead from one to the next and back.
List(s, hd, tl, sz, nx, pv, al) ==
  /\ Enumerates(s, sz, al)
  /\ sz = 0 => hd = NULL /\ tl = NULL
  /\ sz > 0 => hd = s[1] /\ tl = s[sz]
  /\ \A i \in 1 .. sz : nx[s[i]] = IF i = sz THEN NULL ELSE s[i + 1]
  /\ \A i \in 1 .. sz : pv[s[i]] = IF i = 1 THEN NULL ELSE s[i - 1]

\* f is a walk of n steps from h.
Walks(f, h, nx, n) == \A i \in 1 .. n : f[i] = IF i = 1 THEN h ELSE nx[f[i - 1]]

\* Every set of natural numbers that is not empty has a least element.
LEMMA Least ==
  ASSUME NEW S, S \subseteq Nat, S # {}
  PROVE  \E n \in S : \A m \in S : n <= m
  <1>1. PICK n \in S : \A m \in S : ~ (<<m, n>> \in OpToRel(<, Nat))
    BY NatLessThanWellFounded, WFMin, Zenon
  <1>2. \A m \in S : n \in Nat /\ m \in Nat /\ ~ (m < n)
    BY <1>1, Zenon DEF OpToRel
  <1> QED BY <1>2

\* Two walks from one node over the same links meet the same nodes.
LEMMA WalkUnique ==
  ASSUME NEW n \in Nat, NEW h, NEW nx, NEW f, NEW g, Walks(f, h, nx, n), Walks(g, h, nx, n)
  PROVE  \A i \in 1 .. n : f[i] = g[i]
  <1> DEFINE S == {i \in 1 .. n : f[i] # g[i]}
  <1> SUFFICES ASSUME S # {} PROVE FALSE
    OBVIOUS
  <1>1. PICK i \in S : \A j \in S : i <= j
    <2>1. S \subseteq Nat
      OBVIOUS
    <2> HIDE DEF S
    <2> QED BY <2>1, Least, Zenon
  <1>2. CASE i = 1
    BY <1>2 DEF Walks
  <1>3. CASE i # 1
    <2>1. i - 1 \in 1 .. n /\ i - 1 \notin S
      BY <1>1, <1>3
    <2>2. f[i - 1] = g[i - 1]
      BY <2>1
    <2> QED BY <1>3, <2>2 DEF Walks
  <1> QED BY <1>2, <1>3

\* The walk meets the nodes of the list.
LEMMA WalkIsList ==
  ASSUME NEW s, NEW hd, NEW tl, NEW sz \in Nat, NEW nx, NEW pv, NEW al,
         List(s, hd, tl, sz, nx, pv, al)
  PROVE  Walk(hd, nx, sz) = s
  <1> DEFINE Is(f) == f = [i \in 1 .. sz |-> IF i = 1 THEN hd ELSE nx[f[i - 1]]]
  <1>1. s = [i \in 1 .. sz |-> s[i]]
    BY DEF List, Enumerates
  <1>2. ASSUME NEW i \in 1 .. sz
        PROVE  s[i] = IF i = 1 THEN hd ELSE nx[s[i - 1]]
    <2>1. CASE i = 1
      BY <2>1 DEF List
    <2>2. CASE i # 1
      <3>1. i - 1 \in 1 .. sz /\ i - 1 # sz /\ (i - 1) + 1 = i
        BY <2>2
      <3> QED BY <2>2, <3>1 DEF List
    <2> QED BY <2>1, <2>2
  <1>3. Is(s)
    BY <1>1, <1>2, Zenon
  <1>4. Is(CHOOSE f : Is(f))
    BY <1>3, Zenon
  <1>5. PICK w : Is(w) /\ Walk(hd, nx, sz) = [i \in 1 .. sz |-> w[i]]
    BY <1>4, Zenon DEF Walk
  <1>6. Walks(s, hd, nx, sz) /\ Walks(w, hd, nx, sz)
    BY <1>2, <1>5 DEF Walks
  <1>7. \A i \in 1 .. sz : w[i] = s[i]
    BY <1>6, WalkUnique
  <1> QED BY <1>1, <1>5, <1>7

----------------------------------------------------------------------------
(* lru_cache_move_to_head *)

\* The list with the k-th node in front.
Moved(s, k) == [i \in DOMAIN s |-> IF i = 1 THEN s[k] ELSE IF i <= k THEN s[i - 1] ELSE s[i]]

\* The place from which a move of the k-th node takes what it puts at place i.
From(k, i) == IF i = 1 THEN k ELSE IF i <= k THEN i - 1 ELSE i

\* It is a place of the list,
MovedPlaces(s, n, k) ==
  \A i \in 1 .. n : From(k, i) \in 1 .. n /\ Moved(s, k)[i] = s[From(k, i)]

LEMMA MovedFrom ==
  ASSUME NEW n \in Nat, NEW s, DOMAIN s = 1 .. n, NEW k \in 1 .. n
  PROVE  MovedPlaces(s, n, k)
  <1> SUFFICES ASSUME NEW i \in 1 .. n
               PROVE  From(k, i) \in 1 .. n /\ Moved(s, k)[i] = s[From(k, i)]
    BY Zenon DEF MovedPlaces
  <1> QED BY DEF From, Moved

\* and another one for every place.
LEMMA FromOnce ==
  ASSUME NEW n \in Nat, NEW k \in 1 .. n, NEW i \in 1 .. n, NEW j \in 1 .. n,
         From(k, i) = From(k, j)
  PROVE  i = j
  BY DEF From

\* Moving keeps the nodes, each once.
LEMMA MovedNodes ==
  ASSUME NEW sz \in Nat, NEW al, NEW s, NEW k \in 1 .. sz, Enumerates(s, sz, al)
  PROVE  Enumerates(Moved(s, k), sz, al)
  <1> DEFINE m == Moved(s, k)
  <1>1. DOMAIN s = 1 .. sz /\ s \in [1 .. sz -> al]
    BY DEF Enumerates
  <1>2. \A i \in 1 .. sz : From(k, i) \in 1 .. sz /\ m[i] = s[From(k, i)]
    <2>1. MovedPlaces(s, sz, k)
      BY <1>1, MovedFrom, Zenon
    <2> QED BY <2>1, Zenon DEF MovedPlaces
  <1>3. m \in [1 .. sz -> al]
    BY <1>1 DEF Moved
  <1>4. \A i, j \in 1 .. sz : From(k, i) = From(k, j) => i = j
    BY FromOnce, Zenon
  <1>5. ASSUME NEW i \in 1 .. sz
        PROVE  \E j \in 1 .. sz : From(k, j) = i
    <2>1. CASE i = k
      BY <2>1 DEF From
    <2>2. CASE i < k
      <3>1. i + 1 \in 1 .. sz /\ From(k, i + 1) = i
        BY <2>2 DEF From
      <3> QED BY <3>1
    <2>3. CASE i > k
      BY <2>3 DEF From
    <2> QED BY <2>1, <2>2, <2>3
  <1> HIDE DEF m
  <1>6. \A i, j \in 1 .. sz : m[i] = m[j] => i = j
    BY <1>2, <1>4 DEF Enumerates
  <1>7. ASSUME NEW a \in al
        PROVE  \E j \in 1 .. sz : m[j] = a
    <2>1. PICK i \in 1 .. sz : s[i] = a
      BY DEF Enumerates
    <2>2. PICK j \in 1 .. sz : From(k, j) = i
      BY <1>5
    <2>3. m[j] = a
      BY <1>2, <2>1, <2>2
    <2> QED BY <2>3
  <1>8. Enumerates(m, sz, al)
    BY <1>3, <1>6, <1>7 DEF Enumerates
  <1> QED BY <1>8 DEF m

\* lru_cache_move_to_head keeps the list, with the node in front.
LEMMA MoveToHeadList ==
  ASSUME CacheTypeOK, NULL \notin Addr,
         NEW s, List(s, head, tail, size, next, prev, alloc),
         NEW k \in 1 .. size, MoveToHead(s[k])
  PROVE  List(Moved(s, k), head', tail', size, next', prev', alloc)
  <1> DEFINE m == Moved(s, k)
             a == s[k]
  <1>1. /\ size \in Nat /\ alloc \subseteq Addr
        /\ prev \in [Addr -> Addr \cup {NULL}] /\ next \in [Addr -> Addr \cup {NULL}]
    BY DEF CacheTypeOK
  <1>2. /\ s \in [1 .. size -> alloc]
        /\ \A b \in alloc : \E i \in 1 .. size : s[i] = b
        /\ \A i, j \in 1 .. size : s[i] = s[j] => i = j
        /\ head = s[1] /\ tail = s[size]
        /\ \A i \in 1 .. size : next[s[i]] = IF i = size THEN NULL ELSE s[i + 1]
        /\ \A i \in 1 .. size : prev[s[i]] = IF i = 1 THEN NULL ELSE s[i - 1]
    BY <1>1 DEF List, Enumerates
  <1>3. Enumerates(m, size, alloc)
    <2>1. Enumerates(s, size, alloc)
      BY DEF List
    <2> QED BY <1>1, <2>1, MovedNodes, Zenon
  <1>4. \A i \in 1 .. size : s[i] \in Addr /\ s[i] # NULL
    BY <1>1, <1>2
  <1>5. \A i \in 1 .. size : m[i] = IF i = 1 THEN s[k] ELSE IF i <= k THEN s[i - 1] ELSE s[i]
    BY <1>2 DEF Moved
  <1>6. CASE k = 1
    <2>1. UNCHANGED links
      BY <1>2, <1>6 DEF MoveToHead
    <2>2. head' = head /\ tail' = tail /\ prev' = prev /\ next' = next
      BY <2>1 DEF links
    <2>3. \A i \in 1 .. size : m[i] = s[i]
      BY <1>1, <1>5, <1>6
    <2>4. m = s
      <3>1. m = [i \in 1 .. size |-> m[i]] /\ s = [i \in 1 .. size |-> s[i]]
        BY <1>2, <1>3 DEF Enumerates
      <3> HIDE DEF m
      <3> QED BY <2>3, <3>1
    <2> QED BY <2>2, <2>4
  <1>7. CASE k # 1
    <2>1. a # head
      BY <1>1, <1>2, <1>7
    <2> DEFINE next1 == Assign(next, prev[a], next[a])
               prev1 == Assign(prev, next[a], prev[a])
               tail1 == IF a = tail THEN prev[a] ELSE tail
    <2>2. /\ next' = [next1 EXCEPT ![a] = head]
          /\ prev' = Assign([prev1 EXCEPT ![a] = NULL], head, a)
          /\ head' = a
          /\ tail' = IF tail1 = NULL THEN a ELSE tail1
      BY <2>1 DEF MoveToHead
    <2>3. k - 1 \in 1 .. size /\ prev[a] = s[k - 1]
      BY <1>1, <1>2, <1>7
    <2>4. next1 = [next EXCEPT ![s[k - 1]] = next[a]]
      BY <1>4, <2>3 DEF Assign
    <2>5. \A b \in Addr : next'[b] = IF b = a THEN head ELSE IF b = s[k - 1] THEN next[a] ELSE next[b]
      BY <1>1, <1>4, <2>2, <2>3, <2>4
    <2>6. prev1 \in [Addr -> Addr \cup {NULL}]
          /\ \A b \in Addr : prev1[b] = IF b = next[a] THEN s[k - 1] ELSE prev[b]
      BY <1>1, <1>4, <2>3 DEF Assign
    <2>7. \A b \in Addr : prev'[b] = IF b = head THEN a ELSE IF b = a THEN NULL ELSE prev1[b]
      <3>1. head # NULL /\ head \in Addr
        BY <1>1, <1>2, <1>4
      <3> HIDE DEF prev1
      <3>2. prev' = [[prev1 EXCEPT ![a] = NULL] EXCEPT ![head] = a]
        BY <2>2, <3>1 DEF Assign
      <3> QED BY <1>4, <2>6, <3>1, <3>2
    <2>8. tail' = m[size]
      <3>1. CASE k = size
        <4>1. tail1 = s[k - 1] /\ s[k - 1] # NULL
          BY <1>2, <1>4, <2>3, <3>1
        <4>2. m[size] = s[k - 1]
          BY <1>5, <1>7, <3>1
        <4> QED BY <2>2, <4>1, <4>2
      <3>2. CASE k # size
        <4>1. a # tail /\ tail # NULL
          BY <1>1, <1>2, <1>4, <3>2
        <4>2. m[size] = s[size]
          BY <1>1, <1>5, <1>7, <3>2
        <4> QED BY <1>2, <2>2, <4>1, <4>2
      <3> QED BY <3>1, <3>2
    <2>9. head' = m[1]
      BY <1>1, <1>5, <2>2
    <2>10. ASSUME NEW i \in 1 .. size
           PROVE  next'[m[i]] = IF i = size THEN NULL ELSE m[i + 1]
      <3>1. CASE i = 1
        <4>1. m[i] = a /\ m[i + 1] = s[1] /\ i # size
          BY <1>1, <1>5, <1>7, <3>1
        <4> QED BY <1>2, <1>4, <2>5, <4>1
      <3>2. CASE i = k
        <4>1. m[i] = s[k - 1] /\ s[k - 1] # a /\ s[k - 1] \in Addr
          BY <1>1, <1>2, <1>4, <1>5, <1>7, <2>3, <3>2
        <4>2. next'[m[i]] = next[a]
          BY <2>5, <4>1
        <4>3. i # size => m[i + 1] = s[k + 1]
          BY <1>1, <1>5, <3>2
        <4> QED BY <1>2, <3>2, <4>2, <4>3
      <3>3. CASE i # 1 /\ i < k
        <4>1. m[i] = s[i - 1] /\ m[i + 1] = s[i] /\ i # size /\ i - 1 \in 1 .. size
          BY <1>1, <1>5, <3>3
        <4>2. s[i - 1] # a /\ s[i - 1] # s[k - 1]
          BY <1>1, <1>2, <2>3, <3>3, <4>1
        <4>3. next[s[i - 1]] = s[i]
          BY <1>1, <1>2, <4>1
        <4>4. s[i - 1] \in Addr
          BY <1>4, <4>1, Zenon
        <4>5. next'[s[i - 1]] = next[s[i - 1]]
          BY <2>5, <4>2, <4>4, Zenon
        <4> QED BY <4>1, <4>3, <4>5, Zenon
      <3>4. CASE i > k
        <4>1. m[i] = s[i] /\ (i # size => m[i + 1] = s[i + 1])
          BY <1>1, <1>5, <3>4
        <4>2. s[i] # a /\ s[i] # s[k - 1]
          BY <1>1, <1>2, <2>3, <3>4
        <4>3. next[s[i]] = IF i = size THEN NULL ELSE s[i + 1]
          BY <1>2, Zenon
        <4>4. s[i] \in Addr
          BY <1>4, Zenon
        <4>5. next'[s[i]] = next[s[i]]
          BY <2>5, <4>2, <4>4, Zenon
        <4> QED BY <4>1, <4>3, <4>5, Zenon
      <3>5. i = 1 \/ i = k \/ (i # 1 /\ i < k) \/ i > k
        BY <1>1
      <3> QED BY <3>1, <3>2, <3>3, <3>4, <3>5, Zenon
    <2>11. ASSUME NEW i \in 1 .. size
           PROVE  prev'[m[i]] = IF i = 1 THEN NULL ELSE m[i - 1]
      <3> HIDE DEF prev1
      <3>1. CASE i = 1
        <4>1. m[i] = a
          BY <1>5, <3>1
        <4> QED BY <1>4, <2>1, <2>7, <3>1, <4>1
      <3>2. CASE i = 2
        <4>1. m[i] = head /\ m[i - 1] = a
          BY <1>1, <1>2, <1>5, <1>7, <3>2
        <4> QED BY <1>1, <1>2, <1>4, <2>7, <3>2, <4>1
      <3>3. CASE i > 2 /\ i <= k
        <4>1. m[i] = s[i - 1] /\ m[i - 1] = s[i - 2] /\ i - 1 \in 1 .. size
          BY <1>1, <1>5, <3>3
        <4>2. s[i - 1] # a /\ s[i - 1] # head
          BY <1>1, <1>2, <3>3, <4>1
        <4>3. s[i - 1] # next[a]
          <5>1. CASE k = size
            BY <1>2, <1>4, <4>1, <5>1
          <5>2. CASE k # size
            BY <1>1, <1>2, <3>3, <4>1, <5>2
          <5> QED BY <5>1, <5>2
        <4>4. prev[s[i - 1]] = s[i - 2]
          BY <1>1, <1>2, <3>3, <4>1
        <4> QED BY <1>4, <2>6, <2>7, <3>3, <4>1, <4>2, <4>3, <4>4
      <3>4. CASE i = k + 1
        <4>1. m[i] = s[k + 1] /\ m[i - 1] = s[k - 1] /\ k + 1 \in 1 .. size
          BY <1>1, <1>5, <1>7, <3>4
        <4>2. next[a] = s[k + 1] /\ s[k + 1] # a /\ s[k + 1] # head
          BY <1>1, <1>2, <3>4, <4>1
        <4> QED BY <1>4, <2>6, <2>7, <3>4, <4>1, <4>2
      <3>5. CASE i > k + 1
        <4>1. /\ k + 1 \in 1 .. size /\ 1 \in 1 .. size /\ k # size
              /\ i # k /\ i # 1 /\ i # k + 1
          BY <1>1, <3>5
        <4>2. m[i] = s[i] /\ m[i - 1] = s[i - 1]
          BY <1>1, <1>5, <3>5
        <4>3. next[a] = s[k + 1] /\ head = s[1] /\ prev[s[i]] = s[i - 1]
          BY <1>2, <4>1, Zenon
        <4>4. s[i] # a /\ s[i] # s[1] /\ s[i] # s[k + 1]
          BY <1>2, <4>1, Zenon
        <4>5. s[i] \in Addr
          BY <1>4, Zenon
        <4>6. prev'[s[i]] = prev[s[i]]
          BY <2>6, <2>7, <4>3, <4>4, <4>5, Zenon
        <4> QED BY <4>1, <4>2, <4>3, <4>6, Zenon
      <3> QED BY <1>1, <1>7, <3>1, <3>2, <3>3, <3>4, <3>5
    <2> HIDE DEF m
    <2>12. List(m, head', tail', size, next', prev', alloc)
      <3>1. size > 0
        BY <1>1
      <3> HIDE DEF next1, prev1, tail1, a
      <3> QED BY <1>3, <2>8, <2>9, <2>10, <2>11, <3>1 DEF List
    <2> QED BY <2>12 DEF m
  <1> QED BY <1>6, <1>7

----------------------------------------------------------------------------
(* put_lru_cache of a new name *)

\* The list without its last node, if that is evicted.
LeftAfterEvict(s) == [i \in 1 .. SizeAfterEvict |-> s[i]]

\* Unlinking the last node leaves a list of the others.
LEMMA EvictList ==
  ASSUME CacheTypeOK, NULL \notin Addr, NEW s, List(s, head, tail, size, next, prev, alloc)
  PROVE  /\ List(LeftAfterEvict(s), HeadAfterEvict, TailAfterEvict, SizeAfterEvict,
                 NextAfterEvict, Scrub(prev), AllocAfterEvict)
         /\ SizeAfterEvict \in Nat /\ AllocAfterEvict \subseteq Addr
         /\ NextAfterEvict \in [Addr -> Addr \cup {NULL}]
         /\ Scrub(prev) \in [Addr -> Addr \cup {NULL}]
  <1>1. /\ size \in Nat /\ alloc \subseteq Addr
        /\ prev \in [Addr -> Addr \cup {NULL}] /\ next \in [Addr -> Addr \cup {NULL}]
    BY DEF CacheTypeOK
  <1>2. /\ s \in [1 .. size -> alloc]
        /\ \A b \in alloc : \E i \in 1 .. size : s[i] = b
        /\ \A i, j \in 1 .. size : s[i] = s[j] => i = j
        /\ size = 0 => head = NULL /\ tail = NULL
        /\ size > 0 => head = s[1] /\ tail = s[size]
        /\ \A i \in 1 .. size : next[s[i]] = IF i = size THEN NULL ELSE s[i + 1]
        /\ \A i \in 1 .. size : prev[s[i]] = IF i = 1 THEN NULL ELSE s[i - 1]
    BY DEF List, Enumerates
  <1>3. CASE ~ Evicts
    <2>1. /\ HeadAfterEvict = head /\ TailAfterEvict = tail /\ SizeAfterEvict = size
          /\ NextAfterEvict = next /\ Scrub(prev) = prev /\ AllocAfterEvict = alloc
      BY <1>3 DEF HeadAfterEvict, TailAfterEvict, SizeAfterEvict, NextAfterEvict, Scrub,
                  AllocAfterEvict
    <2>2. LeftAfterEvict(s) = s
      BY <1>2, <2>1 DEF LeftAfterEvict
    <2> QED BY <1>1, <2>1, <2>2
  <1>4. CASE Evicts
    <2> DEFINE n == size - 1
               k == LeftAfterEvict(s)
               nx == NextAfterEvict
               pv == Scrub(prev)
               al == AllocAfterEvict
    <2>1. size > 0 /\ n \in Nat
      BY <1>1, <1>2, <1>4 DEF Evicts
    <2>2. tail = s[size] /\ tail \in Addr /\ tail # NULL /\ head = s[1]
      BY <1>1, <1>2, <2>1
    <2>3. /\ HeadAfterEvict = (IF tail = head THEN NULL ELSE head)
          /\ TailAfterEvict = prev[tail] /\ SizeAfterEvict = n
          /\ nx = Assign(next, prev[tail], NULL) /\ pv = [prev EXCEPT ![tail] = NULL]
          /\ al = alloc \ {tail}
      BY <1>4 DEF HeadAfterEvict, TailAfterEvict, SizeAfterEvict, NextAfterEvict, Scrub,
                  AllocAfterEvict
    <2>4. \A i \in 1 .. n : i \in 1 .. size /\ k[i] = s[i] /\ s[i] # tail /\ s[i] \in Addr
      BY <1>1, <1>2, <2>1, <2>2, <2>3 DEF LeftAfterEvict
    <2>5. Enumerates(k, n, al)
      <3>1. k \in [1 .. n -> al]
        BY <1>2, <2>3, <2>4 DEF LeftAfterEvict
      <3>2. ASSUME NEW b \in al
            PROVE  \E i \in 1 .. n : k[i] = b
        <4>1. PICK i \in 1 .. size : s[i] = b
          BY <1>2, <2>3
        <4>2. i # size
          BY <2>2, <2>3, <4>1
        <4>3. i \in 1 .. n
          BY <1>1, <4>2
        <4> QED BY <2>4, <4>1, <4>3
      <3>3. \A i, j \in 1 .. n : k[i] = k[j] => i = j
        BY <1>2, <2>4
      <3> QED BY <3>1, <3>2, <3>3 DEF Enumerates
    <2>6. prev[tail] = IF size = 1 THEN NULL ELSE s[n]
      BY <1>1, <1>2, <2>1, <2>2
    <2>7. pv \in [Addr -> Addr \cup {NULL}] /\ \A i \in 1 .. n : pv[k[i]] = prev[s[i]]
      BY <1>1, <2>2, <2>3, <2>4
    <2>8. CASE n = 0
      <3>1. tail = head /\ prev[tail] = NULL /\ nx = next
        BY <1>1, <2>2, <2>3, <2>6, <2>8 DEF Assign
      <3>2. List(k, HeadAfterEvict, TailAfterEvict, n, nx, pv, al)
        BY <2>3, <2>5, <2>8, <3>1 DEF List
      <3> QED BY <1>1, <2>1, <2>3, <2>7, <3>1, <3>2
    <2>9. CASE n # 0
      <3>1. n \in 1 .. size /\ n \in 1 .. n /\ prev[tail] = s[n] /\ s[n] \in Addr
        BY <1>1, <2>1, <2>4, <2>6, <2>9
      <3>2. tail # head
        BY <1>1, <1>2, <2>1, <2>2, <2>9
      <3>3. nx = [next EXCEPT ![s[n]] = NULL]
        BY <2>3, <3>1 DEF Assign
      <3>4. nx \in [Addr -> Addr \cup {NULL}]
        BY <1>1, <3>1, <3>3
      <3>5. ASSUME NEW i \in 1 .. n
            PROVE  nx[k[i]] = IF i = n THEN NULL ELSE k[i + 1]
        <4>1. CASE i = n
          BY <1>1, <2>4, <3>1, <3>3, <4>1
        <4>2. CASE i # n
          <5>1. s[i] # s[n] /\ next[s[i]] = s[i + 1] /\ i + 1 \in 1 .. n
            BY <1>1, <1>2, <2>1, <2>4, <3>1, <4>2
          <5> QED BY <1>1, <2>4, <3>3, <4>2, <5>1
        <4> QED BY <4>1, <4>2
      <3>6. ASSUME NEW i \in 1 .. n
            PROVE  pv[k[i]] = IF i = 1 THEN NULL ELSE k[i - 1]
        BY <1>1, <1>2, <2>1, <2>4, <2>7
      <3>7. HeadAfterEvict = k[1] /\ TailAfterEvict = k[n]
        BY <2>1, <2>2, <2>3, <2>4, <2>9, <3>1, <3>2
      <3> HIDE DEF k, nx, pv, al
      <3>8. n > 0
        BY <1>1, <2>1, <2>9
      <3> HIDE DEF n
      <3>9. List(k, HeadAfterEvict, TailAfterEvict, n, nx, pv, al)
        BY <2>5, <3>5, <3>6, <3>7, <3>8 DEF List
      <3>10. al \subseteq Addr
        BY <1>1, <2>3
      <3> QED BY <2>1, <2>3, <2>7, <3>4, <3>9, <3>10 DEF k, nx, pv, al
    <2> QED BY <2>8, <2>9
  <1> QED BY <1>3, <1>4

\* The list of sz nodes with a in front.
Pushed(s, sz, a) == [i \in 1 .. (sz + 1) |-> IF i = 1 THEN a ELSE s[i - 1]]

\* Linking a new node in front of the first gives a list.
LEMMA PushList ==
  ASSUME NULL \notin Addr, NEW s, NEW hd, NEW tl, NEW sz \in Nat,
         NEW nx \in [Addr -> Addr \cup {NULL}], NEW pv \in [Addr -> Addr \cup {NULL}],
         NEW al, al \subseteq Addr, List(s, hd, tl, sz, nx, pv, al), NEW a \in Addr \ al
  PROVE  List(Pushed(s, sz, a), a, IF tl = NULL THEN a ELSE tl, sz + 1,
              [nx EXCEPT ![a] = hd], Assign([pv EXCEPT ![a] = NULL], hd, a), al \cup {a})
  <1> DEFINE p == Pushed(s, sz, a)
             n == sz + 1
             tl2 == IF tl = NULL THEN a ELSE tl
             nx2 == [nx EXCEPT ![a] = hd]
             pv2 == Assign([pv EXCEPT ![a] = NULL], hd, a)
             al2 == al \cup {a}
  <1>1. /\ s \in [1 .. sz -> al]
        /\ \A b \in al : \E i \in 1 .. sz : s[i] = b
        /\ \A i, j \in 1 .. sz : s[i] = s[j] => i = j
        /\ sz = 0 => hd = NULL /\ tl = NULL
        /\ sz > 0 => hd = s[1] /\ tl = s[sz]
        /\ \A i \in 1 .. sz : nx[s[i]] = IF i = sz THEN NULL ELSE s[i + 1]
        /\ \A i \in 1 .. sz : pv[s[i]] = IF i = 1 THEN NULL ELSE s[i - 1]
    BY DEF List, Enumerates
  <1>2. \A i \in 1 .. sz : s[i] \in Addr /\ s[i] # NULL /\ s[i] # a /\ s[i] \in al
    BY <1>1
  <1>3. p[1] = a /\ \A i \in 2 .. n : i - 1 \in 1 .. sz /\ p[i] = s[i - 1]
    BY DEF Pushed
  <1>4. Enumerates(p, n, al2)
    <2>1. p \in [1 .. n -> al2]
      BY <1>2 DEF Pushed
    <2>2. ASSUME NEW b \in al2
          PROVE  \E i \in 1 .. n : p[i] = b
      <3>1. CASE b = a
        BY <1>3, <3>1
      <3>2. CASE b # a
        <4>1. PICK i \in 1 .. sz : s[i] = b
          BY <1>1, <3>2
        <4>2. i + 1 \in 2 .. n /\ i + 1 \in 1 .. n /\ (i + 1) - 1 = i
          OBVIOUS
        <4>3. p[i + 1] = s[i]
          BY <1>3, <4>2
        <4> QED BY <4>1, <4>2, <4>3
      <3> QED BY <3>1, <3>2
    <2>3. ASSUME NEW i \in 1 .. n, NEW j \in 1 .. n, p[i] = p[j]
          PROVE  i = j
      BY <1>1, <1>2, <1>3, <2>3
    <2> QED BY <2>1, <2>2, <2>3 DEF Enumerates
  <1>5. tl2 = p[n]
    <2>1. CASE sz = 0
      BY <1>1, <1>3, <2>1
    <2>2. CASE sz # 0
      <3>1. n \in 2 .. n /\ n - 1 = sz /\ sz \in 1 .. sz
        BY <2>2
      <3> QED BY <1>1, <1>2, <1>3, <3>1
    <2> QED BY <2>1, <2>2
  <1>6. ASSUME NEW i \in 1 .. n
        PROVE  nx2[p[i]] = IF i = n THEN NULL ELSE p[i + 1]
    <2>1. CASE i = 1
      <3>1. nx2[p[i]] = hd
        BY <1>3, <2>1
      <3>2. sz # 0 => 2 \in 2 .. n /\ p[i + 1] = s[1]
        BY <1>3, <2>1
      <3> QED BY <1>1, <2>1, <3>1, <3>2
    <2>2. CASE i # 1
      <3>1. i - 1 \in 1 .. sz /\ p[i] = s[i - 1] /\ (i # n => p[i + 1] = s[i])
        BY <1>3, <2>2
      <3>2. nx2[p[i]] = nx[s[i - 1]]
        BY <1>2, <3>1
      <3> QED BY <1>1, <2>2, <3>1, <3>2
    <2> QED BY <2>1, <2>2
  <1>7. ASSUME NEW i \in 1 .. n
        PROVE  pv2[p[i]] = IF i = 1 THEN NULL ELSE p[i - 1]
    <2>1. CASE i = 1
      <3>1. hd # a
        BY <1>1, <1>2
      <3> QED BY <1>3, <2>1, <3>1 DEF Assign
    <2>2. CASE i = 2
      <3>1. hd = s[1] /\ s[1] \in Addr /\ s[1] # NULL /\ p[i] = s[1] /\ p[i - 1] = a
        BY <1>1, <1>2, <1>3, <2>2
      <3> QED BY <2>2, <3>1 DEF Assign
    <2>3. CASE i > 2
      <3>1. i - 1 \in 1 .. sz /\ p[i] = s[i - 1] /\ p[i - 1] = s[i - 2] /\ i - 1 # 1
        BY <1>3, <2>3
      <3>2. hd = s[1] /\ s[1] # s[i - 1] /\ pv[s[i - 1]] = s[i - 2]
        BY <1>1, <2>3, <3>1
      <3>3. pv2[s[i - 1]] = pv[s[i - 1]]
        BY <1>2, <3>1, <3>2 DEF Assign
      <3> QED BY <2>3, <3>1, <3>2, <3>3
    <2> QED BY <2>1, <2>2, <2>3
  <1> HIDE DEF p, tl2, nx2, pv2, al2
  <1>8. n > 0
    OBVIOUS
  <1> HIDE DEF n
  <1>9. List(p, a, tl2, n, nx2, pv2, al2)
    BY <1>3, <1>4, <1>5, <1>6, <1>7, <1>8 DEF List
  <1> QED BY <1>9 DEF p, tl2, nx2, pv2, al2, n

----------------------------------------------------------------------------
(* The inductive invariant *)

ListInv ==
  /\ CacheTypeOK
  /\ size <= Capacity
  /\ \E s : List(s, head, tail, size, next, prev, alloc)

\* What the walk visits is the list.
LEMMA VisitedList ==
  ASSUME ListInv
  PROVE  List(Visited, head, tail, size, next, prev, alloc)
  <1>1. PICK s : List(s, head, tail, size, next, prev, alloc)
    BY DEF ListInv
  <1>2. size \in Nat
    BY DEF ListInv, CacheTypeOK
  <1>3. Visited = s
    BY <1>1, <1>2, WalkIsList, Zenon DEF Visited
  <1> QED BY <1>1, <1>3

\* strcmp stops at the first node with the name.
LEMMA FindFirst ==
  ASSUME ListInv, NEW n, Hit(n)
  PROVE  \E k \in 1 .. size : /\ Find(n) = Visited[k] /\ name[Visited[k]] = n
                              /\ Find(n) \in alloc
  <1> DEFINE k == CHOOSE i \in Hits(n) : \A j \in Hits(n) : i <= j
  <1>1. size \in Nat
    BY DEF ListInv, CacheTypeOK
  <1>2. Hits(n) \subseteq Nat /\ Hits(n) # {}
    BY <1>1 DEF Hit, Hits
  <1>3. \E i \in Hits(n) : \A j \in Hits(n) : i <= j
    BY <1>2, Least, Zenon
  <1>4. k \in Hits(n)
    BY <1>3
  <1>5. Find(n) = Visited[k]
    BY DEF Find
  <1> HIDE DEF k
  <1>6. k \in 1 .. size /\ name[Visited[k]] = n
    BY <1>4 DEF Hits
  <1>7. Visited \in [1 .. size -> alloc]
    BY VisitedList DEF List, Enumerates
  <1> QED BY <1>5, <1>6, <1>7

\* A hit moves the node it found to the head of the list.
LEMMA MoveStep ==
  ASSUME ListInv, NEW n, Hit(n), MoveToHead(Find(n)), size' = size, alloc' = alloc
  PROVE  \E k \in 1 .. size :
           /\ Find(n) = Visited[k] /\ name[Visited[k]] = n /\ Find(n) \in alloc
           /\ List(Moved(Visited, k), head', tail', size', next', prev', alloc')
  <1>1. PICK k \in 1 .. size : /\ Find(n) = Visited[k] /\ name[Visited[k]] = n
                               /\ Find(n) \in alloc
    BY FindFirst, Zenon
  <1>2. List(Visited, head, tail, size, next, prev, alloc)
    BY VisitedList
  <1>3. CacheTypeOK /\ NULL \notin Addr /\ MoveToHead(Visited[k])
    BY <1>1, AddrAssumption DEF ListInv
  <1>4. List(Moved(Visited, k), head', tail', size, next', prev', alloc)
    BY <1>2, <1>3, MoveToHeadList, Zenon
  <1> QED BY <1>1, <1>4

\* The links after a move are nodes or NULL.
LEMMA MoveTypes ==
  ASSUME ListInv, NEW a \in alloc, MoveToHead(a)
  PROVE  /\ head' \in Addr \cup {NULL} /\ tail' \in Addr \cup {NULL}
         /\ prev' \in [Addr -> Addr \cup {NULL}] /\ next' \in [Addr -> Addr \cup {NULL}]
  <1>1. /\ head \in Addr \cup {NULL} /\ tail \in Addr \cup {NULL} /\ alloc \subseteq Addr
        /\ prev \in [Addr -> Addr \cup {NULL}] /\ next \in [Addr -> Addr \cup {NULL}]
    BY DEF ListInv, CacheTypeOK
  <1>2. ASSUME NEW f \in [Addr -> Addr \cup {NULL}], NEW b \in Addr \cup {NULL},
               NEW v \in Addr \cup {NULL}
        PROVE  Assign(f, b, v) \in [Addr -> Addr \cup {NULL}]
    BY DEF Assign
  <1>3. CASE a = head
    BY <1>1, <1>3 DEF MoveToHead, links
  <1>4. CASE a # head
    <2> DEFINE next1 == Assign(next, prev[a], next[a])
               prev1 == Assign(prev, next[a], prev[a])
               tail1 == IF a = tail THEN prev[a] ELSE tail
    <2>1. /\ next' = [next1 EXCEPT ![a] = head]
          /\ prev' = Assign([prev1 EXCEPT ![a] = NULL], head, a)
          /\ head' = a
          /\ tail' = IF tail1 = NULL THEN a ELSE tail1
      BY <1>4 DEF MoveToHead
    <2>2. a \in Addr /\ prev[a] \in Addr \cup {NULL} /\ next[a] \in Addr \cup {NULL}
      BY <1>1
    <2>3. next1 \in [Addr -> Addr \cup {NULL}] /\ prev1 \in [Addr -> Addr \cup {NULL}]
      BY <1>1, <1>2, <2>2, Zenon
    <2>4. tail1 \in Addr \cup {NULL}
      BY <1>1, <2>2
    <2> HIDE DEF next1, prev1, tail1
    <2>5. [prev1 EXCEPT ![a] = NULL] \in [Addr -> Addr \cup {NULL}]
      BY <2>3, Zenon
    <2>6. prev' \in [Addr -> Addr \cup {NULL}]
      BY <1>1, <1>2, <2>1, <2>2, <2>5, Zenon
    <2> QED BY <1>1, <2>1, <2>2, <2>3, <2>4, <2>6, Zenon
  <1> QED BY <1>3, <1>4

\* A put of a new name links one node in front of those that stay.
LEMMA PushStep ==
  ASSUME ListInv, NEW n \in Names, NEW e \in Entries, PutMiss(n, e)
  PROVE  \E a \in Addr \ AllocAfterEvict :
           /\ List(Pushed(LeftAfterEvict(Visited), SizeAfterEvict, a),
                   head', tail', size', next', prev', alloc')
           /\ name' = [Scrub(name) EXCEPT ![a] = Stored[n]]
           /\ entry' = [Scrub(entry) EXCEPT ![a] = e]
           /\ CacheTypeOK' /\ size' = SizeAfterEvict + 1
  <1> DEFINE hd == HeadAfterEvict
             tl == TailAfterEvict
             nx == NextAfterEvict
             pv == Scrub(prev)
             al == AllocAfterEvict
             sz == SizeAfterEvict
             s == LeftAfterEvict(Visited)
  <1>1. PICK a \in Addr \ al :
       /\ name' = [Scrub(name) EXCEPT ![a] = Stored[n]]
       /\ entry' = [Scrub(entry) EXCEPT ![a] = e]
       /\ next' = [nx EXCEPT ![a] = hd]
       /\ prev' = Assign([pv EXCEPT ![a] = NULL], hd, a)
       /\ head' = a
       /\ tail' = (IF tl = NULL THEN a ELSE tl)
       /\ alloc' = al \cup {a}
    BY Zenon DEF PutMiss
  <1>2. size' = sz + 1 /\ ret' = NULL /\ context' = context
    BY DEF PutMiss
  <1>3. CacheTypeOK /\ NULL \notin Addr
    BY AddrAssumption DEF ListInv
  <1>4. /\ List(s, hd, tl, sz, nx, pv, al)
        /\ sz \in Nat /\ al \subseteq Addr
        /\ nx \in [Addr -> Addr \cup {NULL}] /\ pv \in [Addr -> Addr \cup {NULL}]
    BY <1>3, VisitedList, EvictList, Zenon
  <1>5. hd \in Addr \cup {NULL} /\ tl \in Addr \cup {NULL}
    BY <1>3 DEF CacheTypeOK, HeadAfterEvict, TailAfterEvict, Evicts
  <1>6. /\ Scrub(name) \in [Addr -> {Stored[m] : m \in Names} \cup {NULL}]
        /\ Scrub(entry) \in [Addr -> Entries \cup {NULL}]
    BY <1>3, Zenon DEF CacheTypeOK, Scrub
  <1> HIDE DEF hd, tl, nx, pv, al, sz, s
  <1>7. List(Pushed(s, sz, a), a, IF tl = NULL THEN a ELSE tl, sz + 1,
             [nx EXCEPT ![a] = hd], Assign([pv EXCEPT ![a] = NULL], hd, a), al \cup {a})
    BY <1>3, <1>4, PushList, Zenon
  <1>8. List(Pushed(s, sz, a), head', tail', size', next', prev', alloc')
    BY <1>1, <1>2, <1>7, Zenon
  <1>9. /\ name' \in [Addr -> {Stored[m] : m \in Names} \cup {NULL}]
        /\ entry' \in [Addr -> Entries \cup {NULL}]
    BY <1>1, <1>6
  <1>10. /\ next' \in [Addr -> Addr \cup {NULL}] /\ prev' \in [Addr -> Addr \cup {NULL}]
    BY <1>1, <1>4, <1>5 DEF Assign
  <1>11. CacheTypeOK'
    <2>1. head' \in Addr \cup {NULL} /\ tail' \in Addr \cup {NULL}
      BY <1>1, <1>5
    <2>2. size' \in Nat /\ alloc' \in SUBSET Addr
      BY <1>1, <1>2, <1>4
    <2>3. ret' \in Entries \cup {NULL} /\ context' \in {"caller", "cache"}
      BY <1>2, <1>3 DEF CacheTypeOK
    <2> QED BY <1>9, <1>10, <2>1, <2>2, <2>3 DEF CacheTypeOK
  <1> QED BY <1>1, <1>2, <1>8, <1>11, Zenon DEF hd, tl, nx, pv, al, sz, s

\* The empty cache.
LEMMA EmptyList ==
  ASSUME NEW nx, NEW pv
  PROVE  List([i \in 1 .. 0 |-> NULL], NULL, NULL, 0, nx, pv, {})
  <1>1. [i \in 1 .. 0 |-> NULL] \in [1 .. 0 -> {}]
    OBVIOUS
  <1> QED BY <1>1 DEF List, Enumerates

\* destroy_lru_cache frees every node.
LEMMA DestroyStep ==
  ASSUME ListInv, Destroy
  PROVE  ListInv' /\ size' = 0 /\ ret' = NULL
  <1>1. /\ alloc' = alloc \ {Visited[i] : i \in 1 .. size}
        /\ head' = NULL /\ tail' = NULL /\ size' = 0 /\ ret' = NULL /\ context' = context
        /\ name' = NoNode /\ entry' = NoNode /\ prev' = NoNode /\ next' = NoNode
    BY DEF Destroy
  <1>2. alloc' = {}
    BY <1>1, VisitedList DEF List, Enumerates
  <1>3. List([i \in 1 .. 0 |-> NULL], head', tail', size', next', prev', alloc')
    BY <1>1, <1>2, EmptyList, Zenon
  <1>4. CacheTypeOK'
    BY <1>1, <1>2 DEF ListInv, CacheTypeOK, NoNode
  <1>5. size' <= Capacity
    BY <1>1, CapacityAssumption
  <1> QED BY <1>1, <1>3, <1>4, <1>5, Zenon DEF ListInv

\* The invariant holds of the empty cache.
LEMMA ListStarts == CacheInit => ListInv
  <1> SUFFICES ASSUME CacheInit PROVE ListInv
    OBVIOUS
  <1>1. List([i \in 1 .. 0 |-> NULL], head, tail, size, next, prev, alloc)
    BY EmptyList, Zenon DEF CacheInit
  <1>2. CacheTypeOK
    BY DEF CacheInit, CacheTypeOK, NoNode
  <1>3. size <= Capacity
    BY CapacityAssumption DEF CacheInit
  <1> QED BY <1>1, <1>2, <1>3 DEF ListInv

\* Every call keeps the invariant.
LEMMA ListStep == ListInv /\ [CacheNext]_cacheVars => ListInv'
  <1> SUFFICES ASSUME ListInv, [CacheNext]_cacheVars PROVE ListInv'
    OBVIOUS
  <1>1. ASSUME NEW n \in Names, NEW e \in Entries, PutHit(n, e)
        PROVE  ListInv'
    <2>1. /\ Hit(n) /\ MoveToHead(Find(n)) /\ size' = size /\ alloc' = alloc /\ name' = name
          /\ entry' = [entry EXCEPT ![Find(n)] = e] /\ ret' = NULL /\ context' = "cache"
      BY <1>1 DEF PutHit
    <2>2. PICK k \in 1 .. size :
            /\ Find(n) \in alloc
            /\ List(Moved(Visited, k), head', tail', size', next', prev', alloc')
      BY <2>1, MoveStep, Zenon
    <2>3. CacheTypeOK'
      BY <2>1, <2>2, MoveTypes, Zenon DEF ListInv, CacheTypeOK
    <2> QED BY <2>1, <2>2, <2>3 DEF ListInv
  <1>2. ASSUME NEW n \in Names, GetHit(n)
        PROVE  ListInv'
    <2>1. /\ Hit(n) /\ MoveToHead(Find(n)) /\ size' = size /\ alloc' = alloc /\ name' = name
          /\ entry' = entry /\ ret' = entry[Find(n)] /\ context' = context
      BY <1>2 DEF GetHit
    <2>2. PICK k \in 1 .. size :
            /\ Find(n) \in alloc
            /\ List(Moved(Visited, k), head', tail', size', next', prev', alloc')
      BY <2>1, MoveStep, Zenon
    <2>3. CacheTypeOK'
      BY <2>1, <2>2, MoveTypes, Zenon DEF ListInv, CacheTypeOK
    <2> QED BY <2>1, <2>2, <2>3 DEF ListInv
  <1>3. ASSUME NEW n \in Names, NEW e \in Entries, PutMiss(n, e)
        PROVE  ListInv'
    <2>1. PICK a \in Addr \ AllocAfterEvict :
            /\ List(Pushed(LeftAfterEvict(Visited), SizeAfterEvict, a),
                    head', tail', size', next', prev', alloc')
            /\ CacheTypeOK' /\ size' = SizeAfterEvict + 1
      BY <1>3, PushStep, Zenon
    <2>2. SizeAfterEvict + 1 <= Capacity
      <3>1. size \in Nat /\ size <= Capacity
        BY DEF ListInv, CacheTypeOK
      <3>2. tail = NULL => size = 0
        <4>1. size > 0 => tail \in alloc
          BY VisitedList, <3>1 DEF List, Enumerates
        <4>2. alloc \subseteq Addr
          BY DEF ListInv, CacheTypeOK
        <4> QED BY <3>1, <4>1, <4>2, AddrAssumption
      <3> QED BY <3>1, <3>2, CapacityAssumption DEF SizeAfterEvict, Evicts
    <2> QED BY <2>1, <2>2 DEF ListInv
  <1>4. ASSUME NEW n \in Names, GetMiss(n)
        PROVE  ListInv'
    <2>1. /\ head' = head /\ tail' = tail /\ size' = size /\ next' = next /\ prev' = prev
          /\ alloc' = alloc /\ name' = name /\ entry' = entry /\ ret' = NULL
          /\ context' = context
      BY <1>4 DEF GetMiss, links
    <2> QED BY <2>1 DEF ListInv, CacheTypeOK
  <1>5. CASE Destroy
    BY <1>5, DestroyStep
  <1>6. CASE UNCHANGED cacheVars
    BY <1>6 DEF cacheVars, ListInv, CacheTypeOK
  <1> QED BY <1>1, <1>2, <1>3, <1>4, <1>5, <1>6 DEF CacheNext

\* The invariant holds always.
THEOREM ListHolds == CacheSpec => []ListInv
  <1> QED BY ListStarts, ListStep, PTL DEF CacheSpec

\* Through any sequence of puts, gets and evictions, with any capacity, the links
\* of the cache are one list of exactly the nodes that are palloc'ed.
THEOREM ListAlwaysWellFormed == CacheSpec => []ListWellFormed
  <1>1. ListInv => ListWellFormed
    <2> SUFFICES ASSUME ListInv PROVE ListWellFormed
      OBVIOUS
    <2> DEFINE s == Visited
    <2>1. CacheTypeOK /\ size \in Nat /\ alloc \subseteq Addr /\ NULL \notin alloc
      BY AddrAssumption DEF ListInv, CacheTypeOK
    <2>2. List(s, head, tail, size, next, prev, alloc)
      BY VisitedList
    <2> HIDE DEF s
    <2>3. /\ s \in [1 .. size -> alloc]
          /\ \A b \in alloc : \E i \in 1 .. size : s[i] = b
          /\ \A i, j \in 1 .. size : s[i] = s[j] => i = j
          /\ size = 0 => head = NULL /\ tail = NULL
          /\ size > 0 => head = s[1] /\ tail = s[size]
          /\ \A i \in 1 .. size : next[s[i]] = IF i = size THEN NULL ELSE s[i + 1]
          /\ \A i \in 1 .. size : prev[s[i]] = IF i = 1 THEN NULL ELSE s[i - 1]
      BY <2>2 DEF List, Enumerates
    <2>4. size = 0 <=> alloc = {}
      BY <2>1, <2>3
    <2>5. size > 0 => head \in alloc /\ tail \in alloc
      BY <2>1, <2>3
    <2>6. /\ (head = NULL) = (alloc = {}) /\ (tail = NULL) = (alloc = {})
          /\ {head, tail} \subseteq alloc \cup {NULL}
      BY <2>1, <2>3, <2>4, <2>5
    <2>7. ASSUME NEW a \in alloc
          PROVE  /\ prev[a] = NULL <=> a = head
                 /\ next[a] = NULL <=> a = tail
                 /\ prev[a] # NULL => prev[a] \in alloc /\ next[prev[a]] = a
                 /\ next[a] # NULL => next[a] \in alloc /\ prev[next[a]] = a
      <3>1. PICK i \in 1 .. size : s[i] = a
        BY <2>3
      <3>2. head = s[1] /\ tail = s[size] /\ 1 \in 1 .. size /\ size \in 1 .. size
        BY <2>1, <2>3
      <3>3. CASE i = 1
        BY <2>1, <2>3, <3>1, <3>2, <3>3
      <3>4. CASE i # 1
        <4>1. i - 1 \in 1 .. size /\ prev[a] = s[i - 1] /\ next[s[i - 1]] = a
          BY <2>1, <2>3, <3>1, <3>4
        <4>2. prev[a] \in alloc /\ prev[a] # NULL /\ a # head
          BY <2>1, <2>3, <3>1, <3>2, <3>4, <4>1
        <4>3. CASE i = size
          BY <2>3, <3>1, <3>2, <4>1, <4>2, <4>3
        <4>4. CASE i # size
          <5>1. i + 1 \in 1 .. size /\ next[a] = s[i + 1] /\ prev[s[i + 1]] = a
            BY <2>1, <2>3, <3>1, <4>4
          <5>2. next[a] \in alloc /\ next[a] # NULL /\ a # tail
            BY <2>1, <2>3, <3>1, <3>2, <4>4, <5>1
          <5> QED BY <4>1, <4>2, <5>1, <5>2
        <4> QED BY <4>3, <4>4
      <3> QED BY <3>3, <3>4
    <2>8. size = Cardinality(alloc)
      <3>1. s \in Bijection(1 .. size, alloc)
        BY <2>3 DEF Bijection, Injection, Surjection, IsInjective
      <3>2. ExistsBijection(1 .. size, alloc)
        BY <3>1 DEF ExistsBijection
      <3> QED BY <2>1, <3>2, FS_CountingElements
    <2>9. {s[i] : i \in 1 .. size} = alloc
      BY <2>3
    <2> QED BY <2>1, <2>6, <2>7, <2>8, <2>9, Zenon DEF ListWellFormed, s
  <1> QED BY <1>1, ListHolds, PTL

----------------------------------------------------------------------------
(* The list implements LruSpec *)

\* No name is longer than a node can store.
Uncut == \A n \in Names : Stored[n] = n

\* Each name is in the list once.
OneNodeEach ==
  /\ \A i \in 1 .. size : name[Visited[i]] \in Names
  /\ \A i, j \in 1 .. size : name[Visited[i]] = name[Visited[j]] => i = j

Cell(a) == [name |-> name[a], entry |-> entry[a]]

\* The sequence q with r in front, in the place of its k-th element.
Fronted(q, k, r) ==
  [i \in 1 .. Len(q) |-> IF i = 1 THEN r ELSE IF i <= k THEN q[i - 1] ELSE q[i]]

\* The k-th element of a sequence is taken out and r put in front.
LEMMA FrontMoved ==
  ASSUME NEW S, NEW q \in Seq(S), NEW k \in 1 .. Len(q), NEW r \in S
  PROVE  <<r>> \o (SubSeq(q, 1, k - 1) \o SubSeq(q, k + 1, Len(q))) = Fronted(q, k, r)
  <1> DEFINE u == SubSeq(q, 1, k - 1)
             v == SubSeq(q, k + 1, Len(q))
  <1>1. Len(q) \in Nat /\ k \in Nat
    OBVIOUS
  <1>2. u \in Seq(S) /\ Len(u) = k - 1 /\ \A i \in 1 .. (k - 1) : u[i] = q[i]
    BY <1>1
  <1>3. v \in Seq(S) /\ Len(v) = Len(q) - k /\ \A i \in 1 .. (Len(q) - k) : v[i] = q[k + i]
    BY <1>1
  <1> HIDE DEF u, v
  <1> DEFINE w == u \o v
  <1>5. /\ w \in Seq(S) /\ Len(w) = Len(q) - 1
        /\ \A i \in 1 .. (Len(q) - 1) : w[i] = IF i < k THEN q[i] ELSE q[i + 1]
    <2>1. w \in Seq(S) /\ Len(w) = Len(u) + Len(v)
      <3>1. u \in Seq(S) /\ v \in Seq(S)
        BY <1>2, <1>3
      <3> QED BY <3>1
    <2>2. ASSUME NEW i \in 1 .. (Len(q) - 1)
          PROVE  w[i] = IF i < k THEN q[i] ELSE q[i + 1]
      <3>1. CASE i < k
        BY <1>1, <1>2, <1>3, <3>1
      <3>2. CASE ~ (i < k)
        <4>1. /\ i - (k - 1) \in 1 .. (Len(q) - k) /\ k + (i - (k - 1)) = i + 1
              /\ i \in (Len(u) + 1) .. (Len(u) + Len(v)) /\ i - Len(u) = i - (k - 1)
          BY <1>1, <1>2, <1>3, <3>2
        <4>2. w[i] = v[i - Len(u)]
          <5>1. u \in Seq(S) /\ v \in Seq(S)
            BY <1>2, <1>3, Zenon
          <5>2. i \in (Len(u) + 1) .. (Len(u) + Len(v))
            BY <4>1, Zenon
          <5> HIDE DEF u, v
          <5> QED BY <5>1, <5>2
        <4>3. v[i - (k - 1)] = q[k + (i - (k - 1))]
          BY <1>3, <4>1
        <4> QED BY <3>2, <4>1, <4>2, <4>3
      <3> QED BY <3>1, <3>2, Zenon
    <2> QED BY <1>1, <1>2, <1>3, <2>1, <2>2
  <1> HIDE DEF w
  <1>6. /\ <<r>> \o w \in Seq(S) /\ Len(<<r>> \o w) = Len(q)
        /\ \A i \in 1 .. Len(q) : (<<r>> \o w)[i] = IF i = 1 THEN r ELSE w[i - 1]
    BY <1>1, <1>5
  <1>7. \A i \in 1 .. Len(q) : (<<r>> \o w)[i] = IF i = 1 THEN r ELSE IF i <= k THEN q[i - 1] ELSE q[i]
    BY <1>1, <1>5, <1>6
  <1>8. <<r>> \o w = [i \in 1 .. Len(q) |-> IF i = 1 THEN r ELSE IF i <= k THEN q[i - 1] ELSE q[i]]
    BY <1>6, <1>7
  <1> QED BY <1>8, Zenon DEF u, v, w, Fronted

\* The cache of the specification is a sequence of the cells of the nodes.
LEMMA OrderIs ==
  ASSUME ListInv
  PROVE  /\ size \in Nat
         /\ Order = [i \in 1 .. size |-> Cell(Visited[i])]
         /\ Order \in Seq({Order[i] : i \in 1 .. size}) /\ Len(Order) = size
         /\ DOMAIN Order = 1 .. size
  <1>1. size \in Nat
    BY DEF ListInv, CacheTypeOK
  <1>2. Order = [i \in 1 .. size |-> Cell(Visited[i])]
    BY DEF Order, Cell
  <1> QED BY <1>1, <1>2

\* The name is cached where strcmp finds it.
LEMMA CachedIsHit ==
  ASSUME ListInv, NEW n
  PROVE  Abstract!Cached(n) <=> Hit(n)
  BY OrderIs DEF Abstract!Cached, Hit, Hits, Cell

\* And nowhere else.
LEMMA PlaceIs ==
  ASSUME ListInv, OneNodeEach, NEW n, NEW k \in 1 .. size, name[Visited[k]] = n
  PROVE  Abstract!Place(n) = k /\ Abstract!EntryOf(n) = entry[Visited[k]]
  <1>1. DOMAIN Order = 1 .. size /\ \A i \in 1 .. size : Order[i] = Cell(Visited[i])
    BY OrderIs
  <1>2. Order[k].name = n /\ \A i \in 1 .. size : Order[i].name = n => i = k
    BY <1>1 DEF Cell, OneNodeEach
  <1>3. Abstract!Place(n) = k
    BY <1>1, <1>2 DEF Abstract!Place
  <1> QED BY <1>1, <1>3 DEF Abstract!EntryOf, Cell

\* A move of the k-th node takes its cell to the front.
LEMMA MovedOrder ==
  ASSUME ListInv, ListInv', OneNodeEach, NEW k \in 1 .. size, size' = size, name' = name,
         List(Moved(Visited, k), head', tail', size', next', prev', alloc'),
         NEW e, NEW n, name[Visited[k]] = n, entry' = [entry EXCEPT ![Visited[k]] = e]
  PROVE  /\ Order' = <<[name |-> n, entry |-> e]>> \o Abstract!Without(n)
         /\ OneNodeEach'
  <1> DEFINE s == Visited
             r == [name |-> n, entry |-> e]
             q == Order
             S == {q[i] : i \in 1 .. size} \cup {r}
  <1>1. /\ size \in Nat /\ q = [i \in 1 .. size |-> Cell(s[i])]
        /\ Len(q) = size /\ DOMAIN q = 1 .. size
    BY OrderIs
  <1>2. Visited' = Moved(s, k)
    BY <1>1, WalkIsList, Zenon DEF Visited
  <1>3. Order' = [i \in 1 .. size' |-> Cell(Visited[i])']
    BY Zenon DEF Order, Cell
  <1>4. s \in [1 .. size -> alloc] /\ \A i, j \in 1 .. size : s[i] = s[j] => i = j
    BY VisitedList DEF List, Enumerates
  <1>5. alloc \subseteq Addr /\ DOMAIN entry = Addr
    BY DEF ListInv, CacheTypeOK
  <1> HIDE DEF s
  <1>6. \A i \in 1 .. size : From(k, i) \in 1 .. size /\ Moved(s, k)[i] = s[From(k, i)]
    <2>1. size \in Nat
      BY <1>1, Zenon
    <2>2. DOMAIN s = 1 .. size
      BY <1>4, Zenon
    <2>3. MovedPlaces(s, size, k)
      BY <2>1, <2>2, MovedFrom, Zenon
    <2> QED BY <2>3, Zenon DEF MovedPlaces
  <1>7. \A i \in 1 .. size : Visited'[i] = s[From(k, i)]
    <2> SUFFICES ASSUME NEW i \in 1 .. size PROVE Visited'[i] = s[From(k, i)]
      BY Zenon
    <2>1. Moved(s, k)[i] = s[From(k, i)]
      BY <1>6, Zenon
    <2> QED BY <1>2, <2>1, Zenon
  <1>8. \A i, j \in 1 .. size : From(k, i) = From(k, j) => i = j
    BY <1>1, FromOnce, Zenon
  <1>9. ASSUME NEW i \in 1 .. size
        PROVE  Order'[i] = IF i = 1 THEN r ELSE q[From(k, i)]
    <2>1. Order'[i] = [name |-> name[s[From(k, i)]], entry |-> entry'[s[From(k, i)]]]
      BY <1>3, <1>7, Zenon DEF Cell
    <2>2. CASE i = 1
      <3>1. From(k, i) = k
        BY <2>2, Zenon DEF From
      <3>2. s[k] \in Addr
        BY <1>4, <1>5
      <3>3. entry' = [entry EXCEPT ![s[k]] = e] /\ name[s[k]] = n
        BY DEF s
      <3>4. entry'[s[k]] = e
        BY <1>5, <3>2, <3>3, Zenon
      <3> QED BY <2>1, <2>2, <3>1, <3>3, <3>4, Zenon
    <2>3. CASE i # 1
      <3>1. From(k, i) # k /\ From(k, i) \in 1 .. size
        BY <1>1, <1>6, <2>3 DEF From
      <3>2. s[From(k, i)] # s[k] /\ s[From(k, i)] \in Addr
        BY <1>4, <1>5, <3>1, Zenon
      <3>3. entry'[s[From(k, i)]] = entry[s[From(k, i)]]
        <4>1. entry' = [entry EXCEPT ![s[k]] = e]
          BY DEF s
        <4> QED BY <1>5, <3>2, <4>1, Zenon
      <3> QED BY <1>1, <2>1, <2>3, <3>1, <3>3, Zenon DEF Cell
    <2> QED BY <2>2, <2>3, Zenon
  <1>10. OneNodeEach'
    <2>1. /\ \A i \in 1 .. size : name[s[i]] \in Names
          /\ \A i, j \in 1 .. size : name[s[i]] = name[s[j]] => i = j
      BY Zenon DEF OneNodeEach, s
    <2>2. \A i \in 1 .. size : name'[Visited'[i]] = name[s[From(k, i)]]
      BY <1>7, Zenon
    <2>3. ASSUME NEW i \in 1 .. size PROVE name'[Visited'[i]] \in Names
      <3>1. From(k, i) \in 1 .. size /\ name'[Visited'[i]] = name[s[From(k, i)]]
        BY <1>6, <2>2, Zenon
      <3>2. name[s[From(k, i)]] \in Names
        BY <2>1, <3>1, Zenon
      <3> QED BY <3>1, <3>2, Zenon
    <2>4. ASSUME NEW i \in 1 .. size, NEW j \in 1 .. size, name'[Visited'[i]] = name'[Visited'[j]]
          PROVE  i = j
      <3>1. /\ From(k, i) \in 1 .. size /\ name'[Visited'[i]] = name[s[From(k, i)]]
            /\ From(k, j) \in 1 .. size /\ name'[Visited'[j]] = name[s[From(k, j)]]
        BY <1>6, <2>2, Zenon
      <3>2. name[s[From(k, i)]] = name[s[From(k, j)]]
        BY <2>4, <3>1, Zenon
      <3>3. From(k, i) = From(k, j)
        BY <2>1, <3>1, <3>2, Zenon
      <3> QED BY <1>8, <3>3, Zenon
    <2> QED BY <2>3, <2>4, Zenon DEF OneNodeEach
  <1>11. q \in Seq(S) /\ r \in S
    BY <1>1
  <1>12. <<r>> \o (SubSeq(q, 1, k - 1) \o SubSeq(q, k + 1, Len(q)))
           = [i \in 1 .. size |-> IF i = 1 THEN r ELSE IF i <= k THEN q[i - 1] ELSE q[i]]
    <2> HIDE DEF q, r, S
    <2>1. k \in 1 .. Len(q)
      BY <1>1
    <2>2. <<r>> \o (SubSeq(q, 1, k - 1) \o SubSeq(q, k + 1, Len(q))) = Fronted(q, k, r)
      BY <1>11, <2>1, FrontMoved, Zenon
    <2> QED BY <1>1, <2>2, Zenon DEF Fronted
  <1>13. Abstract!Without(n) = SubSeq(q, 1, k - 1) \o SubSeq(q, k + 1, Len(q))
    BY PlaceIs, Zenon DEF Abstract!Without
  <1>14. Order' = [i \in 1 .. size |-> IF i = 1 THEN r ELSE IF i <= k THEN q[i - 1] ELSE q[i]]
    <2>1. Order' = [i \in 1 .. size |-> Order'[i]]
      BY <1>3, Zenon
    <2> HIDE DEF q, r
    <2> QED BY <1>9, <2>1 DEF From
  <1> QED BY <1>10, <1>12, <1>13, <1>14, Zenon

\* A new node adds its cell in front of those that stay.
LEMMA PushedOrder ==
  ASSUME ListInv, ListInv', OneNodeEach, Uncut, NEW n \in Names, NEW e \in Entries, PutMiss(n, e)
  PROVE  /\ Order' = <<[name |-> n, entry |-> e]>> \o
                        (IF Len(Order) < Capacity THEN Order ELSE Abstract!AllButOldest)
         /\ OneNodeEach'
  <1> DEFINE s == Visited
             sz == SizeAfterEvict
             r == [name |-> n, entry |-> e]
             q == Order
             rest == IF Len(q) < Capacity THEN q ELSE Abstract!AllButOldest
             S == {q[i] : i \in 1 .. size} \cup {r}
  <1>1. PICK a \in Addr \ AllocAfterEvict :
           /\ List(Pushed(LeftAfterEvict(s), sz, a), head', tail', size', next', prev', alloc')
           /\ name' = [Scrub(name) EXCEPT ![a] = Stored[n]]
           /\ entry' = [Scrub(entry) EXCEPT ![a] = e]
           /\ size' = sz + 1
    BY PushStep, Zenon
  <1>2. /\ size \in Nat /\ q = [i \in 1 .. size |-> Cell(s[i])]
        /\ Len(q) = size /\ DOMAIN q = 1 .. size
    BY OrderIs
  <1>3. /\ s \in [1 .. size -> alloc] /\ \A i, j \in 1 .. size : s[i] = s[j] => i = j
        /\ size > 0 => tail = s[size]
    BY VisitedList DEF List, Enumerates
  <1>4. alloc \subseteq Addr /\ size <= Capacity /\ NULL \notin Addr
        /\ DOMAIN name = Addr /\ DOMAIN entry = Addr
    BY AddrAssumption, Zenon DEF ListInv, CacheTypeOK
  <1>5. Evicts <=> ~ (size < Capacity)
    <2>1. size > 0 => tail # NULL
      BY <1>2, <1>3, <1>4
    <2>2. size \in Nat /\ size <= Capacity
      BY <1>2, <1>4, Zenon
    <2> HIDE DEF q, r, rest, S, s, sz
    <2> QED BY <2>1, <2>2, CapacityAssumption DEF Evicts
  <1>6. sz = (IF size < Capacity THEN size ELSE size - 1) /\ sz \in Nat
    BY <1>2, <1>5, CapacityAssumption DEF SizeAfterEvict
  <1>7. Visited' = Pushed(LeftAfterEvict(s), sz, a)
    <2>1. size' \in Nat
      BY <1>1, <1>6
    <2> QED BY <1>1, <2>1, WalkIsList, Zenon DEF Visited
  <1>8. \A i \in 1 .. sz : LeftAfterEvict(s)[i] = s[i] /\ i \in 1 .. size
    BY <1>2, <1>6 DEF LeftAfterEvict
  <1>9. Visited'[1] = a /\ \A i \in 2 .. (sz + 1) : Visited'[i] = s[i - 1] /\ i - 1 \in 1 .. sz
    BY <1>6, <1>7, <1>8 DEF Pushed
  <1>10. ASSUME NEW i \in 1 .. sz
         PROVE  name'[s[i]] = name[s[i]] /\ entry'[s[i]] = entry[s[i]]
    <2>1. s[i] \in Addr /\ s[i] \in alloc
      BY <1>3, <1>4, <1>8, Zenon
    <2>2. Evicts => s[i] # tail
      <3>1. Evicts => size > 0 /\ size \in 1 .. size /\ i # size
        BY <1>2, <1>5, <1>6, CapacityAssumption
      <3>2. i \in 1 .. size
        BY <1>8, Zenon
      <3> QED BY <1>3, <3>1, <3>2, Zenon
    <2>3. s[i] # a
      BY <1>1, <2>1, <2>2, Zenon DEF AllocAfterEvict
    <2> HIDE DEF s
    <2> QED BY <1>1, <1>4, <2>1, <2>2, <2>3, Zenon DEF Scrub
  <1>11. name'[a] = n /\ entry'[a] = e
    <2>1. DOMAIN Scrub(name) = Addr /\ DOMAIN Scrub(entry) = Addr
      BY <1>4, Zenon DEF Scrub
    <2> QED BY <1>1, <2>1, Zenon DEF Uncut
  <1>12. Order' = [i \in 1 .. (sz + 1) |-> Cell(Visited[i])']
    BY <1>1 DEF Order, Cell
  <1> HIDE DEF s
  <1>13. ASSUME NEW i \in 1 .. (sz + 1)
         PROVE  Order'[i] = IF i = 1 THEN r ELSE q[i - 1]
    <2>1. Order'[i] = [name |-> name'[Visited'[i]], entry |-> entry'[Visited'[i]]]
      BY <1>12, Zenon DEF Cell
    <2>2. CASE i = 1
      BY <1>9, <1>11, <2>1, <2>2, Zenon
    <2>3. CASE i # 1
      <3>1. Visited'[i] = s[i - 1] /\ i - 1 \in 1 .. sz /\ i - 1 \in 1 .. size
        BY <1>6, <1>8, <1>9, <2>3
      <3>2. q[i - 1] = [name |-> name[s[i - 1]], entry |-> entry[s[i - 1]]]
        BY <1>2, <3>1 DEF Cell
      <3>3. name'[s[i - 1]] = name[s[i - 1]] /\ entry'[s[i - 1]] = entry[s[i - 1]]
        BY <1>10, <3>1, Zenon
      <3> QED BY <2>1, <2>3, <3>1, <3>2, <3>3, Zenon
    <2> QED BY <2>2, <2>3, Zenon
  <1>14. \A i \in 1 .. sz : name[s[i]] # n
    <2>1. ~ Hit(n)
      BY DEF PutMiss
    <2> QED BY <1>8, <2>1, Zenon DEF Hit, Hits, s
  <1>15. OneNodeEach'
    <2>1. /\ \A i \in 1 .. sz : name[s[i]] \in Names
          /\ \A i, j \in 1 .. sz : name[s[i]] = name[s[j]] => i = j
      BY <1>8, Zenon DEF OneNodeEach, s
    <2>2. /\ name'[Visited'[1]] = n
          /\ \A i \in 2 .. (sz + 1) : name'[Visited'[i]] = name[s[i - 1]] /\ i - 1 \in 1 .. sz
      <3>1. ASSUME NEW i \in 2 .. (sz + 1)
            PROVE  name'[Visited'[i]] = name[s[i - 1]] /\ i - 1 \in 1 .. sz
        <4>1. Visited'[i] = s[i - 1] /\ i - 1 \in 1 .. sz
          BY <1>9, Zenon
        <4>2. name'[s[i - 1]] = name[s[i - 1]]
          BY <1>10, <4>1, Zenon
        <4> QED BY <4>1, <4>2, Zenon
      <3> QED BY <1>9, <1>11, <3>1, Zenon
    <2>5. \A i \in 1 .. (sz + 1) : i # 1 => i \in 2 .. (sz + 1)
      BY <1>6
    <2> DEFINE named(i) == name'[Visited'[i]]
    <2>6. /\ named(1) = n
          /\ \A i \in 2 .. (sz + 1) : named(i) = name[s[i - 1]] /\ i - 1 \in 1 .. sz
      BY <2>2, Zenon
    <2> HIDE DEF named
    <2>3. ASSUME NEW i \in 1 .. (sz + 1) PROVE named(i) \in Names
      <3>1. CASE i = 1
        BY <2>6, <3>1, Zenon
      <3>2. CASE i # 1
        <4>1. named(i) = name[s[i - 1]] /\ i - 1 \in 1 .. sz
          BY <2>5, <2>6, <3>2, Zenon
        <4> QED BY <2>1, <4>1, Zenon
      <3> QED BY <3>1, <3>2, Zenon
    <2>4. ASSUME NEW i \in 1 .. (sz + 1), NEW j \in 1 .. (sz + 1), named(i) = named(j)
          PROVE  i = j
      <3>1. CASE i # 1 /\ j # 1
        <4>1. /\ named(i) = name[s[i - 1]] /\ i - 1 \in 1 .. sz
              /\ named(j) = name[s[j - 1]] /\ j - 1 \in 1 .. sz
          BY <2>5, <2>6, <3>1, Zenon
        <4>2. name[s[i - 1]] = name[s[j - 1]]
          BY <2>4, <4>1, Zenon
        <4>3. i - 1 = j - 1
          BY <2>1, <4>1, <4>2, Zenon
        <4> QED BY <1>6, <4>3
      <3>2. CASE i = 1 /\ j # 1
        BY <1>14, <2>4, <2>5, <2>6, <3>2, Zenon
      <3>3. CASE i # 1 /\ j = 1
        BY <1>14, <2>4, <2>5, <2>6, <3>3, Zenon
      <3> QED BY <3>1, <3>2, <3>3, Zenon
    <2> QED BY <1>1, <2>3, <2>4, Zenon DEF OneNodeEach, named
  <1>16. q \in Seq(S) /\ r \in S
    BY <1>2
  <1>17. rest \in Seq(S) /\ Len(rest) = sz /\ \A i \in 1 .. sz : rest[i] = q[i]
    <2> HIDE DEF q, S, r
    <2>1. CASE size < Capacity
      BY <1>2, <1>6, <1>16, <2>1
    <2>2. CASE ~ (size < Capacity)
      <3>1. rest = SubSeq(q, 1, size - 1) /\ sz = size - 1
        BY <1>2, <1>6, <2>2 DEF Abstract!AllButOldest, q
      <3> HIDE DEF rest
      <3> QED BY <1>2, <1>6, <1>16, <3>1
    <2> QED BY <2>1, <2>2
  <1>18. <<r>> \o rest = [i \in 1 .. (sz + 1) |-> IF i = 1 THEN r ELSE q[i - 1]]
    <2> HIDE DEF q, S, r, rest, sz
    <2>1. /\ <<r>> \o rest \in Seq(S) /\ Len(<<r>> \o rest) = sz + 1
          /\ \A i \in 1 .. (sz + 1) : (<<r>> \o rest)[i] = IF i = 1 THEN r ELSE rest[i - 1]
      BY <1>6, <1>16, <1>17
    <2>2. \A i \in 1 .. (sz + 1) : (<<r>> \o rest)[i] = IF i = 1 THEN r ELSE q[i - 1]
      BY <1>6, <1>17, <2>1
    <2> QED BY <2>1, <2>2
  <1>19. Order' = [i \in 1 .. (sz + 1) |-> IF i = 1 THEN r ELSE q[i - 1]]
    <2>1. Order' = [i \in 1 .. (sz + 1) |-> Order'[i]]
      BY <1>12
    <2> HIDE DEF q, r, sz
    <2> QED BY <1>13, <2>1
  <1> QED BY <1>15, <1>18, <1>19, Zenon

\* Every call is a step of the specification, and keeps the names apart.
LEMMA StepRefines ==
  ASSUME Uncut, ListInv, ListInv', OneNodeEach, [CacheNext]_cacheVars
  PROVE  [Abstract!Next]_<<Order, ret>> /\ OneNodeEach'
  <1>1. ASSUME NEW n \in Names, NEW e \in Entries, PutHit(n, e)
        PROVE  Abstract!Put(n, e) /\ OneNodeEach'
    <2>1. /\ Hit(n) /\ MoveToHead(Find(n)) /\ size' = size /\ alloc' = alloc /\ name' = name
          /\ entry' = [entry EXCEPT ![Find(n)] = e] /\ ret' = NULL
      BY <1>1 DEF PutHit
    <2>2. PICK k \in 1 .. size :
            /\ Find(n) = Visited[k] /\ name[Visited[k]] = n
            /\ List(Moved(Visited, k), head', tail', size', next', prev', alloc')
      BY <2>1, MoveStep, Zenon
    <2>3. /\ Order' = <<[name |-> n, entry |-> e]>> \o Abstract!Without(n)
          /\ OneNodeEach'
      BY <2>1, <2>2, MovedOrder, Zenon
    <2>4. Abstract!Cached(n)
      BY <2>1, CachedIsHit, Zenon
    <2> QED BY <2>1, <2>3, <2>4 DEF Abstract!Put
  <1>2. ASSUME NEW n \in Names, GetHit(n)
        PROVE  Abstract!Get(n) /\ OneNodeEach'
    <2>1. /\ Hit(n) /\ MoveToHead(Find(n)) /\ size' = size /\ alloc' = alloc /\ name' = name
          /\ entry' = entry /\ ret' = entry[Find(n)]
      BY <1>2 DEF GetHit
    <2>2. PICK k \in 1 .. size :
            /\ Find(n) = Visited[k] /\ name[Visited[k]] = n
            /\ List(Moved(Visited, k), head', tail', size', next', prev', alloc')
      BY <2>1, MoveStep, Zenon
    <2> DEFINE e == entry[Visited[k]]
    <2>3. entry' = [entry EXCEPT ![Visited[k]] = e]
      BY <2>1, Zenon DEF ListInv, CacheTypeOK
    <2>4. /\ Order' = <<[name |-> n, entry |-> e]>> \o Abstract!Without(n)
          /\ OneNodeEach'
      <3> HIDE DEF e
      <3> QED BY <2>1, <2>2, <2>3, MovedOrder, Zenon
    <2>5. Abstract!Cached(n) /\ Abstract!EntryOf(n) = e
      BY <2>1, <2>2, CachedIsHit, PlaceIs, Zenon
    <2> QED BY <2>1, <2>2, <2>4, <2>5, Zenon DEF Abstract!Get
  <1>3. ASSUME NEW n \in Names, NEW e \in Entries, PutMiss(n, e)
        PROVE  Abstract!Put(n, e) /\ OneNodeEach'
    <2>1. ~ Hit(n) /\ ret' = NULL
      BY <1>3, Zenon DEF PutMiss
    <2>2. /\ Order' = <<[name |-> n, entry |-> e]>> \o
                         (IF Len(Order) < Capacity THEN Order ELSE Abstract!AllButOldest)
          /\ OneNodeEach'
      BY <1>3, PushedOrder, Zenon
    <2>3. ~ Abstract!Cached(n)
      BY <2>1, CachedIsHit, Zenon
    <2> QED BY <2>1, <2>2, <2>3 DEF Abstract!Put
  <1>4. ASSUME NEW n \in Names, GetMiss(n)
        PROVE  Abstract!Get(n) /\ OneNodeEach'
    <2>1. /\ ~ Hit(n) /\ head' = head /\ size' = size /\ next' = next /\ name' = name
          /\ entry' = entry /\ ret' = NULL
      BY <1>4 DEF GetMiss, links
    <2>2. Visited' = Visited
      BY <2>1 DEF Visited
    <2>3. ~ Abstract!Cached(n)
      BY <2>1, CachedIsHit, Zenon
    <2>4. Order' = Order
      BY <2>1, <2>2 DEF Order
    <2> QED BY <2>1, <2>2, <2>3, <2>4, Zenon DEF Abstract!Get, OneNodeEach
  <1>5. CASE Destroy
    <2>1. size' = 0 /\ ret' = NULL
      BY <1>5, DestroyStep, Zenon
    <2>2. Order' = <<>>
      BY <2>1 DEF Order
    <2>3. OneNodeEach'
      <3>1. 1 .. 0 = {}
        OBVIOUS
      <3> QED BY <2>1, <3>1, Zenon DEF OneNodeEach
    <2> QED BY <2>1, <2>2, <2>3 DEF Abstract!Next, Abstract!Destroy
  <1>6. CASE UNCHANGED cacheVars
    <2>1. /\ head' = head /\ size' = size /\ next' = next /\ name' = name
          /\ entry' = entry /\ ret' = ret
      BY <1>6 DEF cacheVars
    <2>2. Visited' = Visited
      BY <2>1 DEF Visited
    <2>3. Order' = Order
      BY <2>1, <2>2 DEF Order
    <2> QED BY <2>1, <2>2, <2>3 DEF OneNodeEach
  <1> QED BY <1>1, <1>2, <1>3, <1>4, <1>5, <1>6 DEF CacheNext, Abstract!Next

\* The linked list of model_buffer.c is a least-recently-used cache, for any
\* capacity and any names that a node can store.
THEOREM ListImplementsLru == Uncut => (CacheSpec => ImplementsLru)
  <1> SUFFICES ASSUME Uncut PROVE CacheSpec => ImplementsLru
    OBVIOUS
  <1>1. CacheInit => Abstract!Init /\ OneNodeEach
    BY DEF CacheInit, Order, OneNodeEach, Abstract!Init
  <1>2. ListInv /\ ListInv' /\ OneNodeEach /\ [CacheNext]_cacheVars
          => [Abstract!Next]_<<Order, ret>> /\ OneNodeEach'
    BY StepRefines
  <1> QED BY <1>1, <1>2, ListHolds, PTL DEF CacheSpec, ImplementsLru, Abstract!Spec

-----------------------------------------------------------------------------
(* ParallelQuery: for any workers, models and rows. *)

\* What FailuresAreWorkers rests on: the leader keeps what it has loaded, and a
\* failed query has ended, the leader's pool being still as the leader saw it.
Kept ==
  /\ query = NONE => team = {}
  /\ loaded \in [Models -> SUBSET Processes]
  /\ \A m \in Models : Leader \in loaded[m] => m \in pools[Leader]
  /\ outcome.status = "error" =>
       /\ query = NONE
       /\ outcome.model \in Models
       /\ outcome.by \in Processes
       /\ outcome.by = Leader => outcome.model \notin pools[Leader]

QueryInv == QueryTypeOK /\ Kept

\* The start of a session: no pool has a model and no query has run.
LEMMA QueryStarts == QueryInit => QueryInv
  BY ProcessAssumption DEF QueryInit, QueryInv, QueryTypeOK, Kept, NoOutcome, Processes

\* A query or an end of the session that is neither a load nor a failure.
LEMMA StartStep == QueryInv /\ Start => QueryInv'
  <1> SUFFICES ASSUME QueryInv, Start PROVE QueryInv'
    OBVIOUS
  <1> USE ProcessAssumption DEF QueryInv, Start, Processes, Queries
  <1>1. PICK kind \in {"load", "infer"}, m \in Models, W \in SUBSET Workers :
          query' = [kind |-> kind, model |-> m] /\ team' = W
    OBVIOUS
  <1>2. \A w \in Workers \ team' : pools'[w] = {}
    <2> SUFFICES ASSUME NEW w \in Workers \ team' PROVE pools[w] = {}
      OBVIOUS
    <2> QED
      BY DEF QueryTypeOK, Kept
  <1>3. QueryTypeOK'
    BY <1>1, <1>2 DEF QueryTypeOK
  <1>4. outcome'.status # "error"
    BY DEF NoOutcome
  <1>5. query' # NONE
    BY <1>1
  <1>6. Kept'
    BY <1>4, <1>5 DEF Kept
  <1> QED
    BY <1>3, <1>6

\* load_model adds to one pool and to what that process has loaded.
LEMMA LoadStep == ASSUME QueryInv, NEW p \in team \cup {Leader}, load_model(p) PROVE QueryInv'
  <1> USE ProcessAssumption DEF QueryInv, load_model, Queries
  <1>1. p \in Processes /\ query.model \in Models
    BY DEF QueryTypeOK, Processes
  <1>2. pools' \in [Processes -> SUBSET Models] /\ loaded' \in [Models -> SUBSET Processes]
    BY <1>1 DEF QueryTypeOK, Kept
  <1>3. \A w \in Workers \ team' : pools'[w] = {}
    BY <1>1 DEF QueryTypeOK, Processes
  <1>4. QueryTypeOK'
    BY <1>2, <1>3 DEF QueryTypeOK
  <1>5. \A m \in Models : Leader \in loaded'[m] => m \in pools'[Leader]
    BY <1>1 DEF QueryTypeOK, Kept, Processes
  <1>6. outcome'.status # "error"
    BY DEF Kept
  <1> QED
    BY <1>2, <1>4, <1>5, <1>6 DEF Kept

\* The end of a query takes the workers' pools and leaves the leader's.
LEMMA EndStep == ASSUME QueryInv, EndQuery, UNCHANGED loaded
                 PROVE QueryTypeOK' /\ pools'[Leader] = pools[Leader] /\ team' = {}
                       /\ loaded' \in [Models -> SUBSET Processes]
                       /\ \A m \in Models : Leader \in loaded'[m] => m \in pools'[Leader]
  BY ProcessAssumption DEF QueryInv, EndQuery, QueryTypeOK, Kept, Processes

\* A failure is recorded with the process that raised it.
LEMMA NotFoundStep == ASSUME QueryInv, NEW p \in team \cup {Leader}, NotFound(p) PROVE QueryInv'
  <1> USE ProcessAssumption DEF QueryInv, NotFound, Queries
  <1>1. p \in Processes /\ query.model \in Models /\ query' = NONE
    BY DEF QueryTypeOK, Processes, EndQuery
  <1>2. outcome'.by = p /\ outcome'.model = query.model
    OBVIOUS
  <1>3. QueryTypeOK' /\ pools'[Leader] = pools[Leader] /\ team' = {}
        /\ loaded' \in [Models -> SUBSET Processes]
        /\ \A m \in Models : Leader \in loaded'[m] => m \in pools'[Leader]
    BY EndStep
  <1> QED
    BY <1>1, <1>2, <1>3 DEF Kept

\* The session keeps the invariant: one step per action.
LEMMA QueryStep == QueryInv /\ [QueryNext]_queryVars => QueryInv'
  <1> SUFFICES ASSUME QueryInv, [QueryNext]_queryVars PROVE QueryInv'
    OBVIOUS
  <1> USE ProcessAssumption
  <1>1. CASE Start
    BY <1>1, StartStep
  <1>2. CASE Finish
    <2>1. QueryTypeOK' /\ team' = {} /\ loaded' \in [Models -> SUBSET Processes]
          /\ \A m \in Models : Leader \in loaded'[m] => m \in pools'[Leader]
      BY <1>2, EndStep DEF Finish
    <2>2. outcome'.status # "error"
      BY <1>2 DEF Finish, NoOutcome
    <2> QED
      BY <2>1, <2>2 DEF QueryInv, Kept
  <1>3. CASE NewBackend
    <2>1. outcome'.status # "error"
      BY <1>3 DEF NewBackend, NoOutcome
    <2>2. QueryTypeOK'
      BY <1>3 DEF NewBackend, QueryInv, QueryTypeOK, Processes
    <2> QED
      BY <1>3, <2>1, <2>2 DEF NewBackend, QueryInv, Kept
  <1>4. ASSUME NEW p \in team \cup {Leader}, load_model(p) PROVE QueryInv'
    BY <1>4, LoadStep
  <1>5. ASSUME NEW p \in team \cup {Leader}, Infer(p) PROVE QueryInv'
    BY <1>5 DEF Infer, QueryInv, QueryTypeOK, Kept
  <1>6. ASSUME NEW p \in team \cup {Leader}, NotFound(p) PROVE QueryInv'
    BY <1>6, NotFoundStep
  <1>7. CASE UNCHANGED queryVars
    BY <1>7 DEF queryVars, QueryInv, QueryTypeOK, Kept
  <1> QED
    BY <1>1, <1>2, <1>3, <1>4, <1>5, <1>6, <1>7 DEF QueryNext

\* The invariant holds of every session.
THEOREM QueryHolds == QuerySpec => []QueryInv
  BY QueryStarts, QueryStep, PTL DEF QuerySpec

\* The pools of workers go with the query that launched them, for any number of
\* workers and models.
THEOREM PoolsGoWithWorkers == QuerySpec => []QueryTypeOK
  BY QueryHolds, PTL DEF QueryInv

\* A get_weight that fails on a model the leader has loaded is a worker's: the
\* leader always finds what it has loaded in this session.
THEOREM OnlyWorkersFail == QuerySpec => []FailuresAreWorkers
  <1>1. QueryInv => FailuresAreWorkers
    BY DEF QueryInv, Kept, FailuresAreWorkers, Processes
  <1> QED
    BY <1>1, QueryHolds, PTL
=============================================================================
