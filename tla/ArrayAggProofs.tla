--------------------------- MODULE ArrayAggProofs ---------------------------
(***************************************************************************)
(* For every set of rows, every set of processes and every order in which  *)
(* rows are fetched and partial states are merged, array_2d_agg returns    *)
(* each row's array exactly once and the rows of a process in the order of *)
(* its scan; no copy into a data area or into a process's null bitmap runs *)
(* over its end; and every process's null bitmap is exact.                 *)
(***************************************************************************)
EXTENDS ArrayAggOrder, WellFoundedInduction, TLAPS

Elems(q) == {q[i] : i \in DOMAIN q}
Held(s) == IF s = NULL THEN {} ELSE Elems(s.data)
NoRepeat(q) == \A i, j \in DOMAIN q : q[i] = q[j] => i = j

\* A state that is extended later knows the size of its data area.
StateOK(s) ==
  s # NULL => /\ s \in States
              /\ Len(s.dims) \in {2, 3}
              /\ s.nitems > 0
              /\ s.nbytes <= s.abytes
              /\ s.abytes = s.cap
              /\ NoRepeat(s.data)

\* Every state there is can be extended, and so can each process's bitmap.
StatesOK(st, g) ==
  /\ StateOK(g)
  /\ \A w \in Workers : StateOK(st[w]) /\ BitmapInBounds(st[w])

\* Every row is in exactly one place: not fetched yet (u), in one process's
\* state (st), or in the leader's (g).
Partition(u, st, g) ==
  /\ \A r \in Rows : r \in u \/ r \in Held(g) \/ \E w \in Workers : r \in Held(st[w])
  /\ u \cap Held(g) = {}
  /\ \A w \in Workers : Held(st[w]) \cap (u \cup Held(g)) = {}
  /\ \A v, w \in Workers : v # w => Held(st[v]) \cap Held(st[w]) = {}

\* A process stops scanning only when no row is left, and its state is gone
\* once it was merged.
Stopped(u, p, st) ==
  \A w \in Workers : /\ p[w] # "scan" => u = {}
                     /\ p[w] = "sent" => st[w] # NULL
                     /\ p[w] = "done" => st[w] = NULL

\* The inductive invariant.
Inv ==
  /\ TypeOK
  /\ StatesOK(state, agg)
  /\ Partition(unclaimed, state, agg)
  /\ Stopped(unclaimed, pc, state)
  /\ EveryRowOnce

-----------------------------------------------------------------------------
(* Sequences *)

\* Two sequences with the same elements at the same places are the same.
LEMMA SameElements ==
  ASSUME NEW S, NEW p \in Seq(S), NEW q \in Seq(S), Len(p) = Len(q),
         \A i \in 1 .. Len(p) : p[i] = q[i]
  PROVE  p = q
OBVIOUS

\* What \o gives.
LEMMA ConcatIs ==
  ASSUME NEW S, NEW p \in Seq(S), NEW q \in Seq(S)
  PROVE  /\ p \o q \in Seq(S)
         /\ Len(p \o q) = Len(p) + Len(q)
         /\ \A i \in 1 .. (Len(p) + Len(q)) :
              (p \o q)[i] = IF i <= Len(p) THEN p[i] ELSE q[i - Len(p)]
OBVIOUS

\* The empty sequence adds nothing.
LEMMA ConcatNothing ==
  ASSUME NEW S, NEW p \in Seq(S)
  PROVE  p \o <<>> = p /\ <<>> \o p = p
OBVIOUS

\* Append is \o with one element.
LEMMA AppendOne ==
  ASSUME NEW S, NEW p \in Seq(S), NEW r \in S
  PROVE  Append(p, r) = p \o <<r>>
OBVIOUS

\* What Tail gives.
LEMMA TailIs ==
  ASSUME NEW S, NEW p \in Seq(S), p # <<>>
  PROVE  /\ Tail(p) \in Seq(S) /\ Len(Tail(p)) = Len(p) - 1
         /\ \A i \in 1 .. Len(Tail(p)) : Tail(p)[i] = p[i + 1]
OBVIOUS

\* What the first one or two elements of a pair are.
LEMMA SubSeqPair ==
  ASSUME NEW a, NEW b
  PROVE  /\ Len(SubSeq(<<a, b>>, 1, 1)) = 1 /\ SubSeq(<<a, b>>, 1, 1)[1] = a
         /\ Len(SubSeq(<<a, b>>, 1, 2)) = 2 /\ SubSeq(<<a, b>>, 1, 2)[1] = a
         /\ SubSeq(<<a, b>>, 1, 2)[2] = b
OBVIOUS

-----------------------------------------------------------------------------
(* The inductive invariant *)

\* Every set of natural numbers that is not empty has a least element.
LEMMA Least ==
  ASSUME NEW S, S \subseteq Nat, S # {}
  PROVE  \E n \in S : \A m \in S : n <= m
  <1>1. PICK n \in S : \A m \in S : ~ (<<m, n>> \in OpToRel(<, Nat))
    BY NatLessThanWellFounded, WFMin, Zenon
  <1>2. \A m \in S : n \in Nat /\ m \in Nat /\ ~ (m < n)
    BY <1>1, Zenon DEF OpToRel
  <1> QED BY <1>2

\* Appending a row that is not there yet.
LEMMA AppendNoRepeat ==
  ASSUME NEW S, NEW q \in Seq(S), NEW x \in S, NoRepeat(q),
         x \notin Elems(q)
  PROVE  /\ Append(q, x) \in Seq(S)
         /\ NoRepeat(Append(q, x))
         /\ Elems(Append(q, x)) = Elems(q) \cup {x}
<1> DEFINE p == Append(q, x)
<1>1. p \in Seq(S) /\ Len(p) = Len(q) + 1 /\ Len(q) \in Nat
  OBVIOUS
<1>2. DOMAIN p = 1 .. Len(q) + 1 /\ DOMAIN q = 1 .. Len(q)
  OBVIOUS
<1>3. \A i \in 1 .. Len(q) : p[i] = q[i]
  OBVIOUS
<1>4. p[Len(q) + 1] = x
  OBVIOUS
<1> HIDE DEF p
<1>5. NoRepeat(p)
  BY <1>1, <1>2, <1>3, <1>4 DEF NoRepeat, Elems
<1>6. Elems(p) = Elems(q) \cup {x}
  BY <1>1, <1>2, <1>3, <1>4 DEF Elems
<1> QED BY <1>1, <1>5, <1>6 DEF p

\* Concatenating two sequences of different rows.
LEMMA ConcatNoRepeat ==
  ASSUME NEW S, NEW q \in Seq(S), NEW r \in Seq(S), NoRepeat(q), NoRepeat(r),
         Elems(q) \cap Elems(r) = {}
  PROVE  /\ q \o r \in Seq(S)
         /\ NoRepeat(q \o r)
         /\ Elems(q \o r) = Elems(q) \cup Elems(r)
<1> DEFINE p == q \o r
<1>1. p \in Seq(S) /\ Len(p) = Len(q) + Len(r) /\ Len(q) \in Nat /\ Len(r) \in Nat
  OBVIOUS
<1>2. DOMAIN p = 1 .. Len(q) + Len(r) /\ DOMAIN q = 1 .. Len(q) /\ DOMAIN r = 1 .. Len(r)
  OBVIOUS
<1>3. \A i \in 1 .. Len(q) : p[i] = q[i]
  OBVIOUS
<1>4. \A i \in 1 .. Len(r) : p[Len(q) + i] = r[i]
  OBVIOUS
<1> HIDE DEF p
<1>5. \A i \in 1 .. Len(q) + Len(r) :
        \/ i \in 1 .. Len(q) /\ p[i] = q[i]
        \/ i - Len(q) \in 1 .. Len(r) /\ p[i] = r[i - Len(q)] /\ i \notin 1 .. Len(q)
  <2> TAKE i \in 1 .. Len(q) + Len(r)
  <2>1. CASE i <= Len(q)
    BY <2>1, <1>1, <1>3
  <2>2. CASE i > Len(q)
    <3>1. i - Len(q) \in 1 .. Len(r) /\ Len(q) + (i - Len(q)) = i
      BY <2>2, <1>1
    <3> QED BY <3>1, <1>4, <2>2, <1>1
  <2> QED BY <2>1, <2>2, <1>1
<1>6. NoRepeat(p)
  <2> SUFFICES ASSUME NEW i \in 1 .. Len(q) + Len(r), NEW j \in 1 .. Len(q) + Len(r),
                      p[i] = p[j]
               PROVE  i = j
    BY <1>2 DEF NoRepeat
  <2>1. CASE i \in 1 .. Len(q) /\ j \in 1 .. Len(q)
    BY <2>1, <1>2, <1>3 DEF NoRepeat
  <2>2. CASE i \notin 1 .. Len(q) /\ j \notin 1 .. Len(q)
    <3>1. i - Len(q) \in DOMAIN r /\ j - Len(q) \in DOMAIN r
      BY <2>2, <1>2, <1>5
    <3>2. r[i - Len(q)] = r[j - Len(q)]
      BY <2>2, <1>5
    <3>3. i - Len(q) = j - Len(q)
      BY <3>1, <3>2 DEF NoRepeat
    <3> QED BY <3>3, <1>1
  <2>3. CASE i \in 1 .. Len(q) /\ j \notin 1 .. Len(q)
    BY <2>3, <1>2, <1>5, Zenon DEF Elems
  <2>4. CASE i \notin 1 .. Len(q) /\ j \in 1 .. Len(q)
    BY <2>4, <1>2, <1>5, Zenon DEF Elems
  <2> QED BY <2>1, <2>2, <2>3, <2>4
<1>7. Elems(p) = Elems(q) \cup Elems(r)
  <2>1. ASSUME NEW i \in DOMAIN p
        PROVE  p[i] \in {q[k] : k \in DOMAIN q} \cup {r[k] : k \in DOMAIN r}
    BY <1>2, <1>5
  <2>2. ASSUME NEW i \in DOMAIN q
        PROVE  q[i] \in {p[k] : k \in DOMAIN p}
    BY <1>1, <1>2, <1>3
  <2>3. ASSUME NEW i \in DOMAIN r
        PROVE  r[i] \in {p[k] : k \in DOMAIN p}
    <3>1. Len(q) + i \in DOMAIN p
      BY <1>1, <1>2
    <3> QED BY <3>1, <1>2, <1>4
  <2> QED BY <2>1, <2>2, <2>3 DEF Elems
<1> QED BY <1>1, <1>6, <1>7 DEF p

\* pg_nextpower2_32 returns a number no smaller than its argument.
LEMMA NextPower2Type ==
  ASSUME NEW n \in Nat
  PROVE  NextPower2(n) \in Nat /\ NextPower2(n) >= n
<1>1. CASE PowersFrom(n) = {}
  BY <1>1 DEF NextPower2
<1>2. CASE PowersFrom(n) # {}
  <2>1. NextPower2(n) \in PowersFrom(n)
    BY <1>2 DEF NextPower2
  <2>2. NextPower2(n) \in n .. 2 * n - 1
    BY <2>1 DEF PowersFrom
  <2> QED BY <2>2
<1> QED BY <1>1, <1>2

\* array_bitmap_copy leaves the length of the bitmap it writes to.
LEMMA BitmapCopyType ==
  ASSUME NEW dst \in Seq(Bits), NEW off \in Nat, NEW n \in Nat,
         NEW src \in Seq(Bits), src = <<>> \/ n <= Len(src)
  PROVE  /\ BitmapCopy(dst, off, src, n) \in Seq(Bits)
         /\ Len(BitmapCopy(dst, off, src, n)) = Len(dst)
<1> DEFINE b == BitmapCopy(dst, off, src, n)
<1>1. b = [i \in 1 .. Len(dst) |-> b[i]]
  BY DEF BitmapCopy
<1>2. Len(dst) \in Nat
  OBVIOUS
<1>3. ASSUME NEW i \in 1 .. Len(dst)
      PROVE  b[i] \in Bits
  <2>1. CASE i \notin off + 1 .. off + n
    BY <2>1 DEF BitmapCopy
  <2>2. CASE i \in off + 1 .. off + n /\ src = <<>>
    BY <2>2 DEF BitmapCopy, Bits
  <2>3. CASE i \in off + 1 .. off + n /\ src # <<>>
    <3>1. i - off \in 1 .. Len(src)
      BY <2>3
    <3>2. b[i] = src[i - off]
      BY <2>3 DEF BitmapCopy
    <3> QED BY <3>1, <3>2
  <2> QED BY <2>1, <2>2, <2>3
<1> QED BY <1>1, <1>2, <1>3

\* repalloc gives a bitmap of the length asked for.
LEMMA RepallocType ==
  ASSUME NEW b \in Seq(Bits), NEW n \in Nat
  PROVE  Repalloc(b, n) \in Seq(Bits) /\ Len(Repalloc(b, n)) = n
  BY DEF Repalloc, Bits

\* A new bitmap and a grown one have the length asked for.
LEMMA AllocBitmapType ==
  ASSUME NEW s \in States, NEW n \in Nat
  PROVE  AllocBitmap(s, n) \in Seq(Bits) /\ Len(AllocBitmap(s, n)) = n
<1>1. s.nitems \in Nat /\ s.nullbitmap \in Seq(Bits)
  BY DEF States
<1>2. Palloc(n) \in Seq(Bits) /\ Len(Palloc(n)) = n
  BY DEF Palloc, Bits
<1>3. Repalloc(s.nullbitmap, n) \in Seq(Bits) /\ Len(Repalloc(s.nullbitmap, n)) = n
  BY <1>1, RepallocType, Zenon
<1>4. <<>> \in Seq(Bits)
  OBVIOUS
<1> QED BY <1>1, <1>2, <1>3, <1>4, BitmapCopyType DEF AllocBitmap

\* The arrays as the proofs use them.
LEMMA ArrayType ==
  ASSUME NEW a \in Arrays
  PROVE  /\ a.shape \in Seq(Nat) /\ Len(a.shape) <= 2
         /\ a.items \in Nat /\ a.nbytes \in Nat
         /\ a.shape # <<>> => a.items > 0
         /\ a.bits \in Seq(Bits) /\ (a.bits = <<>> \/ Len(a.bits) = a.items)
<1>1. a.bits \in Seq({0, 1}) /\ Len(a.bits) \in {0, a.items}
  BY ArraysAssumption
<1>2. a.bits \in Seq(Bits)
  BY <1>1 DEF Bits
<1> QED BY <1>1, <1>2, ArraysAssumption

\* Lengths of sequences of dimensions.
LEMMA DimsLength ==
  ASSUME NEW q \in Seq(Nat)
  PROVE  /\ q # <<>> => Len(q) >= 1
         /\ <<0>> \o q \in Seq(Nat) /\ Len(<<0>> \o q) = Len(q) + 1
         /\ Len(q) \in {2, 3} => Tail(q) # <<>>
<1>1. q # <<>> => Len(q) >= 1
  OBVIOUS
<1>2. <<0>> \in Seq(Nat) /\ Len(<<0>>) = 1
  OBVIOUS
<1>3. <<0>> \o q \in Seq(Nat) /\ Len(<<0>> \o q) = Len(q) + 1
  BY <1>2
<1>4. Len(<<>>) = 0 /\ 0 \notin {2, 3} /\ 2 - 1 # 0 /\ 3 - 1 # 0
  OBVIOUS
<1>5. ASSUME Len(q) \in {2, 3} PROVE Tail(q) # <<>>
  <2>1. q # <<>>
    BY <1>4, <1>5, Zenon
  <2>2. Len(Tail(q)) = Len(q) - 1
    BY <2>1, TailIs, Zenon
  <2>3. Len(q) - 1 # 0
    BY <1>4, <1>5, Zenon
  <2> QED BY <1>4, <2>2, <2>3, Zenon
<1> QED BY <1>1, <1>3, <1>5, Zenon

\* Counting up the first dimension.
LEMMA AddFirst ==
  ASSUME NEW q \in Seq(Nat), NEW k \in Nat, Len(q) \in {2, 3}
  PROVE  [q EXCEPT ![1] = @ + k] \in Seq(Nat) /\ Len([q EXCEPT ![1] = @ + k]) = Len(q)
<1>1. q \in [1 .. Len(q) -> Nat] /\ 1 \in 1 .. Len(q) /\ Len(q) \in Nat
  OBVIOUS
<1>2. [q EXCEPT ![1] = @ + k] \in [1 .. Len(q) -> Nat]
  BY <1>1
<1> QED BY <1>1, <1>2

\* The two places of new_dims are enough for one- and two-dimensional inputs.
LEMMA ResultDimsType ==
  ASSUME NEW s, s.dims \in Seq(Nat), Len(s.dims) \in {2, 3}
  PROVE  ResultDims(s) \in Seq(Nat)
<1> DEFINE q == s.dims
           e == IF Len(q) > 2 THEN q[3] ELSE 0
<1>1. q \in Seq(Nat) /\ Len(q) \in {2, 3}
  OBVIOUS
<1>2. ResultDims(s) = SubSeq(<<q[1] * q[2], e>>, 1, Len(q) - 1)
  BY DEF ResultDims
<1> HIDE DEF q
<1>3. q[1] \in Nat /\ q[2] \in Nat /\ e \in Nat
  BY <1>1
<1>4. q[1] * q[2] \in Nat
  BY <1>3
<1> HIDE DEF e
<1>5. ASSUME NEW a \in Nat, NEW b \in Nat, NEW n \in {1, 2}
      PROVE  SubSeq(<<a, b>>, 1, n) \in Seq(Nat)
  OBVIOUS
<1>6. Len(q) - 1 \in {1, 2}
  BY <1>1
<1> QED BY <1>2, <1>3, <1>4, <1>5, <1>6, Zenon

\* The bitmap accumArrayResultArr asks for has room for the items to come.
LEMMA AllocRoom ==
  ASSUME NEW s \in States, BitmapInBounds(s), NEW a \in Arrays
  PROVE  /\ AllocItems(s, a) \in Nat
         /\ a.bits # <<>> \/ s.nullbitmap # <<>> => AllocItems(s, a) >= s.nitems + a.items
         /\ a.bits = <<>> /\ s.nullbitmap = <<>> => AllocItems(s, a) = 0
<1> DEFINE n == AllocItems(s, a)
<1>1. s.nitems \in Nat /\ s.aitems \in Nat /\ s.nullbitmap \in Seq(Bits)
  BY DEF States
<1>n. s.nitems \in Nat /\ s.aitems \in Nat /\ a.items \in Nat
  BY <1>1, ArrayType, Zenon
<1>3. s.aitems = Len(s.nullbitmap) /\ (s.nullbitmap # <<>> => s.nitems <= s.aitems)
  BY NullAssumption DEF BitmapInBounds
<1>4. n \in Nat /\ (a.bits # <<>> \/ s.nullbitmap # <<>> => n >= s.nitems + a.items)
                /\ (a.bits = <<>> /\ s.nullbitmap = <<>> => n = 0)
  <2>1. MinItems \in Nat
    BY SizeAssumption
  <2>2. Max2(MinItems, s.nitems + a.items + 1) \in Nat
        /\ Max2(MinItems, s.nitems + a.items + 1) >= s.nitems + a.items
    BY <1>n, <2>1 DEF Max2
  <2>3. NextPower2(Max2(MinItems, s.nitems + a.items + 1)) \in Nat
        /\ NextPower2(Max2(MinItems, s.nitems + a.items + 1)) >= s.nitems + a.items
    <3> DEFINE m == Max2(MinItems, s.nitems + a.items + 1)
    <3>1. NextPower2(m) \in Nat /\ NextPower2(m) >= m
      BY <2>2, NextPower2Type
    <3> HIDE DEF m
    <3> QED BY <1>n, <2>2, <3>1 DEF m
  <2>4. CASE a.bits = <<>> /\ s.nullbitmap = <<>>
    BY <2>4, <1>1, <1>3 DEF AllocItems
  <2>5. CASE a.bits # <<>> /\ s.nullbitmap = <<>>
    BY <2>5, <2>3 DEF AllocItems
  <2>6. CASE s.nullbitmap # <<>>
    <3>1. n = IF s.nitems + a.items > s.aitems
              THEN Max2(2 * s.aitems, s.nitems + a.items) ELSE s.aitems
      BY <2>6 DEF AllocItems
    <3> HIDE DEF n
    <3>2. CASE s.nitems + a.items > s.aitems
      BY <2>6, <3>1, <3>2, <1>n DEF Max2
    <3>3. CASE ~(s.nitems + a.items > s.aitems)
      BY <2>6, <3>1, <3>3, <1>n
    <3> QED BY <3>2, <3>3
  <2> QED BY <2>4, <2>5, <2>6
<1> QED BY <1>4, Zenon

\* One array is appended to a state that may still be empty.
LEMMA AppendOK ==
  ASSUME NEW s \in States, NEW r \in Rows, table[r] \in Arrays,
         Len(s.dims) \in {2, 3}, table[r].items > 0, s.nbytes <= s.abytes,
         s.abytes = s.cap, NoRepeat(s.data), BitmapInBounds(s),
         r \notin Elems(s.data)
  PROVE  /\ Append1(s, r) \in States
         /\ StateOK(Append1(s, r)) /\ BitmapInBounds(Append1(s, r))
         /\ Elems(Append1(s, r).data) = Elems(s.data) \cup {r}
<1> DEFINE a == table[r]
           t == Append1(s, r)
           n == AllocItems(s, a)
<1>1. /\ s.dims \in Seq(Nat) /\ s.data \in Seq(Rows) /\ s.nbytes \in Nat
      /\ s.abytes \in Nat /\ s.cap \in Nat /\ s.nitems \in Nat
      /\ s.aitems \in Nat /\ s.nullbitmap \in Seq(Bits)
  BY DEF States
<1>2. /\ a.items \in Nat /\ a.nbytes \in Nat /\ a.bits \in Seq(Bits)
      /\ (a.bits = <<>> \/ Len(a.bits) = a.items)
  BY ArrayType
<1>n. /\ s.nbytes \in Nat /\ s.abytes \in Nat /\ s.nitems \in Nat /\ s.aitems \in Nat
      /\ a.items \in Nat /\ a.nbytes \in Nat
  BY <1>1, <1>2, Zenon
<1>3. s.aitems = Len(s.nullbitmap) /\ (s.nullbitmap # <<>> => s.nitems <= s.aitems)
  BY NullAssumption DEF BitmapInBounds
<1>4. n \in Nat /\ (a.bits # <<>> \/ s.nullbitmap # <<>> => n >= s.nitems + a.items)
                /\ (a.bits = <<>> /\ s.nullbitmap = <<>> => n = 0)
  BY AllocRoom, Zenon
<1>5. GrownBytes(s, a.nbytes) \in Nat /\ GrownBytes(s, a.nbytes) >= s.nbytes + a.nbytes
  BY <1>n DEF GrownBytes, Max2
<1> DEFINE b == BitmapCopy(AllocBitmap(s, n), s.nitems, a.bits, a.items)
<1>6. b \in Seq(Bits) /\ Len(b) = n
  <2>1. AllocBitmap(s, n) \in Seq(Bits) /\ Len(AllocBitmap(s, n)) = n
    BY <1>4, AllocBitmapType
  <2>2. a.bits = <<>> \/ a.items <= Len(a.bits)
    BY <1>2
  <2> HIDE DEF n, a
  <2> QED BY <1>1, <1>2, <2>1, <2>2, BitmapCopyType
<1>7. t = [dims |-> t.dims, data |-> t.data, nbytes |-> t.nbytes, abytes |-> t.abytes,
           cap |-> t.cap, nitems |-> t.nitems, aitems |-> t.aitems,
           nullbitmap |-> t.nullbitmap]
  BY Zenon DEF Append1
<1>a. t.dims = [s.dims EXCEPT ![1] = @ + 1]
  BY DEF Append1
<1>b. t.data = Append(s.data, r)
  BY DEF Append1
<1>c. /\ t.nbytes = s.nbytes + a.nbytes
      /\ t.abytes = GrownBytes(s, a.nbytes)
      /\ t.cap = IF GrownBytes(s, a.nbytes) # s.abytes THEN GrownBytes(s, a.nbytes) ELSE s.cap
  BY DEF Append1
<1>d. t.nitems = s.nitems + a.items
  BY DEF Append1
<1>e. /\ t.aitems = n
      /\ t.nullbitmap = IF a.bits = <<>> /\ s.nullbitmap = <<>> THEN <<>> ELSE b
  BY DEF Append1
<1>f. a.items > 0
  OBVIOUS
<1> HIDE DEF t, n, b, a
<1>8. t.dims \in Seq(Nat) /\ Len(t.dims) = Len(s.dims)
  BY <1>1, <1>a, AddFirst
<1>9. /\ t.data \in Seq(Rows) /\ NoRepeat(t.data)
      /\ Elems(t.data) = Elems(s.data) \cup {r}
  <2> DEFINE q == s.data
  <2>1. q \in Seq(Rows) /\ NoRepeat(q) /\ r \notin Elems(q)
    BY <1>1
  <2> HIDE DEF q
  <2>2. /\ Append(q, r) \in Seq(Rows) /\ NoRepeat(Append(q, r))
        /\ Elems(Append(q, r)) = Elems(q) \cup {r}
    BY <2>1, AppendNoRepeat
  <2>3. t.data = Append(q, r)
    BY <1>b DEF q
  <2>4. Elems(t.data) = Elems(Append(q, r))
    BY <2>3
  <2> QED BY <2>2, <2>3, <2>4 DEF q
<1>10. t.cap = t.abytes /\ t.abytes \in Nat /\ t.nbytes \in Nat /\ t.nbytes <= t.abytes
  BY <1>1, <1>2, <1>5, <1>c
<1>11. t.nitems \in Nat /\ t.nitems > 0
  BY <1>1, <1>2, <1>d, <1>f
<1>12. /\ t.aitems \in Nat /\ t.nullbitmap \in Seq(Bits) /\ t.aitems = Len(t.nullbitmap)
       /\ t.nullbitmap # <<>> => t.nitems <= t.aitems
  <2>1. CASE a.bits = <<>> /\ s.nullbitmap = <<>>
    BY <2>1, <1>4, <1>e
  <2>2. CASE ~(a.bits = <<>> /\ s.nullbitmap = <<>>)
    BY <2>2, <1>4, <1>6, <1>d, <1>e
  <2> QED BY <2>1, <2>2
<1>13. t \in States
  BY <1>7, <1>8, <1>9, <1>10, <1>11, <1>12 DEF States
<1>14. StateOK(t)
  BY <1>8, <1>9, <1>10, <1>11, <1>13 DEF StateOK
<1>15. BitmapInBounds(t)
  BY <1>12 DEF BitmapInBounds
<1> QED BY <1>9, <1>13, <1>14, <1>15 DEF t

\* The state initArrayResultArr and the first row make, before it is copied.
LEMMA FirstStateOK ==
  ASSUME NEW a \in Arrays, a.shape # <<>>
  PROVE  /\ FirstState(a) \in States /\ BitmapInBounds(FirstState(a))
         /\ FirstState(a).data = <<>> /\ Len(FirstState(a).dims) \in {2, 3}
         /\ FirstState(a).nbytes <= FirstState(a).abytes
         /\ FirstState(a).abytes = FirstState(a).cap
<1> DEFINE f == FirstState(a)
           n == NextPower2(Max2(MinBytes, a.nbytes + 1))
<1>1. a.shape \in Seq(Nat) /\ Len(a.shape) \in {1, 2} /\ a.items > 0
      /\ a.nbytes \in Nat
  <2>1. a.shape # <<>>
    OBVIOUS
  <2>2. a.shape \in Seq(Nat) /\ Len(a.shape) <= 2 /\ a.nbytes \in Nat
        /\ a.items > 0
    BY <2>1, ArrayType
  <2>3. Len(a.shape) >= 1 /\ Len(a.shape) \in Nat
    BY <2>1, <2>2, DimsLength
  <2> DEFINE k == Len(a.shape)
  <2>4. k \in Nat /\ k >= 1 /\ k <= 2
    BY <2>2, <2>3
  <2> HIDE DEF k
  <2>5. k \in {1, 2}
    BY <2>4
  <2> QED BY <2>2, <2>5 DEF k
<1>2. n \in Nat
  <2>1. Max2(MinBytes, a.nbytes + 1) \in Nat
    BY <1>1, SizeAssumption DEF Max2
  <2> QED BY <2>1, NextPower2Type
<1>3. <<0>> \o a.shape \in Seq(Nat) /\ Len(<<0>> \o a.shape) \in {2, 3}
  <2> DEFINE q == a.shape
  <2>1. q \in Seq(Nat) /\ Len(q) \in {1, 2}
    BY <1>1
  <2> HIDE DEF q
  <2>2. <<0>> \o q \in Seq(Nat) /\ Len(<<0>> \o q) = Len(q) + 1
    BY <2>1, DimsLength
  <2>3. Len(<<0>> \o q) \in {2, 3}
    <3> DEFINE k == Len(q)
               m == Len(<<0>> \o q)
    <3>1. k \in {1, 2} /\ m = k + 1
      BY <2>1, <2>2
    <3> HIDE DEF k, m
    <3>2. m \in {2, 3}
      BY <3>1
    <3> QED BY <3>2 DEF m
  <2> QED BY <2>2, <2>3 DEF q
<1>4. f = [dims |-> <<0>> \o a.shape, data |-> <<>>, nbytes |-> 0, abytes |-> n,
           cap |-> n, nitems |-> 0, aitems |-> 0, nullbitmap |-> <<>>]
  BY DEF FirstState
<1> HIDE DEF n, f
<1>5. f \in States
  BY <1>2, <1>3, <1>4 DEF States
<1>6. Len(f.dims) \in {2, 3} /\ f.nbytes <= f.abytes /\ f.abytes = f.cap /\ f.data = <<>>
  BY <1>2, <1>3, <1>4
<1>8. BitmapInBounds(f)
  BY <1>4 DEF BitmapInBounds
<1> QED BY <1>5, <1>6, <1>8 DEF f

\* What accumArrayResultArr makes of a state and a row that has no error.
LEMMA AccumulateOK ==
  ASSUME NEW s \in States \cup {NULL}, NEW r \in Rows,
         table \in [Rows -> Arrays \cup {NullArray}],
         StateOK(s), BitmapInBounds(s), Accepts(s, r), r \notin Held(s)
  PROVE  /\ Accumulate(s, r) \in States
         /\ StateOK(Accumulate(s, r)) /\ BitmapInBounds(Accumulate(s, r))
         /\ Held(Accumulate(s, r)) = Held(s) \cup {r}
<1>1. table[r] \in Arrays
  BY DEF Accepts
<1>2. CASE s = NULL
  <2> DEFINE f == FirstState(table[r])
  <2>1. table[r].shape # <<>>
    BY <1>2, Zenon DEF Accepts
  <2>2. table[r].items > 0
    BY <1>1, <2>1, ArrayType, Zenon
  <2>3. /\ f \in States /\ BitmapInBounds(f) /\ f.data = <<>>
        /\ Len(f.dims) \in {2, 3} /\ f.nbytes <= f.abytes /\ f.abytes = f.cap
    BY <1>1, <2>1, FirstStateOK, Zenon
  <2>7. NoRepeat(f.data) /\ Elems(f.data) = {}
    BY <2>3 DEF NoRepeat, Elems
  <2>9. Accumulate(s, r) = Append1(f, r)
    BY <1>2 DEF Accumulate, f
  <2>10. /\ Append1(f, r) \in States
         /\ StateOK(Append1(f, r)) /\ BitmapInBounds(Append1(f, r))
         /\ Elems(Append1(f, r).data) = Elems(f.data) \cup {r}
    BY <1>1, <2>2, <2>3, <2>7, AppendOK
  <2>11. Append1(f, r) # NULL
    BY <2>10, NullAssumption
  <2> QED BY <1>2, <2>7, <2>9, <2>10, <2>11 DEF Held
<1>3. CASE s # NULL
  <2>1. s \in States
    BY <1>3
  <2>2. /\ Len(s.dims) \in {2, 3} /\ s.nbytes <= s.abytes /\ s.abytes = s.cap
        /\ NoRepeat(s.data)
    BY <1>3 DEF StateOK
  <2>3. Held(s) = Elems(s.data)
    BY <1>3 DEF Held
  <2>4. table[r].items > 0
    <3>1. Tail(s.dims) = table[r].shape /\ s.dims \in Seq(Nat)
      BY <1>3, <2>1 DEF Accepts, States
    <3>2. Tail(s.dims) # <<>>
      BY <2>2, <3>1, DimsLength
    <3> QED BY <1>1, <3>1, <3>2, ArrayType, Zenon
  <2>5. Accumulate(s, r) = Append1(s, r)
    BY <1>3 DEF Accumulate
  <2>6. /\ Append1(s, r) \in States
        /\ StateOK(Append1(s, r)) /\ BitmapInBounds(Append1(s, r))
        /\ Elems(Append1(s, r).data) = Held(s) \cup {r}
    BY <1>1, <2>1, <2>2, <2>3, <2>4, AppendOK
  <2>7. Append1(s, r) # NULL
    BY <2>6, NullAssumption
  <2> QED BY <2>5, <2>6, <2>7 DEF Held
<1> QED BY <1>2, <1>3

\* array_2d_agg_combine on two states that are there.
LEMMA CombineAppendOK ==
  ASSUME NEW s1 \in States, NEW s2 \in States,
         StateOK(s1), s2.nitems > 0, Len(s2.dims) \in {2, 3}, NoRepeat(s2.data),
         BitmapInBounds(s2),
         Elems(s1.data) \cap Elems(s2.data) = {}
  PROVE  /\ CombineAppend(s1, s2) \in States
         /\ StateOK(CombineAppend(s1, s2))
         /\ Elems(CombineAppend(s1, s2).data) = Elems(s1.data) \cup Elems(s2.data)
<1> DEFINE t == CombineAppend(s1, s2)
           n == CombineItems(s1, s2)
           c == CombineBytes(s1, s2)
<1>1. /\ s1.dims \in Seq(Nat) /\ s1.data \in Seq(Rows) /\ s1.nbytes \in Nat
      /\ s1.abytes \in Nat /\ s1.cap \in Nat /\ s1.nitems \in Nat
      /\ s1.aitems \in Nat /\ s1.nullbitmap \in Seq(Bits)
  BY DEF States
<1>2. /\ s2.dims \in Seq(Nat) /\ s2.data \in Seq(Rows) /\ s2.nbytes \in Nat
      /\ s2.nitems \in Nat /\ s2.aitems \in Nat /\ s2.nullbitmap \in Seq(Bits)
  BY DEF States
<1>3. /\ Len(s1.dims) \in {2, 3} /\ s1.nitems > 0 /\ s1.nbytes <= s1.abytes
      /\ s1.abytes = s1.cap /\ NoRepeat(s1.data)
  BY NullAssumption DEF StateOK
<1>n. /\ s1.nbytes \in Nat /\ s1.abytes \in Nat /\ s1.nitems \in Nat /\ s1.aitems \in Nat
      /\ s2.nbytes \in Nat /\ s2.nitems \in Nat /\ s2.aitems \in Nat
  BY <1>1, <1>2, Zenon
<1>4. s2.nullbitmap = <<>> \/ s2.nitems <= Len(s2.nullbitmap)
  BY NullAssumption DEF BitmapInBounds
<1>5. n \in Nat
  <2> DEFINE m == Max2(MinItems, s1.nitems + s2.nitems + 1)
  <2>1. m \in Nat
    BY <1>n, SizeAssumption DEF Max2
  <2>2. NextPower2(m) \in Nat
    BY <2>1, NextPower2Type
  <2>3. s1.aitems + s2.aitems \in Nat
    BY <1>n
  <2>4. NextPower2(s1.aitems + s2.aitems) \in Nat
    BY <2>3, NextPower2Type
  <2> QED BY <1>n, <2>2, <2>4 DEF CombineItems
<1>6. c \in Nat /\ c >= s1.nbytes + s2.nbytes
  <2>1. s1.nbytes + s2.nbytes \in Nat
    BY <1>n
  <2>2. /\ NextPower2(s1.nbytes + s2.nbytes) \in Nat
        /\ NextPower2(s1.nbytes + s2.nbytes) >= s1.nbytes + s2.nbytes
    BY <2>1, NextPower2Type
  <2>3. CASE s1.abytes < s1.nbytes + s2.nbytes
    BY <2>2, <2>3 DEF CombineBytes
  <2>4. CASE ~(s1.abytes < s1.nbytes + s2.nbytes)
    <3>1. c = s1.abytes
      BY <2>4 DEF CombineBytes
    <3> HIDE DEF c
    <3> QED BY <1>n, <2>4, <3>1
  <2> QED BY <2>3, <2>4
<1>7. CombineBitmap(s1, s2) \in Seq(Bits)
  <2>1. AllocBitmap(s1, n) \in Seq(Bits)
    BY <1>5, AllocBitmapType
  <2> HIDE DEF n
  <2>2. BitmapCopy(AllocBitmap(s1, n), s1.nitems, s2.nullbitmap, s2.nitems) \in Seq(Bits)
    BY <1>1, <1>2, <1>4, <2>1, BitmapCopyType
  <2> QED BY <1>1, <2>2 DEF CombineBitmap, n
<1>8. t = [dims |-> t.dims, data |-> t.data, nbytes |-> t.nbytes, abytes |-> t.abytes,
           cap |-> t.cap, nitems |-> t.nitems, aitems |-> t.aitems,
           nullbitmap |-> t.nullbitmap]
  BY Zenon DEF CombineAppend
<1>9. t.dims = [s1.dims EXCEPT ![1] = @ + s2.dims[1]]
  BY Zenon DEF CombineAppend
<1>10. t.data = s1.data \o s2.data
  BY Zenon DEF CombineAppend
<1>11. t.nbytes = s1.nbytes + s2.nbytes /\ t.abytes = c
       /\ t.cap = IF c # s1.abytes THEN c ELSE s1.cap
  BY DEF CombineAppend
<1>12. t.nitems = s1.nitems + s2.nitems
  BY DEF CombineAppend
<1>13. t.aitems = n /\ t.nullbitmap = CombineBitmap(s1, s2)
  BY DEF CombineAppend
<1> HIDE DEF t, n, c
<1>14. t.dims \in Seq(Nat) /\ Len(t.dims) = Len(s1.dims)
  <2> DEFINE d == s2.dims
  <2>1. d \in Seq(Nat) /\ Len(d) \in {2, 3}
    BY <1>2
  <2> HIDE DEF d
  <2>2. d[1] \in Nat
    BY <2>1
  <2>3. t.dims = [s1.dims EXCEPT ![1] = @ + d[1]]
    BY <1>9 DEF d
  <2> QED BY <1>1, <1>3, <2>2, <2>3, AddFirst
<1>15. /\ t.data \in Seq(Rows) /\ NoRepeat(t.data)
       /\ Elems(t.data) = Elems(s1.data) \cup Elems(s2.data)
  <2> DEFINE q1 == s1.data
             q2 == s2.data
  <2>1. /\ q1 \in Seq(Rows) /\ q2 \in Seq(Rows) /\ NoRepeat(q1) /\ NoRepeat(q2)
        /\ Elems(q1) \cap Elems(q2) = {}
    BY <1>1, <1>2, <1>3
  <2> HIDE DEF q1, q2
  <2>2. /\ q1 \o q2 \in Seq(Rows) /\ NoRepeat(q1 \o q2)
        /\ Elems(q1 \o q2) = Elems(q1) \cup Elems(q2)
    BY <2>1, ConcatNoRepeat
  <2>3. t.data = q1 \o q2
    BY <1>10 DEF q1, q2
  <2>4. Elems(t.data) = Elems(q1 \o q2)
    BY <2>3
  <2> QED BY <2>2, <2>3, <2>4 DEF q1, q2
<1>16. t.cap = t.abytes /\ t.abytes \in Nat /\ t.nbytes \in Nat /\ t.nbytes <= t.abytes
  <2>1. s1.cap = s1.abytes /\ s1.nbytes <= s1.abytes
    BY <1>3
  <2> QED BY <1>n, <1>6, <1>11, <2>1
<1>17. t.nitems \in Nat /\ t.nitems > 0
  <2>1. s1.nitems > 0
    BY <1>3
  <2> QED BY <1>n, <1>12, <2>1
<1>18. t \in States
  BY <1>5, <1>7, <1>8, <1>13, <1>14, <1>15, <1>16, <1>17 DEF States
<1>19. StateOK(t)
  BY <1>3, <1>14, <1>15, <1>16, <1>17, <1>18 DEF StateOK
<1> QED BY <1>15, <1>18, <1>19 DEF t

\* What deserialize and array_2d_agg_combine make of a partial state.
LEMMA CombineOK ==
  ASSUME NEW s1 \in States \cup {NULL}, NEW s2 \in States,
         StateOK(s1), StateOK(s2), BitmapInBounds(s2), Held(s1) \cap Held(s2) = {}
  PROVE  /\ CombineStates(s1, Deserialize(s2)) \in States
         /\ StateOK(CombineStates(s1, Deserialize(s2)))
         /\ Held(CombineStates(s1, Deserialize(s2))) = Held(s1) \cup Held(s2)
<1> DEFINE d == Deserialize(s2)
<1>1. s2 # NULL
  BY NullAssumption
<1>2. s2.nbytes \in Nat /\ s2.abytes \in Nat
  BY DEF States
<1>3. Max2(MinBytes, NextPower2(s2.nbytes)) \in Nat
  BY <1>2, NextPower2Type, SizeAssumption DEF Max2
<1>4. d \in States
  BY <1>3, Zenon DEF Deserialize, States
<1>5. /\ d.data = s2.data /\ d.nitems = s2.nitems /\ d.dims = s2.dims
      /\ d.nbytes = s2.nbytes /\ d.abytes = s2.abytes
      /\ d.aitems = s2.aitems /\ d.nullbitmap = s2.nullbitmap
  BY DEF Deserialize, States
<1> HIDE DEF d
<1>6. /\ d.nitems > 0 /\ Len(d.dims) \in {2, 3} /\ NoRepeat(d.data)
      /\ d.nbytes <= d.abytes
  BY <1>1, <1>5 DEF StateOK
<1>7. BitmapInBounds(d)
  BY <1>1, <1>5 DEF BitmapInBounds
<1>8. CASE s1 = NULL
  <2> DEFINE c == CombineCopy(d)
  <2>1. CombineStates(s1, d) = c
    BY <1>8 DEF CombineStates
  <2>2. c \in States /\ c.data = d.data /\ c.nitems = d.nitems /\ c.dims = d.dims
        /\ c.nbytes = d.nbytes /\ c.abytes = d.abytes /\ c.cap = d.abytes
    BY <1>4, Zenon DEF CombineCopy, States
  <2> HIDE DEF c
  <2>3. StateOK(c)
    BY <1>6, <2>2 DEF StateOK
  <2>4. c # NULL
    BY <2>2, NullAssumption
  <2>5. Held(c) = Held(s1) \cup Held(s2)
    BY <1>1, <1>5, <1>8, <2>2, <2>4 DEF Held
  <2> QED BY <2>1, <2>2, <2>3, <2>5 DEF d
<1>9. CASE s1 # NULL
  <2> DEFINE c == CombineAppend(s1, d)
  <2>1. CombineStates(s1, d) = c
    BY <1>6, <1>9 DEF CombineStates
  <2>2. Elems(s1.data) \cap Elems(d.data) = {}
    BY <1>1, <1>5, <1>9 DEF Held
  <2>3. /\ c \in States /\ StateOK(c)
        /\ Elems(c.data) = Elems(s1.data) \cup Elems(d.data)
    BY <1>4, <1>6, <1>7, <1>9, <2>2, CombineAppendOK, Zenon
  <2> HIDE DEF c
  <2>4. c # NULL
    BY <2>3, NullAssumption
  <2>5. Held(c) = Held(s1) \cup Held(s2)
    BY <1>1, <1>5, <1>9, <2>3, <2>4 DEF Held
  <2> QED BY <2>1, <2>3, <2>5 DEF d
<1> QED BY <1>8, <1>9

-----------------------------------------------------------------------------

\* The invariant after a step, from what the step makes of the variables.
LEMMA NextInv ==
  ASSUME TypeOK', StatesOK(state', agg'), Partition(unclaimed', state', agg'),
         Stopped(unclaimed', pc', state'), EveryRowOnce'
  PROVE  Inv'
<1>1. StatesOK(state, agg)'
  BY DEF StatesOK, StateOK, BitmapInBounds
<1>2. Partition(unclaimed, state, agg)'
  BY DEF Partition, Held
<1>3. Stopped(unclaimed, pc, state)'
  BY DEF Stopped
<1> QED BY <1>1, <1>2, <1>3 DEF Inv

\* Before the first row no state exists and every row is still to be fetched.
LEMMA InitInv == Init => Inv
<1> SUFFICES ASSUME Init PROVE Inv
  OBVIOUS
<1>1. TypeOK
  BY DEF Init, TypeOK
<1>2. StatesOK(state, agg)
  BY DEF Init, StatesOK, StateOK, BitmapInBounds
<1>3. Partition(unclaimed, state, agg)
  BY DEF Init, Partition, Held
<1>4. Stopped(unclaimed, pc, state) /\ EveryRowOnce
  BY DEF Init, Stopped, EveryRowOnce
<1> QED BY <1>1, <1>2, <1>3, <1>4 DEF Inv

\* One row moves from the rows not yet fetched to a process's state.
LEMMA TransfnInv ==
  ASSUME Inv, NEW w \in Workers, NEW r \in Rows, Transfn(w, r)
  PROVE  Inv'
<1> DEFINE t == Accumulate(state[w], r)
<1>1. /\ TypeOK /\ StatesOK(state, agg) /\ Partition(unclaimed, state, agg)
      /\ Stopped(unclaimed, pc, state) /\ EveryRowOnce
  BY DEF Inv
<1>2. /\ r \in unclaimed /\ Accepts(state[w], r)
      /\ unclaimed' = unclaimed \ {r} /\ state' = [state EXCEPT ![w] = t]
      /\ UNCHANGED <<table, grouped, pc, agg, phase, result>>
      /\ pc[w] = "scan"
  BY DEF Transfn
<1>3. /\ state \in [Workers -> States \cup {NULL}] /\ state[w] \in States \cup {NULL}
      /\ table \in [Rows -> Arrays \cup {NullArray}]
  BY <1>1 DEF TypeOK
<1>4. StateOK(state[w]) /\ BitmapInBounds(state[w])
  BY <1>1 DEF StatesOK
<1>5. r \notin Held(state[w])
  BY <1>1, <1>2 DEF Partition
<1>6. /\ t \in States /\ StateOK(t) /\ BitmapInBounds(t)
      /\ Held(t) = Held(state[w]) \cup {r}
  BY <1>2, <1>3, <1>4, <1>5, AccumulateOK
<1> HIDE DEF t
<1>7. state'[w] = t /\ \A v \in Workers : v # w => state'[v] = state[v]
  BY <1>2, <1>3
<1>8. TypeOK'
  BY <1>1, <1>2, <1>6 DEF TypeOK
<1>9. StatesOK(state', agg')
  BY <1>1, <1>2, <1>6, <1>7 DEF StatesOK
<1>10. Partition(unclaimed', state', agg')
  <2>1. Held(state'[w]) = Held(state[w]) \cup {r}
        /\ \A v \in Workers : v # w => Held(state'[v]) = Held(state[v])
    BY <1>6, <1>7
  <2> QED BY <1>1, <1>2, <2>1 DEF Partition
<1>11. Stopped(unclaimed', pc', state')
  BY <1>1, <1>2, <1>7 DEF Stopped
<1>12. EveryRowOnce'
  BY <1>1, <1>2 DEF EveryRowOnce
<1> QED BY <1>8, <1>9, <1>10, <1>11, <1>12, NextInv

\* A partial state moves into the leader's.
LEMMA CombineInv ==
  ASSUME Inv, NEW w \in Workers, Combine(w)
  PROVE  Inv'
<1> DEFINE t == CombineStates(agg, Deserialize(state[w]))
<1>1. /\ TypeOK /\ StatesOK(state, agg) /\ Partition(unclaimed, state, agg)
      /\ Stopped(unclaimed, pc, state)
  BY DEF Inv
<1>2. /\ agg' = t /\ state' = [state EXCEPT ![w] = NULL] /\ pc' = [pc EXCEPT ![w] = "done"]
      /\ UNCHANGED <<table, grouped, unclaimed, phase, result>> /\ phase = "run"
      /\ pc[w] = "sent"
  BY DEF Combine
<1>3. /\ state \in [Workers -> States \cup {NULL}] /\ agg \in States \cup {NULL}
      /\ pc \in [Workers -> {"scan", "sent", "done"}]
  BY <1>1 DEF TypeOK
<1>4. StateOK(agg) /\ StateOK(state[w]) /\ BitmapInBounds(state[w])
  BY <1>1 DEF StatesOK
<1>5. unclaimed = {} /\ state[w] # NULL
  BY <1>1, <1>2 DEF Stopped
<1>6. Held(agg) \cap Held(state[w]) = {}
  BY <1>1 DEF Partition
<1>7. state[w] \in States
  BY <1>3, <1>5
<1>8. t \in States /\ StateOK(t) /\ Held(t) = Held(agg) \cup Held(state[w])
  BY <1>3, <1>4, <1>6, <1>7, CombineOK
<1> HIDE DEF t
<1>9. /\ state'[w] = NULL /\ \A v \in Workers : v # w => state'[v] = state[v]
      /\ pc'[w] = "done" /\ \A v \in Workers : v # w => pc'[v] = pc[v]
  BY <1>2, <1>3
<1>10. TypeOK'
  BY <1>1, <1>2, <1>8 DEF TypeOK
<1>11. StatesOK(state', agg')
  <2>1. StateOK(NULL) /\ BitmapInBounds(NULL)
    BY DEF StateOK, BitmapInBounds
  <2> QED BY <1>1, <1>2, <1>8, <1>9, <2>1 DEF StatesOK
<1>12. Partition(unclaimed', state', agg')
  <2>1. Held(state'[w]) = {} /\ \A v \in Workers : v # w => Held(state'[v]) = Held(state[v])
    BY <1>9 DEF Held
  <2>2. Held(agg') = Held(agg) \cup Held(state[w]) /\ unclaimed' = unclaimed
    BY <1>2, <1>8
  <2> QED BY <1>1, <2>1, <2>2 DEF Partition
<1>13. Stopped(unclaimed', pc', state')
  BY <1>1, <1>2, <1>5, <1>9 DEF Stopped
<1>14. EveryRowOnce'
  BY <1>2 DEF EveryRowOnce
<1> QED BY <1>10, <1>11, <1>12, <1>13, <1>14, NextInv

\* The result is the leader's state, which then holds every row.
LEMMA FinalfnInv ==
  ASSUME Inv, Finalfn
  PROVE  Inv'
<1>1. /\ TypeOK /\ StatesOK(state, agg) /\ Partition(unclaimed, state, agg)
      /\ Stopped(unclaimed, pc, state)
  BY DEF Inv
<1>2. /\ UNCHANGED <<table, grouped, unclaimed, state, pc, agg>> /\ phase' = "done"
      /\ \A w \in Workers : pc[w] = "done"
  BY DEF Finalfn
<1>3. unclaimed = {} /\ \A w \in Workers : Held(state[w]) = {}
  BY <1>1, <1>2, ProcessAssumption DEF Stopped, Held
<1>4. Rows \subseteq Held(agg)
  BY <1>1, <1>3 DEF Partition
<1>5. result' \in Results \cup {NULL} /\ EveryRowOnce'
  <2>1. CASE agg = NULL
    <3>1. result' = NULL
      BY <2>1 DEF Finalfn
    <3>2. Rows = {}
      BY <1>4, <2>1 DEF Held
    <3> QED BY <3>1, <3>2 DEF EveryRowOnce
  <2>2. CASE agg # NULL
    <3> DEFINE bits == IF agg.nullbitmap = <<>> THEN <<>>
                       ELSE Repalloc(agg.nullbitmap, agg.nitems)
               res == [dims |-> ResultDims(agg), data |-> agg.data,
                       nitems |-> agg.nitems, bits |-> bits]
    <3>1. agg \in States
      BY <1>1, <2>2 DEF TypeOK
    <3>2. Len(agg.dims) \in {2, 3} /\ NoRepeat(agg.data)
      BY <1>1, <2>2 DEF StatesOK, StateOK
    <3>3. /\ agg.dims \in Seq(Nat) /\ agg.data \in Seq(Rows) /\ agg.nitems \in Nat
          /\ agg.nullbitmap \in Seq(Bits)
      BY <3>1 DEF States
    <3>4. bits \in Seq(Bits)
      BY <3>3, RepallocType
    <3>5. ResultDims(agg) \in Seq(Nat)
      BY <3>2, <3>3, ResultDimsType
    <3>6. result' = res
      BY <2>2, Zenon DEF Finalfn
    <3> HIDE DEF bits
    <3>7. res \in Results
      BY <3>3, <3>4, <3>5 DEF Results
    <3>8. result' # NULL /\ result'.data = agg.data
      BY <3>6, <3>7, NullAssumption
    <3>9. Elems(agg.data) = Rows
      <4>1. Elems(agg.data) \subseteq Rows
        BY <3>3 DEF Elems
      <4>2. Held(agg) = Elems(agg.data)
        BY <2>2 DEF Held
      <4> QED BY <1>4, <4>1, <4>2
    <3>10. EveryRowOnce'
      BY <1>2, <3>2, <3>8, <3>9 DEF EveryRowOnce, Elems, NoRepeat
    <3> QED BY <3>6, <3>7, <3>10
  <2> QED BY <2>1, <2>2
<1>6. TypeOK'
  BY <1>1, <1>2, <1>5 DEF TypeOK
<1>7. /\ StatesOK(state', agg') /\ Partition(unclaimed', state', agg')
      /\ Stopped(unclaimed', pc', state')
  BY <1>1, <1>2
<1> QED BY <1>5, <1>6, <1>7, NextInv

\* The steps that leave the rows where they are.
LEMMA OtherInv ==
  ASSUME Inv, NEW w \in Workers,
         \/ \E r \in Rows : TransfnError(w, r)
         \/ Serialize(w) \/ SerializeNull(w) \/ NoGroup(w) \/ CombineError(w)
  PROVE  Inv'
<1>1. /\ TypeOK /\ StatesOK(state, agg) /\ Partition(unclaimed, state, agg)
      /\ Stopped(unclaimed, pc, state) /\ EveryRowOnce
  BY DEF Inv
<1>2. pc \in [Workers -> {"scan", "sent", "done"}]
  BY <1>1 DEF TypeOK
<1>3. /\ UNCHANGED <<table, grouped, unclaimed, state, agg, result>>
      /\ phase' \in {"run", "error", "crash"}
      /\ \/ pc' = pc
         \/ /\ pc' = [pc EXCEPT ![w] = "sent"] /\ unclaimed = {} /\ state[w] # NULL
         \/ /\ pc' = [pc EXCEPT ![w] = "done"] /\ unclaimed = {} /\ state[w] = NULL
  BY Zenon DEF TransfnError, Serialize, SerializeNull, NoGroup, CombineError
<1>4. TypeOK'
  BY <1>1, <1>3 DEF TypeOK
<1>5. Stopped(unclaimed', pc', state')
  BY <1>1, <1>2, <1>3 DEF Stopped
<1>6. StatesOK(state', agg') /\ Partition(unclaimed', state', agg')
  BY <1>1, <1>3, Zenon
<1>7. EveryRowOnce'
  BY <1>1, <1>3, Zenon DEF EveryRowOnce
<1> QED BY <1>4, <1>5, <1>6, <1>7, NextInv

\* The plan keeps the invariant: one step per call of the aggregate.
LEMMA StepInv == Inv /\ [Next]_vars => Inv'
<1> SUFFICES ASSUME Inv, [Next]_vars PROVE Inv'
  OBVIOUS
<1>1. ASSUME NEW w \in Workers, NEW r \in Rows, Transfn(w, r) PROVE Inv'
  BY <1>1, TransfnInv
<1>2. ASSUME NEW w \in Workers,
             \/ \E r \in Rows : TransfnError(w, r)
             \/ Serialize(w) \/ SerializeNull(w) \/ NoGroup(w) \/ CombineError(w)
      PROVE  Inv'
  BY <1>2, OtherInv
<1>3. ASSUME NEW w \in Workers, Combine(w) PROVE Inv'
  BY <1>3, CombineInv
<1>4. CASE Finalfn
  BY <1>4, FinalfnInv
<1>5. CASE UNCHANGED vars
  <2>1. UNCHANGED <<table, grouped, unclaimed, state, pc, agg, phase, result>>
    BY <1>5 DEF vars
  <2>2. /\ TypeOK /\ StatesOK(state, agg) /\ Partition(unclaimed, state, agg)
        /\ Stopped(unclaimed, pc, state) /\ EveryRowOnce
    BY DEF Inv
  <2>3. TypeOK'
    BY <2>1, <2>2 DEF TypeOK
  <2>4. EveryRowOnce'
    BY <2>1, <2>2, Zenon DEF EveryRowOnce
  <2>5. /\ StatesOK(state', agg') /\ Partition(unclaimed', state', agg')
        /\ Stopped(unclaimed', pc', state')
    BY <2>1, <2>2
  <2> QED BY <2>3, <2>4, <2>5, NextInv
<1> QED BY <1>1, <1>2, <1>3, <1>4, <1>5 DEF Next

\* In every plan each row is unfetched, in one state, or in the combined state,
\* and every state has room for what was copied into it.
THEOREM InvHolds == Spec => []Inv
  BY InitInv, StepInv, PTL DEF Spec

\* Type correctness of the aggregate's states, for any rows and processes.
THEOREM TypeCorrect == Spec => []TypeOK
<1>1. Inv => TypeOK
  BY DEF Inv
<1> QED BY <1>1, InvHolds, PTL

\* Each row's array is in the result exactly once, however the rows are split
\* over the processes and in whatever order the partial states are merged.
THEOREM RowsExactlyOnce == Spec => []EveryRowOnce
<1>1. Inv => EveryRowOnce
  BY DEF Inv
<1> QED BY <1>1, InvHolds, PTL

\* No memcpy into a data area and no write to a process's null bitmap goes
\* past what was allocated, whatever the sizes of the arrays.
THEOREM CopiesInBounds == Spec => []StatesInBounds
<1>1. Inv => StatesInBounds
  BY DEF Inv, StatesOK, StatesInBounds, DataInBounds, StateOK
<1> QED BY <1>1, InvHolds, PTL

-----------------------------------------------------------------------------
(* The order of the rows *)

Data(s) == IF s = NULL THEN <<>> ELSE s.data

\* f has the rows of the first processes of d.
Joined(f, F, d) ==
  /\ f[0] = <<>>
  /\ \A i \in 1 .. Len(d) : f[i] = f[i - 1] \o F[d[i]]

\* data has the rows of all of them.
Has(data, F, d) == \E f : Joined(f, F, d) /\ f[Len(d)] = data

\* The processes in d are done, each is there once, and so is each that is done
\* and has fetched a row.
InTurn(p, F, d) ==
  /\ d \in Seq(Workers)
  /\ NoRepeat(d)
  /\ \A i \in DOMAIN d : p[d[i]] = "done"
  /\ \A w \in Workers : p[w] = "done" /\ F[w] # <<>> => \E i \in DOMAIN d : d[i] = w

\* The end of the query: what FetchOrderKept is about.
Ended ==
  phase = "done" => /\ \A w \in Workers : pc[w] = "done"
                    /\ result # NULL => result.data = Data(agg)

\* A process that was not merged has its rows in the order of its scan, and the
\* leader those of the others.
OrderInv ==
  /\ fetched \in [Workers -> Seq(Rows)]
  /\ \A w \in Workers : pc[w] # "done" => fetched[w] = Data(state[w])
  /\ InTurn(pc, fetched, merged)
  /\ Has(Data(agg), fetched, merged)
  /\ Ended

\* Only the rows of w differ.
Differ(F, G, w) == \A v \in Workers : v # w => G[v] = F[v]

\* A row that a process fetches before it is merged changes nothing.
LEMMA FetchedLater ==
  ASSUME NEW p, NEW F, NEW G, NEW d, NEW data, NEW w \in Workers,
         InTurn(p, F, d), Has(data, F, d),
         p[w] # "done", Differ(F, G, w)
  PROVE  InTurn(p, G, d) /\ Has(data, G, d)
<1>1. DOMAIN d = 1 .. Len(d) /\ \A i \in 1 .. Len(d) : d[i] \in Workers
  BY DEF InTurn
<1>2. \A i \in 1 .. Len(d) : G[d[i]] = F[d[i]]
  <2>1. \A i \in 1 .. Len(d) : p[d[i]] = "done"
    BY <1>1, Zenon DEF InTurn
  <2> QED BY <1>1, <2>1, Zenon DEF Differ
<1>3. PICK f : Joined(f, F, d) /\ f[Len(d)] = data
  BY Zenon DEF Has
<1>4. Joined(f, G, d)
  BY <1>2, <1>3, Zenon DEF Joined
<1>5. InTurn(p, G, d)
  BY Zenon DEF InTurn, Differ
<1> QED BY <1>3, <1>4, <1>5, Zenon DEF Has

\* The rows of a process that is merged follow those that are there.
LEMMA MergedNext ==
  ASSUME NEW p, NEW q, NEW F, NEW d, NEW data, NEW w \in Workers,
         InTurn(p, F, d), Has(data, F, d),
         p[w] # "done", q[w] = "done", \A v \in Workers : v # w => q[v] = p[v]
  PROVE  InTurn(q, F, Append(d, w)) /\ Has(data \o F[w], F, Append(d, w))
<1> DEFINE e == Append(d, w)
<1>1. /\ d \in Seq(Workers) /\ NoRepeat(d) /\ DOMAIN d = 1 .. Len(d) /\ Len(d) \in Nat
      /\ \A i \in DOMAIN d : d[i] \in Workers /\ d[i] # w /\ p[d[i]] = "done"
  BY DEF InTurn
<1>2. PICK m \in Nat : m = Len(d)
  BY <1>1, Zenon
<1>n. PICK n \in Nat : n = m + 1
  OBVIOUS
<1>3. /\ e \in Seq(Workers) /\ Len(e) = n /\ DOMAIN e = 1 .. n /\ e[n] = w
      /\ \A i \in 1 .. m : e[i] = d[i]
  BY <1>1, <1>2, <1>n
<1>4. /\ n \in 1 .. n /\ n - 1 = m /\ n # 0 /\ m # n /\ m \in 0 .. n
      /\ \A i \in 1 .. n : i \in 0 .. n /\ i - 1 \in 0 .. n /\ i - 1 # n
      /\ \A i \in 1 .. n : i # n => i \in 1 .. m
      /\ \A i \in 1 .. m : i \in 1 .. n
      /\ 0 \in 0 .. n
  BY <1>n
<1> HIDE DEF e
<1>5. NoRepeat(e)
  <2>1. Elems(d) = {d[i] : i \in DOMAIN d}
    BY Zenon DEF Elems
  <2>2. w \notin Elems(d)
    BY <1>1, <2>1, Zenon
  <2> QED BY <1>1, <2>2, AppendNoRepeat, Zenon DEF e
<1>6. InTurn(q, F, e)
  <2>1. ASSUME NEW i \in 1 .. n PROVE q[e[i]] = "done"
    <3>1. CASE i = n
      BY <1>3, <3>1, Zenon
    <3>2. CASE i # n
      <4>1. i \in DOMAIN d /\ e[i] = d[i]
        BY <1>1, <1>2, <1>3, <1>4, <3>2, Zenon
      <4> QED BY <1>1, <4>1, Zenon
    <3> QED BY <3>1, <3>2, Zenon
  <2>2. ASSUME NEW v \in Workers, q[v] = "done", F[v] # <<>>
        PROVE  \E i \in 1 .. n : e[i] = v
    <3>1. CASE v = w
      BY <1>3, <1>4, <3>1, Zenon
    <3>2. CASE v # w
      <4>1. PICK i \in DOMAIN d : d[i] = v
        BY <2>2, <3>2, Zenon DEF InTurn
      <4> QED BY <1>1, <1>2, <1>3, <1>4, <4>1, Zenon
    <3> QED BY <3>1, <3>2, Zenon
  <2> QED BY <1>3, <1>5, <2>1, <2>2, Zenon DEF InTurn
<1>7. PICK f : Joined(f, F, d) /\ f[m] = data
  BY <1>2, Zenon DEF Has
<1> DEFINE g == [i \in 0 .. n |-> IF i = n THEN data \o F[w] ELSE f[i]]
<1>8. g[n] = data \o F[w] /\ \A i \in 0 .. n : i # n => g[i] = f[i]
  BY <1>4, Zenon
<1> HIDE DEF g
<1>9. ASSUME NEW i \in 1 .. n PROVE g[i] = g[i - 1] \o F[e[i]]
  <2>1. g[i - 1] = f[i - 1]
    BY <1>4, <1>8, Zenon
  <2>2. CASE i = n
    BY <1>3, <1>4, <1>7, <1>8, <2>1, <2>2, Zenon
  <2>3. CASE i # n
    <3>1. i \in 1 .. m /\ g[i] = f[i]
      BY <1>4, <1>8, <2>3, Zenon
    <3>2. f[i] = f[i - 1] \o F[d[i]]
      BY <1>2, <1>7, <3>1, Zenon DEF Joined
    <3> QED BY <1>3, <2>1, <3>1, <3>2, Zenon
  <2> QED BY <2>2, <2>3, Zenon
<1>10. g[0] = <<>>
  BY <1>4, <1>7, <1>8, Zenon DEF Joined
<1>11. Joined(g, F, e)
  BY <1>3, <1>9, <1>10, Zenon DEF Joined
<1> QED BY <1>3, <1>6, <1>8, <1>11, Zenon DEF Has, e

\* Joined determines the rows.
LEMMA JoinedOnce ==
  ASSUME NEW f, NEW g, NEW F, NEW d \in Seq(Workers), Joined(f, F, d), Joined(g, F, d)
  PROVE  f[Len(d)] = g[Len(d)]
<1> DEFINE S == {i \in Nat : i <= Len(d) /\ f[i] # g[i]}
<1> SUFFICES ASSUME S # {} PROVE FALSE
  OBVIOUS
<1>1. PICK m \in S : \A k \in S : m <= k
  <2>1. S \subseteq Nat
    OBVIOUS
  <2> HIDE DEF S
  <2> QED BY <2>1, Least, Zenon
<1>2. m \in Nat /\ m <= Len(d) /\ f[m] # g[m] /\ Len(d) \in Nat
  OBVIOUS
<1>3. m # 0
  BY <1>2, Zenon DEF Joined
<1>4. m \in 1 .. Len(d) /\ m - 1 \in Nat /\ m - 1 <= Len(d) /\ ~ (m <= m - 1)
  BY <1>2, <1>3
<1>5. f[m - 1] = g[m - 1]
  BY <1>1, <1>4, Zenon
<1> QED BY <1>2, <1>4, <1>5, Zenon DEF Joined

\* OneAfterAnother puts these rows together.
LEMMA OneAfterAnotherIs ==
  ASSUME NEW data, NEW d \in Seq(Workers), Has(data, fetched, d)
  PROVE  OneAfterAnother(d) = data
<1>1. PICK n \in Nat : n = Len(d)
  OBVIOUS
<1>2. PICK f : Joined(f, fetched, d) /\ f[n] = data
  BY <1>1, Zenon DEF Has
<1>3. /\ 0 \in 0 .. n
      /\ \A i \in 0 .. n : i # 0 => i \in 1 .. n /\ i - 1 \in 0 .. n
      /\ \A i \in 1 .. n : i \in 0 .. n /\ i # 0
  OBVIOUS
<1> DEFINE Is(u) == u = [i \in 0 .. n |-> IF i = 0 THEN <<>> ELSE u[i - 1] \o fetched[d[i]]]
<1>4. \E u : Is(u)
  <2> DEFINE g == [i \in 0 .. n |-> f[i]]
  <2>1. ASSUME NEW i \in 0 .. n
        PROVE  g[i] = IF i = 0 THEN <<>> ELSE g[i - 1] \o fetched[d[i]]
    <3>1. g[i] = f[i] /\ (i # 0 => g[i - 1] = f[i - 1])
      BY <1>3, Zenon
    <3> HIDE DEF g
    <3>2. f[i] = IF i = 0 THEN <<>> ELSE f[i - 1] \o fetched[d[i]]
      BY <1>1, <1>2, <1>3, Zenon DEF Joined
    <3> QED BY <3>1, <3>2, Zenon
  <2>2. g = [i \in 0 .. n |-> g[i]]
    BY Zenon
  <2> HIDE DEF g
  <2>3. Is(g)
    BY <2>1, <2>2, Zenon
  <2> QED BY <2>3, Zenon
<1>5. OneAfterAnother(d) = (CHOOSE u : Is(u))[n]
  BY <1>1, Zenon DEF OneAfterAnother
<1>6. PICK u : Is(u) /\ OneAfterAnother(d) = u[n]
  BY <1>4, <1>5, Zenon
<1>7. Joined(u, fetched, d)
  BY <1>1, <1>3, <1>6, Zenon DEF Joined
<1>8. u[n] = f[n]
  BY <1>1, <1>2, <1>7, JoinedOnce, Zenon
<1> QED BY <1>2, <1>6, <1>8, Zenon

\* A row is appended to those its process has, and its state's data with it.
LEMMA AccumulateData ==
  ASSUME NEW s, NEW r
  PROVE  Accumulate(s, r).data = Append(Data(s), r)
<1>1. \A t : Append1(t, r).data = Append(t.data, r)
  BY DEF Append1
<1>2. FirstState(table[r]).data = <<>>
  BY DEF FirstState
<1>3. CASE s = NULL
  BY <1>1, <1>2, <1>3, Zenon DEF Accumulate, Data
<1>4. CASE s # NULL
  BY <1>1, <1>4, Zenon DEF Accumulate, Data
<1> QED BY <1>3, <1>4

\* A merge appends the rows of the state that arrives.
LEMMA CombineData ==
  ASSUME NEW s1 \in States \cup {NULL}, NEW s2 \in States, s2.nitems > 0
  PROVE  CombineStates(s1, Deserialize(s2)).data = Data(s1) \o s2.data
<1> DEFINE t == Deserialize(s2)
<1>1. t.data = s2.data /\ t.nitems = s2.nitems /\ "data" \in DOMAIN t
  BY DEF Deserialize, States
<1>2. CombineCopy(t).data = t.data
  <2> HIDE DEF t
  <2> QED BY <1>1 DEF CombineCopy
<1> HIDE DEF t
<1>3. s2.data \in Seq(Rows)
  BY DEF States
<1>4. CASE s1 = NULL
  <2>1. Data(s1) = <<>>
    BY <1>4, Zenon DEF Data
  <2>2. <<>> \o s2.data = s2.data
    BY <1>3, ConcatNothing, Zenon
  <2>3. CombineStates(s1, t) = CombineCopy(t)
    BY <1>4, Zenon DEF CombineStates
  <2> QED BY <1>1, <1>2, <2>1, <2>2, <2>3, Zenon DEF t
<1>5. CASE s1 # NULL
  <2>1. CombineStates(s1, t) = CombineAppend(s1, t)
    BY <1>1, <1>5, Zenon DEF CombineStates
  <2>2. CombineAppend(s1, t).data = s1.data \o t.data
    BY Zenon DEF CombineAppend
  <2> QED BY <1>1, <1>5, <2>1, <2>2, Zenon DEF Data, t
<1> QED BY <1>4, <1>5, Zenon

\* A step that takes no row from the scan adds none to the history.
LEMMA FetchedKept ==
  ASSUME OrderNext, unclaimed' = unclaimed
  PROVE  fetched' = fetched
BY DEF OrderNext, Fetching

\* A step that merges no state adds none to the history.
LEMMA MergedKept ==
  ASSUME OrderNext, \A w \in Workers : pc'[w] = pc[w] \/ pc[w] = "scan"
  PROVE  merged' = merged
<1>1. \A w \in Workers : ~ Arrives(w)
  BY DEF Arrives
<1> QED BY <1>1, Zenon DEF OrderNext, Merging

\* Transfn(w, r) adds r to the rows of w.
LEMMA TransfnFetched ==
  ASSUME Inv, OrderNext, NEW w \in Workers, NEW r \in Rows, Transfn(w, r)
  PROVE  fetched' = [fetched EXCEPT ![w] = Append(@, r)]
<1>1. /\ r \in unclaimed /\ unclaimed' = unclaimed \ {r}
      /\ state' = [state EXCEPT ![w] = Accumulate(@, r)]
  BY Zenon DEF Transfn
<1>2. unclaimed' # unclaimed /\ \A q \in unclaimed \ unclaimed' : q = r
  BY <1>1
<1>3. PICK v \in Workers, q \in unclaimed \ unclaimed' :
        state'[v] # state[v] /\ fetched' = [fetched EXCEPT ![v] = Append(@, q)]
  BY <1>2, Zenon DEF OrderNext, Fetching
<1>4. state \in [Workers -> States \cup {NULL}]
  BY Zenon DEF Inv, TypeOK
<1>5. v = w
  BY <1>1, <1>3, <1>4
<1>6. q = r
  BY <1>2, Zenon
<1> QED BY <1>3, <1>5, <1>6, Zenon

\* A process fetches a row.
LEMMA TransfnOrder ==
  ASSUME Inv, OrderInv, OrderNext, NEW w \in Workers, NEW r \in Rows, Transfn(w, r)
  PROVE  OrderInv'
<1>1. /\ fetched \in [Workers -> Seq(Rows)]
      /\ \A v \in Workers : pc[v] # "done" => fetched[v] = Data(state[v])
      /\ InTurn(pc, fetched, merged) /\ Has(Data(agg), fetched, merged)
  BY Zenon DEF OrderInv
<1>2. /\ state' = [state EXCEPT ![w] = Accumulate(@, r)] /\ pc[w] = "scan"
      /\ pc' = pc /\ agg' = agg /\ phase' = phase /\ phase = "run"
      /\ Accepts(state[w], r) /\ r \in unclaimed
  BY Zenon DEF Transfn
<1>3. fetched' = [fetched EXCEPT ![w] = Append(@, r)] /\ merged' = merged
  BY <1>2, TransfnFetched, MergedKept, Zenon
<1>4. /\ StatesOK(state, agg) /\ Partition(unclaimed, state, agg)
      /\ state \in [Workers -> States \cup {NULL}]
      /\ table \in [Rows -> Arrays \cup {NullArray}]
  BY DEF Inv, TypeOK
<1>5. /\ StateOK(state[w]) /\ BitmapInBounds(state[w]) /\ r \notin Held(state[w])
      /\ state[w] \in States \cup {NULL}
  BY <1>2, <1>4 DEF StatesOK, Partition
<1>6. Accumulate(state[w], r) \in States
  BY <1>2, <1>4, <1>5, AccumulateOK, Zenon
<1>7. Data(Accumulate(state[w], r)) = Append(Data(state[w]), r)
  BY <1>6, AccumulateData, NullAssumption, Zenon DEF Data
<1>8. fetched[w] \in Seq(Rows) /\ Append(fetched[w], r) \in Seq(Rows)
  BY <1>1
<1>9. fetched' \in [Workers -> Seq(Rows)]
  BY <1>1, <1>3, <1>8, Zenon
<1>10. /\ fetched'[w] = Append(fetched[w], r)
       /\ \A v \in Workers : v # w => fetched'[v] = fetched[v]
  BY <1>1, <1>3, Zenon
<1>11. /\ state'[w] = Accumulate(state[w], r)
       /\ \A v \in Workers : v # w => state'[v] = state[v]
  BY <1>2, <1>4, Zenon
<1>12. pc[w] # "done" /\ phase # "done"
  BY <1>2
<1>13. \A v \in Workers : pc[v] # "done" => fetched'[v] = Data(state'[v])
  BY <1>1, <1>7, <1>10, <1>11, <1>12, Zenon
<1>14. InTurn(pc, fetched', merged) /\ Has(Data(agg), fetched', merged)
  <2>1. Differ(fetched, fetched', w)
    BY <1>10, Zenon DEF Differ
  <2> QED BY <1>1, <1>12, <2>1, FetchedLater, Zenon
<1> QED BY <1>2, <1>3, <1>9, <1>12, <1>13, <1>14, Zenon DEF OrderInv, Ended

\* The leader merges a state.
LEMMA CombineOrder ==
  ASSUME Inv, OrderInv, OrderNext, NEW w \in Workers, Combine(w)
  PROVE  OrderInv'
<1>1. /\ fetched \in [Workers -> Seq(Rows)]
      /\ \A v \in Workers : pc[v] # "done" => fetched[v] = Data(state[v])
      /\ InTurn(pc, fetched, merged) /\ Has(Data(agg), fetched, merged)
  BY Zenon DEF OrderInv
<1>2. /\ agg' = CombineStates(agg, Deserialize(state[w]))
      /\ state' = [state EXCEPT ![w] = NULL] /\ pc' = [pc EXCEPT ![w] = "done"]
      /\ unclaimed' = unclaimed /\ phase' = phase /\ phase = "run" /\ pc[w] = "sent"
  BY Zenon DEF Combine
<1>3. /\ StatesOK(state, agg) /\ Partition(unclaimed, state, agg)
      /\ Stopped(unclaimed, pc, state)
      /\ state \in [Workers -> States \cup {NULL}] /\ agg \in States \cup {NULL}
      /\ pc \in [Workers -> {"scan", "sent", "done"}]
  BY DEF Inv, TypeOK
<1>4. /\ StateOK(agg) /\ StateOK(state[w]) /\ BitmapInBounds(state[w])
      /\ state[w] \in States /\ state[w] # NULL /\ Held(agg) \cap Held(state[w]) = {}
  BY <1>2, <1>3 DEF StatesOK, Partition, Stopped
<1>5. state[w].nitems > 0
  BY <1>4, Zenon DEF StateOK
<1>6. agg' \in States
  BY <1>2, <1>3, <1>4, CombineOK, Zenon
<1>7. Data(agg') = Data(agg) \o Data(state[w])
  <2>1. agg' # NULL
    BY <1>6, NullAssumption, Zenon
  <2>2. agg'.data = Data(agg) \o state[w].data
    BY <1>2, <1>3, <1>4, <1>5, CombineData, Zenon
  <2> QED BY <1>4, <2>1, <2>2, Zenon DEF Data
<1>8. /\ pc'[w] = "done" /\ \A v \in Workers : v # w => pc'[v] = pc[v]
      /\ \A v \in Workers : v # w => state'[v] = state[v]
  BY <1>2, <1>3, Zenon
<1>9. pc[w] # "done" /\ phase' # "done" /\ "sent" # "done"
  BY <1>2
<1>10. fetched' = fetched
  BY <1>2, FetchedKept, Zenon
<1>11. merged' = Append(merged, w)
  <2>1. Arrives(w) /\ \A v \in Workers : Arrives(v) => v = w
    BY <1>2, <1>8, <1>9, Zenon DEF Arrives
  <2> QED BY <2>1, Zenon DEF OrderNext, Merging
<1>12. InTurn(pc', fetched, merged') /\ Has(Data(agg) \o fetched[w], fetched, merged')
  BY <1>1, <1>8, <1>9, <1>11, MergedNext, Zenon
<1>13. InTurn(pc', fetched', merged') /\ Has(Data(agg'), fetched', merged')
  BY <1>1, <1>7, <1>9, <1>10, <1>12, Zenon
<1>14. \A v \in Workers : pc'[v] # "done" => fetched'[v] = Data(state'[v])
  BY <1>1, <1>8, <1>10, Zenon
<1> QED BY <1>1, <1>9, <1>10, <1>13, <1>14, Zenon DEF OrderInv, Ended

\* A step that moves no row and merges nothing: a process is done without it only
\* when it has no row.
LEMMA OtherOrder ==
  ASSUME OrderInv, UNCHANGED <<state, agg, fetched, merged>>,
         \A v \in Workers : \/ pc'[v] = pc[v]
                            \/ pc[v] = "scan" /\ pc'[v] = "sent"
                            \/ pc[v] = "scan" /\ pc'[v] = "done" /\ state[v] = NULL,
         Ended'
  PROVE  OrderInv'
<1>1. /\ fetched \in [Workers -> Seq(Rows)]
      /\ \A v \in Workers : pc[v] # "done" => fetched[v] = Data(state[v])
      /\ InTurn(pc, fetched, merged) /\ Has(Data(agg), fetched, merged)
  BY Zenon DEF OrderInv
<1>2. "scan" # "done" /\ "sent" # "done"
  OBVIOUS
<1>3. \A v \in Workers : pc[v] = "done" => pc'[v] = "done"
  BY <1>2, Zenon
<1>4. \A v \in Workers : pc'[v] = "done" /\ fetched[v] # <<>> => pc[v] = "done"
  BY <1>1, <1>2, Zenon DEF Data
<1>5. \A i \in DOMAIN merged : merged[i] \in Workers
  BY <1>1 DEF InTurn
<1>6. InTurn(pc', fetched, merged)
  BY <1>1, <1>3, <1>4, <1>5, Zenon DEF InTurn
<1>7. \A v \in Workers : pc'[v] # "done" => fetched[v] = Data(state[v])
  BY <1>1, <1>3, Zenon
<1> QED BY <1>1, <1>6, <1>7, Zenon DEF OrderInv

\* The steps of a process other than these two.
LEMMA ProcessOrder ==
  ASSUME Inv, OrderInv, OrderNext, NEW w \in Workers,
         \/ \E r \in Rows : TransfnError(w, r)
         \/ Serialize(w) \/ SerializeNull(w) \/ NoGroup(w) \/ CombineError(w)
  PROVE  OrderInv'
<1>1. /\ unclaimed' = unclaimed /\ UNCHANGED <<state, agg>>
      /\ phase' \in {"run", "error", "crash"}
      /\ \/ pc' = pc
         \/ pc' = [pc EXCEPT ![w] = "sent"] /\ pc[w] = "scan"
         \/ pc' = [pc EXCEPT ![w] = "done"] /\ pc[w] = "scan" /\ state[w] = NULL
  BY Zenon DEF TransfnError, Serialize, SerializeNull, NoGroup, CombineError
<1>2. pc \in [Workers -> {"scan", "sent", "done"}]
  BY Zenon DEF Inv, TypeOK
<1>3. \A v \in Workers : \/ pc'[v] = pc[v]
                         \/ pc[v] = "scan" /\ pc'[v] = "sent"
                         \/ pc[v] = "scan" /\ pc'[v] = "done" /\ state[v] = NULL
  BY <1>1, <1>2
<1>4. fetched' = fetched /\ merged' = merged
  BY <1>1, <1>3, FetchedKept, MergedKept, Zenon
<1>5. Ended'
  BY <1>1 DEF Ended
<1> QED BY <1>1, <1>3, <1>4, <1>5, OtherOrder, Zenon

\* The result has the leader's rows.
LEMMA FinalfnOrder ==
  ASSUME OrderInv, OrderNext, Finalfn
  PROVE  OrderInv'
<1>1. /\ unclaimed' = unclaimed /\ UNCHANGED <<state, pc, agg>>
      /\ \A w \in Workers : pc[w] = "done"
  BY Zenon DEF Finalfn
<1>2. fetched' = fetched /\ merged' = merged
  BY <1>1, FetchedKept, MergedKept, Zenon
<1>3. Ended'
  <2>1. agg = NULL => result' = NULL
    BY Zenon DEF Finalfn
  <2>2. agg # NULL => result'.data = agg.data
    BY DEF Finalfn
  <2> QED BY <1>1, <2>1, <2>2, Zenon DEF Ended, Data
<1> QED BY <1>1, <1>2, <1>3, OtherOrder, Zenon

\* Every step keeps OrderInv.
LEMMA OrderStep == Inv /\ OrderInv /\ [OrderNext]_orderVars => OrderInv'
<1> SUFFICES ASSUME Inv, OrderInv, [OrderNext]_orderVars PROVE OrderInv'
  OBVIOUS
<1>1. CASE OrderNext
  <2>1. Next
    BY <1>1, Zenon DEF OrderNext
  <2> QED BY <1>1, <2>1, TransfnOrder, CombineOrder, ProcessOrder, FinalfnOrder, Zenon DEF Next
<1>2. CASE UNCHANGED orderVars
  <2>1. UNCHANGED <<state, agg, fetched, merged, pc, phase, result>>
    BY <1>2 DEF orderVars, vars
  <2>2. Ended'
    BY <2>1, Zenon DEF OrderInv, Ended
  <2> QED BY <2>1, <2>2, OtherOrder, Zenon
<1> QED BY <1>1, <1>2, Zenon

\* Whatever the plan does, the result has the rows of each process together and
\* in the order in which its scan returned them.
THEOREM RowsInScanOrder == OrderSpec => []FetchOrderKept
<1>1. OrderInit => Inv /\ OrderInv
  <2> SUFFICES ASSUME OrderInit PROVE Inv /\ OrderInv
    OBVIOUS
  <2>1. Inv
    BY InitInv, Zenon DEF OrderInit
  <2>2. /\ fetched = [w \in Workers |-> <<>>] /\ state = [w \in Workers |-> NULL]
        /\ pc = [w \in Workers |-> "scan"] /\ agg = NULL /\ phase = "run"
        /\ merged = <<>>
    BY Zenon DEF OrderInit, Init
  <2>3. /\ \A S : <<>> \in Seq(S)
        /\ phase # "done" /\ "scan" # "done" /\ 0 \in 0 .. 0 /\ Len(merged) = 0
        /\ (\A i \in DOMAIN merged : FALSE) /\ \A i \in 1 .. 0 : FALSE
    BY <2>2
  <2>4. fetched \in [Workers -> Seq(Rows)] /\ \A w \in Workers : fetched[w] = Data(state[w])
    BY <2>2, <2>3, Zenon DEF Data
  <2>5. InTurn(pc, fetched, merged)
    <3>1. \A w \in Workers : pc[w] # "done"
      BY <2>2, <2>3, Zenon
    <3>2. merged \in Seq(Workers)
      BY <2>2, <2>3, Zenon
    <3> QED BY <2>3, <3>1, <3>2, Zenon DEF InTurn, NoRepeat
  <2>6. Has(Data(agg), fetched, merged)
    <3> DEFINE f == [i \in 0 .. 0 |-> <<>>]
    <3>1. f[0] = <<>>
      BY <2>3, Zenon
    <3> HIDE DEF f
    <3>2. Joined(f, fetched, merged) /\ f[Len(merged)] = Data(agg)
      BY <2>2, <2>3, <3>1, Zenon DEF Joined, Data
    <3> QED BY <3>2, Zenon DEF Has
  <2> QED BY <2>1, <2>3, <2>4, <2>5, <2>6, Zenon DEF OrderInv, Ended
<1>2. Inv /\ [OrderNext]_orderVars => Inv'
  <2>1. [OrderNext]_orderVars => [Next]_vars
    BY DEF OrderNext, orderVars
  <2> QED BY <2>1, StepInv, Zenon
<1>3. OrderInv => FetchOrderKept
  <2> SUFFICES ASSUME OrderInv, phase = "done", result # NULL
               PROVE  /\ result.data = OneAfterAnother(merged) /\ NoRepeat(merged)
                      /\ \A w \in Workers :
                           fetched[w] # <<>> => \E i \in DOMAIN merged : merged[i] = w
    BY Zenon DEF FetchOrderKept, NoRepeat
  <2>1. /\ Has(Data(agg), fetched, merged) /\ result.data = Data(agg)
        /\ InTurn(pc, fetched, merged) /\ \A w \in Workers : pc[w] = "done"
    BY Zenon DEF OrderInv, Ended
  <2>2. OneAfterAnother(merged) = Data(agg)
    BY <2>1, OneAfterAnotherIs, Zenon DEF InTurn
  <2> QED BY <2>1, <2>2, Zenon DEF InTurn
<1> QED BY <1>1, <1>2, <1>3, OrderStep, PTL DEF OrderSpec

-----------------------------------------------------------------------------
(* Shapes and errors *)

\* A state holds some row, all of its rows have the shape it was made for, and
\* the items are as many as its dimensions say.
Shaped(T, s) ==
  s # NULL =>
    /\ Held(s) # {}
    /\ \A r \in Held(s) : T[r] \in Arrays /\ T[r].shape = Tail(s.dims)
    /\ s.nitems = s.dims[1] * Places(Tail(s.dims))

\* ErrorsAsInSerial and ShapeMatchesItems are not inductive: that two states do
\* not fit says something about the table only because of what they hold.
ShapeInv ==
  /\ Shaped(table, agg)
  /\ \A w \in Workers : Shaped(table, state[w])
  /\ ErrorsAsInSerial
  /\ ShapeMatchesItems

\* The first dimension counts, the others are the shape.
LEMMA FirstAndTail ==
  ASSUME NEW q \in Seq(Nat), NEW k \in Nat, Len(q) \in {2, 3}
  PROVE  /\ [q EXCEPT ![1] = @ + k][1] = q[1] + k
         /\ Tail([q EXCEPT ![1] = @ + k]) = Tail(q)
         /\ q[1] \in Nat
         /\ Tail(q) \in Seq(Nat) /\ Len(Tail(q)) \in {1, 2}
<1> DEFINE p == [q EXCEPT ![1] = @ + k]
<1>1. q \in [1 .. Len(q) -> Nat] /\ 1 \in 1 .. Len(q) /\ Len(q) \in Nat
  OBVIOUS
<1>2. p \in Seq(Nat) /\ Len(p) = Len(q)
  BY AddFirst, Zenon
<1>3. p[1] = q[1] + k /\ \A i \in 2 .. Len(q) : p[i] = q[i]
  BY <1>1
<1> HIDE DEF p
<1>4. q # <<>> /\ p # <<>>
  BY <1>1, <1>2
<1>5. /\ Tail(q) \in Seq(Nat) /\ Len(Tail(q)) = Len(q) - 1
      /\ \A i \in 1 .. Len(Tail(q)) : Tail(q)[i] = q[i + 1]
      /\ Tail(p) \in Seq(Nat) /\ Len(Tail(p)) = Len(p) - 1
      /\ \A i \in 1 .. Len(Tail(p)) : Tail(p)[i] = p[i + 1]
  BY <1>2, <1>4, TailIs
<1>6. ASSUME NEW i \in 1 .. Len(Tail(q))
      PROVE  Tail(p)[i] = Tail(q)[i]
  <2>1. i + 1 \in 2 .. Len(q) /\ i \in 1 .. Len(Tail(p))
    BY <1>1, <1>2, <1>5
  <2>2. Tail(p)[i] = p[i + 1] /\ Tail(q)[i] = q[i + 1] /\ p[i + 1] = q[i + 1]
    BY <1>3, <1>5, <2>1, Zenon
  <2> QED BY <2>2, Zenon
<1>7. Tail(p) = Tail(q)
  BY <1>2, <1>5, <1>6, SameElements, Zenon
<1>8. Len(Tail(q)) \in {1, 2}
  BY <1>5
<1>9. q[1] \in Nat
  BY <1>1
<1> QED BY <1>3, <1>5, <1>7, <1>8, <1>9, Zenon DEF p

\* A shape with a zero in front.
LEMMA ZeroAndTail ==
  ASSUME NEW q \in Seq(Nat)
  PROVE  (<<0>> \o q)[1] = 0 /\ Tail(<<0>> \o q) = q
<1> DEFINE p == <<0>> \o q
<1>1. /\ p \in Seq(Nat) /\ Len(p) = Len(q) + 1 /\ p[1] = 0 /\ Len(q) \in Nat
      /\ \A i \in 1 .. Len(q) : p[i + 1] = q[i]
  OBVIOUS
<1> HIDE DEF p
<1>2. p # <<>>
  BY <1>1
<1>3. /\ Tail(p) \in Seq(Nat) /\ Len(Tail(p)) = Len(p) - 1
      /\ \A i \in 1 .. Len(Tail(p)) : Tail(p)[i] = p[i + 1]
  BY <1>1, <1>2, TailIs
<1>4. Len(Tail(p)) = Len(q)
  BY <1>1, <1>3
<1>5. \A i \in 1 .. Len(q) : Tail(p)[i] = q[i]
  BY <1>1, <1>3, <1>4
<1>6. Tail(p) = q
  BY <1>3, <1>4, <1>5, SameElements, Zenon
<1> QED BY <1>1, <1>6 DEF p

\* One or two dimensions have a product.
LEMMA PlacesType ==
  ASSUME NEW q \in Seq(Nat), Len(q) \in {1, 2}
  PROVE  Places(q) \in Nat
  BY DEF Places

\* Stacks of n and of m arrays with k elements each.
LEMMA Stack ==
  ASSUME NEW n \in Nat, NEW m \in Nat, NEW k \in Nat
  PROVE  (n + m) * k = n * k + m * k
  OBVIOUS

\* One array more.
LEMMA AppendShaped ==
  ASSUME NEW s \in States, Len(s.dims) \in {2, 3}, NEW r \in Rows,
         table[r] \in Arrays, table[r].shape = Tail(s.dims),
         s.nitems = s.dims[1] * Places(Tail(s.dims))
  PROVE  /\ Tail(Append1(s, r).dims) = Tail(s.dims)
         /\ Append1(s, r).nitems
              = Append1(s, r).dims[1] * Places(Tail(Append1(s, r).dims))
<1> DEFINE t == Append1(s, r)
           q == s.dims
           k == Places(Tail(q))
<1>1. q \in Seq(Nat) /\ Len(q) \in {2, 3}
  BY DEF States
<1>2. t.dims = [q EXCEPT ![1] = @ + 1] /\ t.nitems = s.nitems + table[r].items
  BY Zenon DEF Append1
<1>3. table[r].shape = Tail(q) /\ s.nitems = q[1] * k
  OBVIOUS
<1> HIDE DEF t, q
<1>4. /\ t.dims[1] = q[1] + 1 /\ Tail(t.dims) = Tail(q) /\ q[1] \in Nat
      /\ Tail(q) \in Seq(Nat) /\ Len(Tail(q)) \in {1, 2}
  BY <1>1, <1>2, FirstAndTail
<1>5. k \in Nat
  BY <1>4, PlacesType, Zenon
<1>6. Tail(q) # <<>>
  BY <1>1, DimsLength, Zenon
<1>7. table[r].items = k
  BY <1>3, <1>6, ShapeAssumption, Zenon
<1> HIDE DEF k
<1>8. t.nitems = q[1] * k + 1 * k
  BY <1>2, <1>3, <1>5, <1>7
<1>9. t.nitems = t.dims[1] * k
  BY <1>4, <1>5, <1>8, Stack
<1> QED BY <1>4, <1>9 DEF t, q, k

\* accumArrayResultArr compares the shape of each array with the state's.
LEMMA AccumulateShaped ==
  ASSUME NEW s \in States \cup {NULL}, NEW r \in Rows,
         table \in [Rows -> Arrays \cup {NullArray}],
         StateOK(s), BitmapInBounds(s), Accepts(s, r), r \notin Held(s),
         Shaped(table, s)
  PROVE  Shaped(table, Accumulate(s, r))
<1> DEFINE t == Accumulate(s, r)
<1>1. Held(t) = Held(s) \cup {r}
  BY AccumulateOK
<1>2. table[r] \in Arrays
  BY DEF Accepts
<1>3. ASSUME NEW u \in States, Len(u.dims) \in {2, 3}, t = Append1(u, r),
             table[r].shape = Tail(u.dims), u.nitems = u.dims[1] * Places(Tail(u.dims)),
             \A x \in Held(s) : table[x] \in Arrays /\ table[x].shape = Tail(u.dims)
      PROVE  Shaped(table, t)
  <2>1. Tail(t.dims) = Tail(u.dims) /\ t.nitems = t.dims[1] * Places(Tail(t.dims))
    BY <1>2, <1>3, AppendShaped, Zenon
  <2> HIDE DEF t
  <2> QED BY <1>1, <1>2, <1>3, <2>1 DEF Shaped
<1>4. CASE s # NULL
  <2>1. s \in States /\ Len(s.dims) \in {2, 3}
    BY <1>4 DEF StateOK
  <2>2. t = Append1(s, r)
    BY <1>4 DEF Accumulate
  <2>3. table[r].shape = Tail(s.dims)
    BY <1>4 DEF Accepts
  <2>4. /\ s.nitems = s.dims[1] * Places(Tail(s.dims))
        /\ \A x \in Held(s) : table[x] \in Arrays /\ table[x].shape = Tail(s.dims)
    BY <1>4 DEF Shaped
  <2> QED BY <1>3, <2>1, <2>2, <2>3, <2>4, Zenon
<1>5. CASE s = NULL
  <2> DEFINE u == FirstState(table[r])
             q == table[r].shape
             n == NextPower2(Max2(MinBytes, table[r].nbytes + 1))
  <2>1. q # <<>>
    BY <1>5 DEF Accepts
  <2>2. q \in Seq(Nat) /\ Len(q) <= 2 /\ table[r].nbytes \in Nat
    BY <1>2, ArrayType
  <2>3. n \in Nat
    <3>1. Max2(MinBytes, table[r].nbytes + 1) \in Nat
      BY <2>2, SizeAssumption DEF Max2
    <3> QED BY <3>1, NextPower2Type
  <2>4. u = [dims |-> <<0>> \o q, data |-> <<>>, nbytes |-> 0, abytes |-> n,
             cap |-> n, nitems |-> 0, aitems |-> 0, nullbitmap |-> <<>>]
    BY Zenon DEF FirstState
  <2>5. t = Append1(u, r)
    BY <1>5 DEF Accumulate
  <2>6. table[r].shape = q /\ Held(s) = {}
    BY <1>5 DEF Held
  <2> HIDE DEF u, q, n, t
  <2>7. <<0>> \o q \in Seq(Nat) /\ Len(<<0>> \o q) = Len(q) + 1 /\ Len(q) >= 1
    BY <2>1, <2>2, DimsLength
  <2>8. u \in States
    <3> DEFINE p == <<0>> \o q
    <3>1. p \in Seq(Nat) /\ u = [dims |-> p, data |-> <<>>, nbytes |-> 0, abytes |-> n,
             cap |-> n, nitems |-> 0, aitems |-> 0, nullbitmap |-> <<>>]
      BY <2>4, <2>7, Zenon
    <3> HIDE DEF p
    <3> QED BY <2>3, <3>1 DEF States
  <2>9. (<<0>> \o q)[1] = 0 /\ Tail(<<0>> \o q) = q
    BY <2>2, ZeroAndTail
  <2>10. u.dims[1] = 0 /\ Tail(u.dims) = q /\ u.nitems = 0 /\ Len(u.dims) = Len(q) + 1
    BY <2>4, <2>7, <2>9, Zenon
  <2>11. Len(q) \in {1, 2} /\ Len(q) + 1 \in {2, 3}
    <3> DEFINE k == Len(q)
    <3>1. k \in Nat /\ k <= 2 /\ k >= 1
      BY <2>2, <2>7
    <3> HIDE DEF k
    <3>2. k \in {1, 2} /\ k + 1 \in {2, 3}
      BY <3>1
    <3> QED BY <3>2 DEF k
  <2>12. Len(u.dims) \in {2, 3}
    BY <2>10, <2>11, Zenon
  <2>13. Places(q) \in Nat
    BY <2>2, <2>11, PlacesType
  <2>14. u.nitems = u.dims[1] * Places(Tail(u.dims))
    <3>1. \A k \in Nat : 0 = 0 * k
      OBVIOUS
    <3> QED BY <2>10, <2>13, <3>1, Zenon
  <2>15. \A x \in Held(s) : table[x] \in Arrays /\ table[x].shape = Tail(u.dims)
    BY <2>6
  <2>16. table[r].shape = Tail(u.dims)
    BY <2>6, <2>10, Zenon
  <2>17. Shaped(table, t)
    BY <1>3, <2>5, <2>8, <2>12, <2>14, <2>15, <2>16, Zenon
  <2> QED BY <2>17 DEF t
<1> QED BY <1>4, <1>5

\* array_2d_agg_combine compares the shapes of the two states.
LEMMA CombineShaped ==
  ASSUME NEW s1 \in States \cup {NULL}, NEW s2 \in States,
         StateOK(s1), StateOK(s2), BitmapInBounds(s2), Held(s1) \cap Held(s2) = {},
         s1 # NULL => Compatible(s1, s2),
         Shaped(table, s1), Shaped(table, s2)
  PROVE  Shaped(table, CombineStates(s1, Deserialize(s2)))
<1> DEFINE d == Deserialize(s2)
           t == CombineStates(s1, d)
<1>1. s2 # NULL
  BY NullAssumption
<1>2. Held(t) = Held(s1) \cup Held(s2)
  BY CombineOK
<1>3. /\ Held(s2) # {} /\ s2.nitems = s2.dims[1] * Places(Tail(s2.dims))
      /\ \A r \in Held(s2) : table[r] \in Arrays /\ table[r].shape = Tail(s2.dims)
  BY <1>1 DEF Shaped
<1>4. s2.nitems > 0 /\ Len(s2.dims) \in {2, 3}
  BY <1>1 DEF StateOK
<1>5. d.nitems = s2.nitems /\ d.dims = s2.dims
  BY DEF Deserialize, States
<1>6. CASE s1 = NULL
  <2>1. t = [d EXCEPT !.cap = d.abytes]
    BY <1>6 DEF CombineStates, CombineCopy
  <2>2. t.nitems = s2.nitems /\ t.dims = s2.dims
    BY <1>5, <2>1, Zenon DEF Deserialize, States
  <2>3. Held(s1) = {}
    BY <1>6 DEF Held
  <2> HIDE DEF t
  <2>4. Shaped(table, t)
    BY <1>2, <1>3, <2>2, <2>3 DEF Shaped
  <2> QED BY <2>4 DEF t
<1>7. CASE s1 # NULL
  <2>1. t = CombineAppend(s1, d)
    BY <1>4, <1>5, <1>7 DEF CombineStates
  <2> HIDE DEF d, t
  <2>2. t.dims = [s1.dims EXCEPT ![1] = @ + s2.dims[1]] /\ t.nitems = s1.nitems + s2.nitems
    <3>1. t.dims = [s1.dims EXCEPT ![1] = @ + d.dims[1]] /\ t.nitems = s1.nitems + d.nitems
      BY <2>1, Zenon DEF CombineAppend
    <3> QED BY <1>5, <3>1, Zenon
  <2>3. s1 \in States /\ Len(s1.dims) \in {2, 3}
    BY <1>7 DEF StateOK
  <2>4. /\ Held(s1) # {} /\ s1.nitems = s1.dims[1] * Places(Tail(s1.dims))
        /\ \A r \in Held(s1) : table[r] \in Arrays /\ table[r].shape = Tail(s1.dims)
    BY <1>7, Zenon DEF Shaped
  <2>5. Tail(s1.dims) = Tail(s2.dims)
    BY <1>7 DEF Compatible
  <2> DEFINE q1 == s1.dims
             q2 == s2.dims
             k == Places(Tail(q1))
  <2>6. q1 \in Seq(Nat) /\ Len(q1) \in {2, 3} /\ q2 \in Seq(Nat) /\ Len(q2) \in {2, 3}
    BY <1>4, <2>3, Zenon DEF States
  <2>7. t.dims = [q1 EXCEPT ![1] = @ + q2[1]]
    BY <2>2
  <2>8. t.nitems = q1[1] * k + q2[1] * k
    BY <1>3, <2>2, <2>4, <2>5, Zenon
  <2> HIDE DEF q1, q2
  <2>9. q2[1] \in Nat
    BY <2>6, FirstAndTail
  <2>10. /\ t.dims[1] = q1[1] + q2[1] /\ Tail(t.dims) = Tail(q1) /\ q1[1] \in Nat
         /\ Tail(q1) \in Seq(Nat) /\ Len(Tail(q1)) \in {1, 2}
    BY <2>6, <2>7, <2>9, FirstAndTail
  <2>11. k \in Nat
    BY <2>10, PlacesType, Zenon
  <2> HIDE DEF k
  <2>12. t.nitems = t.dims[1] * k
    BY <2>8, <2>9, <2>10, <2>11, Stack
  <2>13. Tail(t.dims) = Tail(s1.dims) /\ t.nitems = t.dims[1] * Places(Tail(t.dims))
    BY <2>10, <2>12 DEF q1, k
  <2>14. Shaped(table, t)
    BY <1>2, <1>3, <2>4, <2>5, <2>13, Zenon DEF Shaped
  <2> QED BY <2>14 DEF t, d
<1> QED BY <1>6, <1>7

\* The dimensions makeAgg2dResultArr computes have room for the items.
LEMMA ResultPlaces ==
  ASSUME NEW s, s.dims \in Seq(Nat), Len(s.dims) \in {2, 3}
  PROVE  Places(ResultDims(s)) = s.dims[1] * Places(Tail(s.dims))
<1> DEFINE q == s.dims
<1>1. q \in Seq(Nat) /\ Len(q) \in {2, 3}
  OBVIOUS
<1>2. ResultDims(s)
        = SubSeq(<<q[1] * q[2], IF Len(q) > 2 THEN q[3] ELSE 0>>, 1, Len(q) - 1)
  BY DEF ResultDims
<1> HIDE DEF q
<1>3. q # <<>> /\ Len(q) \in Nat
  BY <1>1
<1>4. /\ Len(Tail(q)) = Len(q) - 1 /\ Tail(q)[1] = q[2]
      /\ Len(q) = 3 => Tail(q)[2] = q[3]
  BY <1>1, <1>3, TailIs
<1>5. q[1] \in Nat /\ q[2] \in Nat /\ (Len(q) = 3 => q[3] \in Nat)
  BY <1>1
<1>6. ASSUME NEW a, NEW b
      PROVE  /\ Len(SubSeq(<<a, b>>, 1, 1)) = 1 /\ SubSeq(<<a, b>>, 1, 1)[1] = a
             /\ Len(SubSeq(<<a, b>>, 1, 2)) = 2 /\ SubSeq(<<a, b>>, 1, 2)[1] = a
             /\ SubSeq(<<a, b>>, 1, 2)[2] = b
  BY SubSeqPair, Zenon
<1>7. CASE Len(q) = 2
  <2>1. ResultDims(s) = SubSeq(<<q[1] * q[2], 0>>, 1, 1)
    BY <1>2, <1>7
  <2>2. Places(ResultDims(s)) = q[1] * q[2]
    BY <1>6, <2>1 DEF Places
  <2>3. 2 - 1 = 1
    OBVIOUS
  <2>4. Places(Tail(q)) = q[2]
    BY <1>4, <1>7, <2>3, Zenon DEF Places
  <2> QED BY <2>2, <2>4 DEF q
<1>8. CASE Len(q) = 3
  <2>1. ResultDims(s) = SubSeq(<<q[1] * q[2], q[3]>>, 1, 2)
    BY <1>2, <1>8
  <2>2. Places(ResultDims(s)) = (q[1] * q[2]) * q[3]
    BY <1>6, <2>1 DEF Places
  <2>3. 3 - 1 # 1
    OBVIOUS
  <2>4. Places(Tail(q)) = q[2] * q[3]
    BY <1>4, <1>8, <2>3, Zenon DEF Places
  <2>5. ASSUME NEW a \in Nat, NEW b \in Nat, NEW c \in Nat
        PROVE  (a * b) * c = a * (b * c)
    OBVIOUS
  <2> QED BY <1>5, <1>8, <2>2, <2>4, <2>5 DEF q
<1> QED BY <1>1, <1>7, <1>8 DEF q

\* ShapeInv after a step, from what the step makes of the variables.
LEMMA NextShape ==
  ASSUME table' = table, Shaped(table, agg'),
         \A w \in Workers : Shaped(table, state'[w]),
         ErrorsAsInSerial', ShapeMatchesItems'
  PROVE  ShapeInv'
<1>1. Shaped(table, agg)'
  BY DEF Shaped, Held
<1>2. (\A w \in Workers : Shaped(table, state[w]))'
  BY DEF Shaped, Held
<1> QED BY <1>1, <1>2 DEF ShapeInv

\* Two rows of different shapes, in the table or in two places, are what a
\* serial aggregation fails on.
LEMMA TwoShapes ==
  ASSUME NEW r \in Rows, NEW q \in Rows, table[r].shape # table[q].shape
  PROVE  Incompatible
  BY DEF Incompatible

\* The rows a state holds are rows of the table.
LEMMA HeldRows ==
  ASSUME NEW s \in States \cup {NULL} PROVE Held(s) \subseteq Rows
<1>1. CASE s \in States
  <2>1. s.data \in Seq(Rows)
    BY <1>1 DEF States
  <2> QED BY <1>1, <2>1, NullAssumption DEF Held, Elems
<1> QED BY <1>1 DEF Held

\* An error of accumArrayResultArr is an error of the table.
LEMMA TransfnErrorShape ==
  ASSUME Inv, ShapeInv, NEW w \in Workers, NEW r \in Rows, TransfnError(w, r)
  PROVE  Incompatible
<1> DEFINE s == state[w]
<1>1. ~Accepts(s, r)
  BY DEF TransfnError
<1>2. s \in States \cup {NULL} /\ Shaped(table, s) /\ table \in [Rows -> Arrays \cup {NullArray}]
  BY DEF Inv, TypeOK, ShapeInv
<1> HIDE DEF s
<1>3. CASE table[r] = NullArray
  BY <1>3 DEF Incompatible
<1>4. CASE table[r] # NullArray /\ s = NULL
  <2>1. table[r].shape \in Seq(Nat) /\ Len(table[r].shape) <= 2
    BY <1>2, <1>4, ArrayType
  <2>2. Len(table[r].shape) + 1 <= MAXDIM
    BY <2>1, ShapeAssumption
  <2>3. table[r].shape = <<>>
    BY <1>1, <1>4, <2>2 DEF Accepts
  <2> QED BY <2>3 DEF Incompatible
<1>5. CASE table[r] # NullArray /\ s # NULL
  <2>1. PICK q \in Held(s) : table[q].shape = Tail(s.dims)
    BY <1>2, <1>5 DEF Shaped
  <2>2. table[q].shape # table[r].shape
    BY <1>1, <1>5, <2>1 DEF Accepts
  <2>3. q \in Rows
    BY <1>2, HeldRows
  <2> QED BY <2>2, <2>3, TwoShapes
<1> QED BY <1>3, <1>4, <1>5

\* An error of array_2d_agg_combine is an error of the table.
LEMMA CombineErrorShape ==
  ASSUME Inv, ShapeInv, NEW w \in Workers, CombineError(w)
  PROVE  Incompatible
<1> DEFINE s == state[w]
<1>1. agg # NULL /\ Tail(agg.dims) # Tail(s.dims) /\ pc[w] = "sent"
  BY DEF CombineError, Compatible
<1>2. /\ s \in States \cup {NULL} /\ Shaped(table, s) /\ s # NULL
      /\ agg \in States \cup {NULL} /\ Shaped(table, agg)
  BY <1>1 DEF Inv, TypeOK, ShapeInv, Stopped
<1> HIDE DEF s
<1>3. PICK q \in Held(agg) : table[q].shape = Tail(agg.dims)
  BY <1>1, <1>2, Zenon DEF Shaped
<1>4. PICK r \in Held(s) : table[r].shape = Tail(s.dims)
  BY <1>2, Zenon DEF Shaped
<1>5. q \in Rows /\ r \in Rows
  BY <1>2, HeldRows
<1> QED BY <1>1, <1>3, <1>4, <1>5, TwoShapes

\* The result holds all rows, so they have one shape.
LEMMA FinalfnShape ==
  ASSUME Inv, ShapeInv, Finalfn
  PROVE  ~Incompatible /\ ShapeMatchesItems'
<1>1. /\ TypeOK /\ StatesOK(state, agg) /\ Partition(unclaimed, state, agg)
      /\ Stopped(unclaimed, pc, state) /\ Shaped(table, agg)
  BY DEF Inv, ShapeInv
<1>2. \A w \in Workers : pc[w] = "done"
  BY DEF Finalfn
<1>3. unclaimed = {} /\ \A w \in Workers : Held(state[w]) = {}
  BY <1>1, <1>2, ProcessAssumption DEF Stopped, Held
<1>4. Rows \subseteq Held(agg)
  BY <1>1, <1>3 DEF Partition
<1>5. CASE agg = NULL
  <2>1. Rows = {}
    BY <1>4, <1>5 DEF Held
  <2>2. ~Incompatible
    BY <2>1 DEF Incompatible
  <2>3. result' = NULL
    BY <1>5 DEF Finalfn
  <2> QED BY <2>2, <2>3 DEF ShapeMatchesItems
<1>6. CASE agg # NULL
  <2>1. /\ agg \in States /\ agg.dims \in Seq(Nat) /\ Len(agg.dims) \in {2, 3}
    BY <1>1, <1>6, Zenon DEF TypeOK, StatesOK, StateOK, States
  <2>2. /\ \A r \in Rows : table[r] \in Arrays /\ table[r].shape = Tail(agg.dims)
        /\ agg.nitems = agg.dims[1] * Places(Tail(agg.dims))
    BY <1>1, <1>4, <1>6, Zenon DEF Shaped
  <2>3. Tail(agg.dims) # <<>>
    BY <2>1, DimsLength, Zenon
  <2>4. ~Incompatible
    BY <2>2, <2>3, ArraysAssumption, Zenon DEF Incompatible
  <2>5. result' = [dims |-> ResultDims(agg), data |-> agg.data,
                   nitems |-> agg.nitems,
                   bits |-> IF agg.nullbitmap = <<>> THEN <<>>
                            ELSE Repalloc(agg.nullbitmap, agg.nitems)]
    BY <1>6, Zenon DEF Finalfn
  <2>6. result'.nitems = agg.nitems /\ result'.dims = ResultDims(agg)
    BY <2>5
  <2>7. Places(ResultDims(agg)) = agg.dims[1] * Places(Tail(agg.dims))
    BY <2>1, ResultPlaces
  <2>8. result'.nitems = Places(result'.dims)
    BY <2>2, <2>6, <2>7
  <2> QED BY <2>4, <2>8, Zenon DEF ShapeMatchesItems, Places
<1> QED BY <1>5, <1>6

\* Every step keeps ShapeInv.
LEMMA ShapeStep == Inv /\ ShapeInv /\ [Next]_vars => ShapeInv'
<1> SUFFICES ASSUME Inv, ShapeInv, [Next]_vars PROVE ShapeInv'
  OBVIOUS
<1>1. /\ TypeOK /\ StatesOK(state, agg) /\ Partition(unclaimed, state, agg)
      /\ Stopped(unclaimed, pc, state)
  BY DEF Inv
<1>2. /\ Shaped(table, agg) /\ \A w \in Workers : Shaped(table, state[w])
      /\ ErrorsAsInSerial /\ ShapeMatchesItems
  BY DEF ShapeInv
<1>3. Shaped(table, NULL)
  BY DEF Shaped
<1>4. /\ state \in [Workers -> States \cup {NULL}] /\ agg \in States \cup {NULL}
      /\ table \in [Rows -> Arrays \cup {NullArray}]
  BY <1>1 DEF TypeOK
<1>5. ASSUME UNCHANGED result PROVE ShapeMatchesItems'
  BY <1>2, <1>5 DEF ShapeMatchesItems
<1>6. ASSUME NEW w \in Workers, NEW r \in Rows, Transfn(w, r) PROVE ShapeInv'
  <2>1. /\ UNCHANGED <<table, agg, phase, result>> /\ phase = "run"
        /\ state' = [state EXCEPT ![w] = Accumulate(@, r)]
        /\ r \in unclaimed /\ Accepts(state[w], r)
    BY <1>6 DEF Transfn
  <2>2. StateOK(state[w]) /\ BitmapInBounds(state[w]) /\ r \notin Held(state[w])
    BY <1>1, <2>1 DEF StatesOK, Partition
  <2>3. Shaped(table, Accumulate(state[w], r))
    BY <1>2, <1>4, <2>1, <2>2, AccumulateShaped
  <2>4. \A v \in Workers : Shaped(table, state'[v])
    BY <1>2, <1>4, <2>1, <2>3
  <2>5. ErrorsAsInSerial'
    BY <2>1 DEF ErrorsAsInSerial
  <2> QED BY <1>2, <1>5, <2>1, <2>4, <2>5, NextShape
<1>7. ASSUME NEW w \in Workers, Combine(w) PROVE ShapeInv'
  <2>1. /\ UNCHANGED <<table, phase, result>> /\ phase = "run" /\ pc[w] = "sent"
        /\ state' = [state EXCEPT ![w] = NULL]
        /\ agg' = CombineStates(agg, Deserialize(state[w]))
        /\ agg # NULL => Compatible(agg, state[w])
    BY <1>7 DEF Combine
  <2>2. /\ StateOK(agg) /\ StateOK(state[w]) /\ BitmapInBounds(state[w])
        /\ state[w] \in States /\ Held(agg) \cap Held(state[w]) = {}
    BY <1>1, <1>4, <2>1 DEF StatesOK, Partition, Stopped
  <2>3. Shaped(table, agg')
    BY <1>2, <1>4, <2>1, <2>2, CombineShaped
  <2>4. \A v \in Workers : Shaped(table, state'[v])
    BY <1>2, <1>3, <1>4, <2>1
  <2>5. ErrorsAsInSerial'
    BY <2>1 DEF ErrorsAsInSerial
  <2> QED BY <1>5, <2>1, <2>3, <2>4, <2>5, NextShape, Zenon
<1>8. ASSUME NEW w \in Workers, (\E r \in Rows : TransfnError(w, r)) \/ CombineError(w)
      PROVE  ShapeInv'
  <2>1. UNCHANGED <<table, state, agg, result>> /\ phase' = "error"
    BY <1>8 DEF TransfnError, CombineError
  <2>2. Incompatible
    BY <1>8, TransfnErrorShape, CombineErrorShape
  <2>3. ErrorsAsInSerial'
    BY <2>1, <2>2 DEF ErrorsAsInSerial, Incompatible
  <2> QED BY <1>2, <1>5, <2>1, <2>3, NextShape
<1>9. ASSUME NEW w \in Workers, Serialize(w) \/ SerializeNull(w) \/ NoGroup(w)
      PROVE  ShapeInv'
  <2>1. UNCHANGED <<table, state, agg, result>> /\ phase' \in {"run", "crash"}
    BY <1>9 DEF Serialize, SerializeNull, NoGroup
  <2>2. ErrorsAsInSerial'
    BY <2>1 DEF ErrorsAsInSerial
  <2> QED BY <1>2, <1>5, <2>1, <2>2, NextShape
<1>10. CASE Finalfn
  <2>1. UNCHANGED <<table, state, agg>> /\ phase' = "done"
    BY <1>10 DEF Finalfn
  <2>2. ~Incompatible /\ ShapeMatchesItems'
    BY <1>10, FinalfnShape
  <2>3. ErrorsAsInSerial'
    BY <2>1, <2>2 DEF ErrorsAsInSerial, Incompatible
  <2> QED BY <1>2, <2>1, <2>2, <2>3, NextShape
<1>11. CASE UNCHANGED vars
  <2>1. UNCHANGED <<table, state, agg, phase, result>>
    BY <1>11 DEF vars
  <2>2. ErrorsAsInSerial'
    BY <1>2, <2>1 DEF ErrorsAsInSerial, Incompatible
  <2> QED BY <1>2, <1>5, <2>1, <2>2, NextShape
<1> QED BY <1>6, <1>7, <1>8, <1>9, <1>10, <1>11, Zenon DEF Next

\* Every reachable state is shaped as its rows are.
LEMMA ShapeHolds == Spec => []ShapeInv
<1>1. Init => ShapeInv
  BY Zenon DEF Init, ShapeInv, Shaped, ErrorsAsInSerial, ShapeMatchesItems
<1> QED BY <1>1, ShapeStep, InvHolds, PTL DEF Spec

\* A parallel aggregation raises the errors of accumArrayResultArr and of
\* array_2d_agg_combine for exactly the tables a serial one fails on.
THEOREM ErrorsNeedNoPlan == Spec => []ErrorsAsInSerial
<1>1. ShapeInv => ErrorsAsInSerial
  BY DEF ShapeInv
<1> QED BY <1>1, ShapeHolds, PTL

\* The dimensions of the result have as many places as it has items, however
\* many rows there are and however they are split.
THEOREM ResultShape == Spec => []ShapeMatchesItems
<1>1. ShapeInv => ShapeMatchesItems
  BY DEF ShapeInv
<1> QED BY <1>1, ShapeHolds, PTL

-----------------------------------------------------------------------------
(* Null bitmaps *)

\* f has the bits of the first rows of data.
IsBits(f, T, data, n) ==
  f = [i \in 0 .. n |-> IF i = 0 THEN <<>> ELSE f[i - 1] \o ItemBits(T[data[i]])]

\* They can be put together for any number of rows.
LEMMA BitsExist ==
  ASSUME NEW T, NEW data, NEW n \in Nat
  PROVE  \E f : IsBits(f, T, data, n)
<1> DEFINE S == {m \in Nat : ~ \E f : IsBits(f, T, data, m)}
<1> SUFFICES ASSUME S # {} PROVE FALSE
  OBVIOUS
<1>1. PICK m \in S : \A k \in S : m <= k
  <2>1. S \subseteq Nat
    OBVIOUS
  <2> HIDE DEF S
  <2> QED BY <2>1, Least, Zenon
<1>2. m \in Nat /\ ~ \E f : IsBits(f, T, data, m)
  OBVIOUS
<1>3. CASE m = 0
  <2> DEFINE f == [i \in 0 .. m |-> <<>>]
  <2>1. \A i \in 0 .. m : i = 0
    BY <1>3
  <2>2. IsBits(f, T, data, m)
    BY <2>1, Zenon DEF IsBits
  <2> QED BY <1>2, <2>2, Zenon
<1>4. CASE m # 0
  <2>1. m - 1 \in Nat /\ ~ (m <= m - 1)
    BY <1>2, <1>4
  <2>2. PICK f : IsBits(f, T, data, m - 1)
    BY <1>1, <2>1, Zenon
  <2> DEFINE g == [i \in 0 .. m |-> IF i = m THEN f[m - 1] \o ItemBits(T[data[m]]) ELSE f[i]]
  <2>3. ASSUME NEW i \in 0 .. m
        PROVE  g[i] = IF i = 0 THEN <<>> ELSE g[i - 1] \o ItemBits(T[data[i]])
    <3>1. CASE i = m
      <4>1. m - 1 \in 0 .. m /\ m - 1 # m
        BY <2>1
      <4>2. g[m - 1] = f[m - 1]
        BY <4>1, Zenon
      <4> QED BY <1>4, <3>1, <4>2, Zenon
    <3>2. CASE i # m
      <4>1. i \in 0 .. (m - 1) /\ (i # 0 => i - 1 \in 0 .. m /\ i - 1 # m)
        BY <1>2, <3>2
      <4>2. f[i] = IF i = 0 THEN <<>> ELSE f[i - 1] \o ItemBits(T[data[i]])
        BY <2>2, <4>1, Zenon DEF IsBits
      <4>3. i # 0 => g[i - 1] = f[i - 1]
        BY <4>1, Zenon
      <4>4. g[i] = f[i]
        BY <3>2, Zenon
      <4> HIDE DEF g
      <4> QED BY <4>2, <4>3, <4>4, Zenon
    <3> QED BY <3>1, <3>2, Zenon
  <2>4. g = [i \in 0 .. m |-> g[i]]
    BY Zenon
  <2> HIDE DEF g
  <2>5. IsBits(g, T, data, m)
    BY <2>3, <2>4, Zenon DEF IsBits
  <2> QED BY <1>2, <2>5, Zenon
<1> QED BY <1>3, <1>4

\* Rows that hold arrays.
Known(T, data) == data \in Seq(Rows) /\ \A i \in 1 .. Len(data) : T[data[i]] \in Arrays

\* The bits of the first, the first two, ... of them.
Steps(f, T, data) ==
  /\ f[0] = <<>>
  /\ \A i \in 1 .. Len(data) : f[i] = f[i - 1] \o ItemBits(T[data[i]])

\* RowBits is the last of these.
LEMMA RowBitsSteps ==
  ASSUME NEW T, NEW data, Known(T, data)
  PROVE  \E f : Steps(f, T, data) /\ RowBits(T, data) = f[Len(data)]
<1>1. Len(data) \in Nat
  BY DEF Known
<1>2. \E f : IsBits(f, T, data, Len(data))
  BY <1>1, BitsExist, Zenon
<1>3. PICK f : IsBits(f, T, data, Len(data)) /\ RowBits(T, data) = f[Len(data)]
  BY <1>2, Zenon DEF RowBits, IsBits
<1>4. 0 \in 0 .. Len(data) /\ \A i \in 1 .. Len(data) : i \in 0 .. Len(data) /\ i # 0
  BY <1>1
<1>5. Steps(f, T, data)
  BY <1>3, <1>4, Zenon DEF Steps, IsBits
<1> QED BY <1>3, <1>5, Zenon

\* An array has a bit for each item.
LEMMA ItemBitsType ==
  ASSUME NEW a \in Arrays
  PROVE  /\ ItemBits(a) \in Seq(Bits) /\ Len(ItemBits(a)) = a.items
         /\ \A i \in 1 .. a.items : ItemBits(a)[i] = IF a.bits = <<>> THEN 1 ELSE a.bits[i]
<1>1. a.items \in Nat /\ a.bits \in Seq(Bits) /\ (a.bits = <<>> \/ Len(a.bits) = a.items)
  BY ArrayType, Zenon
<1>2. CASE a.bits = <<>>
  <2> DEFINE n == a.items
             b == [i \in 1 .. n |-> 1]
  <2>1. ItemBits(a) = b
    BY <1>2, Zenon DEF ItemBits
  <2>2. n \in Nat
    BY <1>1, Zenon
  <2> HIDE DEF n
  <2>3. b \in Seq(Bits) /\ Len(b) = n /\ \A i \in 1 .. n : b[i] = 1
    BY <2>2 DEF Bits
  <2> QED BY <1>2, <2>1, <2>3, Zenon DEF n
<1>3. CASE a.bits # <<>>
  BY <1>1, <1>3, Zenon DEF ItemBits
<1> QED BY <1>2, <1>3, Zenon

\* Bits are bits, and all set where no row has a bitmap.
LEMMA StepsType ==
  ASSUME NEW T, NEW data, Known(T, data), NEW f, Steps(f, T, data), NEW n \in 0 .. Len(data)
  PROVE  f[n] \in Seq(Bits)
<1> DEFINE S == {m \in 0 .. Len(data) : f[m] \notin Seq(Bits)}
<1> SUFFICES ASSUME S # {} PROVE FALSE
  BY Zenon
<1>1. Len(data) \in Nat
  BY DEF Known
<1>2. PICK m \in S : \A k \in S : m <= k
  <2>1. S \subseteq Nat
    BY <1>1
  <2> HIDE DEF S
  <2> QED BY <2>1, Least, Zenon
<1>3. m \in 0 .. Len(data) /\ f[m] \notin Seq(Bits)
  BY Zenon
<1>4. m # 0
  <2>1. <<>> \in Seq(Bits)
    OBVIOUS
  <2> QED BY <1>3, <2>1, Zenon DEF Steps
<1>5. m \in 1 .. Len(data) /\ m - 1 \in 0 .. Len(data) /\ ~ (m <= m - 1)
  BY <1>1, <1>3, <1>4
<1>6. f[m - 1] \in Seq(Bits)
  BY <1>2, <1>5, Zenon
<1>7. f[m] = f[m - 1] \o ItemBits(T[data[m]])
  BY <1>5, Zenon DEF Steps
<1>8. ItemBits(T[data[m]]) \in Seq(Bits)
  BY <1>5, ItemBitsType, Zenon DEF Known
<1>9. f[m] \in Seq(Bits)
  BY <1>6, <1>7, <1>8, ConcatIs, Zenon
<1> QED BY <1>3, <1>9, Zenon

\* The bits of some rows and then of others.
LEMMA RowBitsConcat ==
  ASSUME NEW T, NEW p, NEW q, Known(T, p), Known(T, q)
  PROVE  /\ Known(T, p \o q) /\ RowBits(T, p) \in Seq(Bits) /\ RowBits(T, q) \in Seq(Bits)
         /\ RowBits(T, p \o q) = RowBits(T, p) \o RowBits(T, q)
<1> DEFINE n == Len(p)
           m == Len(q)
           pq == p \o q
<1>1. p \in Seq(Rows) /\ q \in Seq(Rows) /\ n \in Nat /\ m \in Nat
  BY DEF Known
<1>2. /\ pq \in Seq(Rows) /\ Len(pq) = n + m
      /\ \A i \in 1 .. (n + m) : pq[i] = IF i <= n THEN p[i] ELSE q[i - n]
  BY <1>1, ConcatIs
<1> HIDE DEF pq
<1>3. /\ \A i \in 1 .. n : i \in 1 .. (n + m) /\ pq[i] = p[i]
      /\ \A i \in 1 .. m : n + i \in 1 .. (n + m) /\ pq[n + i] = q[i]
  <2>1. ASSUME NEW i \in 1 .. n PROVE i \in 1 .. (n + m) /\ pq[i] = p[i]
    <3>1. i \in 1 .. (n + m) /\ i <= n
      BY <1>1
    <3> QED BY <1>2, <3>1, Zenon
  <2>2. ASSUME NEW i \in 1 .. m PROVE n + i \in 1 .. (n + m) /\ pq[n + i] = q[i]
    <3>1. n + i \in 1 .. (n + m) /\ ~ (n + i <= n) /\ (n + i) - n = i
      BY <1>1
    <3> QED BY <1>2, <3>1, Zenon
  <2> QED BY <2>1, <2>2, Zenon
<1>4. Known(T, pq)
  <2> SUFFICES ASSUME NEW i \in 1 .. (n + m) PROVE T[pq[i]] \in Arrays
    BY <1>2, Zenon DEF Known
  <2>1. i \in 1 .. n \/ (i - n \in 1 .. m /\ n + (i - n) = i)
    BY <1>1
  <2>2. CASE i \in 1 .. n
    BY <1>3, <2>2, Zenon DEF Known
  <2>3. CASE i - n \in 1 .. m /\ n + (i - n) = i
    <3>1. pq[i] = q[i - n]
      BY <1>3, <2>3, Zenon
    <3> QED BY <2>3, <3>1, Zenon DEF Known
  <2> QED BY <2>1, <2>2, <2>3, Zenon
<1>5. PICK f : Steps(f, T, pq) /\ RowBits(T, pq) = f[Len(pq)]
  BY <1>4, RowBitsSteps, Zenon
<1>6. PICK g : Steps(g, T, p) /\ RowBits(T, p) = g[Len(p)]
  BY RowBitsSteps, Zenon
<1>7. PICK h : Steps(h, T, q) /\ RowBits(T, q) = h[Len(q)]
  BY RowBitsSteps, Zenon
<1>8. /\ \A i \in 0 .. n : g[i] \in Seq(Bits)
      /\ \A i \in 0 .. m : h[i] \in Seq(Bits)
  BY <1>6, <1>7, StepsType, Zenon
<1>9. /\ \A i \in 1 .. n : f[i] = f[i - 1] \o ItemBits(T[p[i]])
      /\ \A i \in 1 .. m : f[n + i] = f[(n + i) - 1] \o ItemBits(T[q[i]])
  <2>1. \A i \in 1 .. (n + m) : f[i] = f[i - 1] \o ItemBits(T[pq[i]])
    BY <1>2, <1>5, Zenon DEF Steps
  <2> QED BY <1>3, <2>1, Zenon
<1>10. \A i \in 0 .. n : f[i] = g[i]
  <2> DEFINE S == {i \in 0 .. n : f[i] # g[i]}
  <2> SUFFICES ASSUME S # {} PROVE FALSE
    BY Zenon
  <2>1. PICK i \in S : \A k \in S : i <= k
    <3>1. S \subseteq Nat
      BY <1>1
    <3> HIDE DEF S
    <3> QED BY <3>1, Least, Zenon
  <2>2. i \in 0 .. n /\ f[i] # g[i]
    BY Zenon
  <2>3. i # 0
    BY <1>5, <1>6, <2>2, Zenon DEF Steps
  <2>4. i \in 1 .. n /\ i - 1 \in 0 .. n /\ ~ (i <= i - 1)
    BY <1>1, <2>2, <2>3
  <2>5. f[i - 1] = g[i - 1]
    BY <2>1, <2>4, Zenon
  <2>6. g[i] = g[i - 1] \o ItemBits(T[p[i]])
    BY <1>6, <2>4, Zenon DEF Steps
  <2> QED BY <1>9, <2>2, <2>4, <2>5, <2>6, Zenon
<1>11. \A i \in 0 .. m : f[n + i] = g[n] \o h[i]
  <2> DEFINE S == {i \in 0 .. m : f[n + i] # g[n] \o h[i]}
  <2> SUFFICES ASSUME S # {} PROVE FALSE
    BY Zenon
  <2>1. PICK i \in S : \A k \in S : i <= k
    <3>2. \A i \in 0 .. m : i \in Nat
      BY <1>1
    <3>1. S \subseteq Nat
      BY <3>2, Zenon
    <3> HIDE DEF S
    <3> QED BY <3>1, Least, Zenon
  <2>2. i \in 0 .. m /\ f[n + i] # g[n] \o h[i]
    BY Zenon
  <2>3. n \in 0 .. n
    BY <1>1
  <2>4. i # 0
    <3> SUFFICES ASSUME i = 0 PROVE FALSE
      OBVIOUS
    <3>1. n + i = n
      BY <1>1
    <3>2. h[i] = <<>>
      BY <1>7, Zenon DEF Steps
    <3>3. g[n] \in Seq(Bits)
      BY <1>8, <2>3, Zenon
    <3>4. g[n] \o <<>> = g[n]
      BY <3>3, ConcatNothing, Zenon
    <3> QED BY <1>10, <2>2, <2>3, <3>1, <3>2, <3>4, Zenon
  <2>5. i \in 1 .. m /\ i - 1 \in 0 .. m /\ ~ (i <= i - 1) /\ n + (i - 1) = (n + i) - 1
    BY <1>1, <2>2, <2>4
  <2>6. f[n + (i - 1)] = g[n] \o h[i - 1]
    BY <2>1, <2>5, Zenon
  <2>7. h[i] = h[i - 1] \o ItemBits(T[q[i]])
    BY <1>7, <2>5, Zenon DEF Steps
  <2>8. f[n + i] = (g[n] \o h[i - 1]) \o ItemBits(T[q[i]])
    BY <1>9, <2>5, <2>6, Zenon
  <2>9. g[n] \in Seq(Bits) /\ h[i - 1] \in Seq(Bits)
    BY <1>8, <2>3, <2>5, Zenon
  <2>10. ItemBits(T[q[i]]) \in Seq(Bits)
    BY <2>5, ItemBitsType, Zenon DEF Known
  <2>11. (g[n] \o h[i - 1]) \o ItemBits(T[q[i]]) = g[n] \o (h[i - 1] \o ItemBits(T[q[i]]))
    <3>1. ASSUME NEW x \in Seq(Bits), NEW y \in Seq(Bits), NEW z \in Seq(Bits)
          PROVE  (x \o y) \o z = x \o (y \o z)
      OBVIOUS
    <3> QED BY <2>9, <2>10, <3>1, Zenon
  <2> QED BY <2>2, <2>7, <2>8, <2>11, Zenon
<1>12. m \in 0 .. m /\ n \in 0 .. n
  BY <1>1
<1>13. RowBits(T, pq) = RowBits(T, p) \o RowBits(T, q)
  BY <1>2, <1>5, <1>6, <1>7, <1>11, <1>12, Zenon
<1>14. RowBits(T, p) \in Seq(Bits) /\ RowBits(T, q) \in Seq(Bits)
  BY <1>6, <1>7, <1>8, <1>12, Zenon
<1> QED BY <1>4, <1>13, <1>14, Zenon DEF pq

\* The bits of one row, and of none.
LEMMA RowBitsShort ==
  ASSUME NEW T, NEW r \in Rows, T[r] \in Arrays
  PROVE  /\ Known(T, <<r>>) /\ RowBits(T, <<r>>) = ItemBits(T[r])
         /\ Known(T, <<>>) /\ RowBits(T, <<>>) = <<>>
<1>1. /\ <<r>> \in Seq(Rows) /\ Len(<<r>>) = 1 /\ <<r>>[1] = r
      /\ <<>> \in Seq(Rows) /\ Len(<<>>) = 0
  OBVIOUS
<1>2. /\ \A i \in 1 .. 1 : i = 1
      /\ \A i : i \notin 1 .. 0
      /\ 1 \in 1 .. 1 /\ 1 - 1 = 0
  OBVIOUS
<1>3. Known(T, <<r>>) /\ Known(T, <<>>)
  BY <1>1, <1>2, Zenon DEF Known
<1>4. PICK f : Steps(f, T, <<r>>) /\ RowBits(T, <<r>>) = f[Len(<<r>>)]
  BY <1>3, RowBitsSteps, Zenon
<1>5. RowBits(T, <<r>>) = <<>> \o ItemBits(T[r])
  <2>1. f[0] = <<>> /\ f[1] = f[1 - 1] \o ItemBits(T[<<r>>[1]])
    BY <1>1, <1>2, <1>4, Zenon DEF Steps
  <2>2. f[1 - 1] = f[0]
    BY <1>2, Zenon
  <2>3. f[1] = <<>> \o ItemBits(T[r])
    BY <1>1, <2>1, <2>2, Zenon
  <2> QED BY <1>1, <1>4, <2>3, Zenon
<1>6. <<>> \o ItemBits(T[r]) = ItemBits(T[r])
  BY ItemBitsType, ConcatNothing, Zenon
<1>7. PICK g : Steps(g, T, <<>>) /\ RowBits(T, <<>>) = g[Len(<<>>)]
  BY <1>3, RowBitsSteps, Zenon
<1>8. RowBits(T, <<>>) = <<>>
  BY <1>1, <1>7, Zenon DEF Steps
<1> QED BY <1>3, <1>5, <1>6, <1>8, Zenon

AllOne(b) == \A i \in 1 .. Len(b) : b[i] = 1

\* Two runs of ones are a run of ones.
LEMMA OnesConcat ==
  ASSUME NEW b \in Seq(Bits), NEW c \in Seq(Bits), AllOne(b), AllOne(c)
  PROVE  AllOne(b \o c)
<1> SUFFICES ASSUME NEW i \in 1 .. Len(b \o c) PROVE (b \o c)[i] = 1
  BY Zenon DEF AllOne
<1>1. i \in 1 .. (Len(b) + Len(c)) /\ (b \o c)[i] = IF i <= Len(b) THEN b[i] ELSE c[i - Len(b)]
  BY ConcatIs
<1>2. i <= Len(b) => i \in 1 .. Len(b)
  BY <1>1
<1>3. ~ (i <= Len(b)) => i - Len(b) \in 1 .. Len(c)
  BY <1>1
<1>4. i <= Len(b) => b[i] = 1
  BY <1>2, Zenon DEF AllOne
<1>5. ~ (i <= Len(b)) => c[i - Len(b)] = 1
  BY <1>3, Zenon DEF AllOne
<1> QED BY <1>1, <1>4, <1>5

\* Rows none of which has a bitmap.
Plain(T, data) == \A i \in 1 .. Len(data) : T[data[i]].bits = <<>>

\* All their bits are set.
LEMMA RowBitsPlain ==
  ASSUME NEW T, NEW data, Known(T, data), Plain(T, data)
  PROVE  AllOne(RowBits(T, data))
<1>1. PICK f : Steps(f, T, data) /\ RowBits(T, data) = f[Len(data)]
  BY RowBitsSteps, Zenon
<1>2. Len(data) \in Nat /\ Len(data) \in 0 .. Len(data)
  BY DEF Known
<1> DEFINE S == {m \in 0 .. Len(data) : ~ AllOne(f[m])}
<1>3. S = {}
  <2> SUFFICES ASSUME S # {} PROVE FALSE
    OBVIOUS
  <2>1. PICK m \in S : \A k \in S : m <= k
    <3>1. \A m \in 0 .. Len(data) : m \in Nat
      BY <1>2
    <3>2. S \subseteq Nat
      BY <3>1, Zenon
    <3> HIDE DEF S
    <3> QED BY <3>2, Least, Zenon
  <2>2. m \in 0 .. Len(data) /\ ~ AllOne(f[m])
    BY Zenon
  <2>3. m # 0
    <3>1. AllOne(<<>>)
      BY DEF AllOne
    <3> QED BY <1>1, <2>2, <3>1, Zenon DEF Steps
  <2>4. m \in 1 .. Len(data) /\ m - 1 \in 0 .. Len(data) /\ ~ (m <= m - 1)
    BY <1>2, <2>2, <2>3
  <2>5. AllOne(f[m - 1])
    BY <2>1, <2>4, Zenon
  <2> DEFINE b == ItemBits(T[data[m]])
  <2>6. f[m] = f[m - 1] \o b
    BY <1>1, <2>4, Zenon DEF Steps
  <2>7. f[m - 1] \in Seq(Bits)
    BY <1>1, <2>4, StepsType, Zenon
  <2>8. T[data[m]] \in Arrays /\ T[data[m]].bits = <<>>
    BY <2>4, Zenon DEF Known, Plain
  <2>9. b \in Seq(Bits) /\ AllOne(b)
    BY <2>8, ItemBitsType, Zenon DEF AllOne
  <2> HIDE DEF b
  <2>10. AllOne(f[m])
    BY <2>5, <2>6, <2>7, <2>9, OnesConcat, Zenon
  <2> QED BY <2>2, <2>10
<1> QED BY <1>1, <1>2, <1>3, Zenon

\* The bits of old are in place; src has, or stands for, those of new.
Placed(dst, old) == \A i \in 1 .. Len(old) : dst[i] = old[i]
Source(src, new) ==
  /\ src = <<>> \/ Len(new) <= Len(src)
  /\ \A i \in 1 .. Len(new) : new[i] = IF src = <<>> THEN 1 ELSE src[i]

\* array_bitmap_copy behind bits that are in place: the bits of both.
LEMMA CopiedBits ==
  ASSUME NEW dst \in Seq(Bits), NEW src \in Seq(Bits),
         NEW old \in Seq(Bits), NEW new \in Seq(Bits),
         Len(old) + Len(new) <= Len(dst), Placed(dst, old), Source(src, new)
  PROVE  SubSeq(BitmapCopy(dst, Len(old), src, Len(new)), 1, Len(old) + Len(new)) = old \o new
<1> DEFINE n == Len(new)
<1>n. n \in Nat /\ (src = <<>> \/ n <= Len(src))
  BY DEF Source
<1> DEFINE k == Len(old)
           b == BitmapCopy(dst, k, src, n)
           u == SubSeq(b, 1, k + n)
           v == old \o new
<1>1. k \in Nat /\ Len(dst) \in Nat /\ k + n <= Len(dst) /\ n \in Nat
  OBVIOUS
<1>2. b \in Seq(Bits) /\ Len(b) = Len(dst)
  BY <1>1, <1>n, BitmapCopyType
<1>3. /\ v \in Seq(Bits) /\ Len(v) = k + n
      /\ \A i \in 1 .. (k + n) : v[i] = IF i <= k THEN old[i] ELSE new[i - k]
  BY ConcatIs
<1>4. ASSUME NEW i \in 1 .. (k + n) PROVE b[i] = v[i]
  <2>1. i \in 1 .. Len(dst)
    BY <1>1
  <2>2. b[i] = IF i \in k + 1 .. k + n THEN IF src = <<>> THEN 1 ELSE src[i - k] ELSE dst[i]
    BY <2>1, Zenon DEF BitmapCopy
  <2>n. Placed(dst, old) /\ Source(src, new)
    OBVIOUS
  <2> HIDE DEF k, b, v, n
  <2>3. CASE i <= k
    <3>1. i \in 1 .. k /\ i \notin k + 1 .. k + n
      BY <1>1, <2>3
    <3>2. dst[i] = old[i]
      BY <3>1, <2>n, Zenon DEF k, Placed
    <3> QED BY <1>3, <2>2, <2>3, <3>1, <3>2, Zenon
  <2>4. CASE ~ (i <= k)
    <3>1. i - k \in 1 .. n /\ i \in k + 1 .. k + n
      BY <1>1, <2>4
    <3>2. new[i - k] = IF src = <<>> THEN 1 ELSE src[i - k]
      BY <3>1, <2>n, Zenon DEF n, Source
    <3> QED BY <1>3, <2>2, <2>4, <3>1, <3>2, Zenon
  <2> QED BY <2>3, <2>4, Zenon
<1> HIDE DEF b, v, k, n
<1>5. u \in Seq(Bits) /\ Len(u) = k + n /\ \A i \in 1 .. (k + n) : u[i] = b[i]
  BY <1>1, <1>2
<1> HIDE DEF u
<1>6. u = v
  <2>1. Len(u) = Len(v) /\ \A i \in 1 .. Len(u) : u[i] = v[i]
    BY <1>3, <1>4, <1>5, Zenon
  <2> QED BY <1>3, <1>5, <2>1, SameElements, Zenon
<1> QED BY <1>6 DEF u, b, v, k, n

\* A state has as many items as its rows have bits.
Counted(T, s) ==
  s # NULL => Known(T, s.data) /\ Len(RowBits(T, s.data)) = s.nitems

\* A new or grown bitmap of a state has the bits of its rows.
LEMMA AllocatedBits ==
  ASSUME NEW T, NEW s \in States, Counted(T, s), NullsExact(T, s), NEW n \in Nat, s.nitems <= n
  PROVE  \A i \in 1 .. s.nitems : AllocBitmap(s, n)[i] = RowBits(T, s.data)[i]
<1> DEFINE k == s.nitems
           old == s.nullbitmap
           bits == RowBits(T, s.data)
<1>1. s # NULL
  BY NullAssumption
<1>2. k \in Nat /\ old \in Seq(Bits) /\ s.data \in Seq(Rows)
  BY DEF States
<1>3. Known(T, s.data) /\ Len(bits) = k
  BY <1>1, Zenon DEF Counted
<1> SUFFICES ASSUME NEW i \in 1 .. k PROVE AllocBitmap(s, n)[i] = bits[i]
  OBVIOUS
<1>4. i \in 1 .. n
  BY <1>2
<1>5. CASE old = <<>>
  <2>1. AllocBitmap(s, n) = BitmapCopy(Palloc(n), 0, <<>>, k)
    BY <1>5, Zenon DEF AllocBitmap
  <2>2. Len(Palloc(n)) = n
    BY DEF Palloc
  <2>3. i \in 0 + 1 .. 0 + k
    BY <1>2
  <2>4. BitmapCopy(Palloc(n), 0, <<>>, k)[i] = 1
    BY <1>4, <2>2, <2>3, Zenon DEF BitmapCopy
  <2>5. Plain(T, s.data)
    <3>1. DOMAIN s.data = 1 .. Len(s.data)
      BY <1>2
    <3> QED BY <1>1, <1>5, <3>1, Zenon DEF NullsExact, Plain
  <2>6. bits[i] = 1
    <3>1. AllOne(bits)
      BY <1>3, <2>5, RowBitsPlain, Zenon
    <3> QED BY <1>3, <3>1, Zenon DEF AllOne
  <2> QED BY <2>1, <2>4, <2>6, Zenon
<1>6. CASE old # <<>>
  <2>1. AllocBitmap(s, n) = Repalloc(old, n)
    BY <1>6, Zenon DEF AllocBitmap
  <2>2. k <= Len(old) /\ SubSeq(old, 1, k) = bits
    BY <1>1, <1>6, Zenon DEF NullsExact
  <2> HIDE DEF k, old, bits
  <2>3. i <= Len(old) /\ SubSeq(old, 1, k)[i] = old[i]
    BY <1>2, <2>2
  <2>4. Repalloc(old, n)[i] = old[i]
    BY <1>4, <2>3, Zenon DEF Repalloc
  <2> QED BY <2>1, <2>2, <2>3, <2>4, Zenon
<1> QED BY <1>5, <1>6, Zenon

\* The state s has room for n items and gets the m items of more rows, whose
\* bitmap is src.
Extends(T, s, n, data, src, m) ==
  /\ s \in States /\ Counted(T, s) /\ NullsExact(T, s)
  /\ n \in Nat /\ m \in Nat \ {0} /\ s.nitems + m <= n
  /\ Known(T, data) /\ src \in Seq(Bits) /\ Source(src, RowBits(T, data))
  /\ m = Len(RowBits(T, data))

\* The bitmap b marks the items of the state s and of those rows.
Marks(T, s, data, m, b) ==
  /\ SubSeq(b, 1, s.nitems + m) = RowBits(T, s.data \o data)
  /\ b # <<>> /\ s.nitems + m <= Len(b)

\* A state whose bitmap gets the bits of more rows behind its own.
LEMMA ExtendedBits ==
  ASSUME NEW T, NEW s, NEW n, NEW data, NEW src, NEW m, Extends(T, s, n, data, src, m)
  PROVE  Marks(T, s, data, m, BitmapCopy(AllocBitmap(s, n), s.nitems, src, m))
<1>a. /\ s \in States /\ Counted(T, s) /\ NullsExact(T, s)
      /\ Known(T, data) /\ src \in Seq(Bits) /\ Source(src, RowBits(T, data))
      /\ m = Len(RowBits(T, data))
  BY Zenon DEF Extends
<1>b. n \in Nat /\ m \in Nat \ {0} /\ s.nitems + m <= n
  BY Zenon DEF Extends
<1> DEFINE old == RowBits(T, s.data)
           new == RowBits(T, data)
           dst == AllocBitmap(s, n)
<1>1. Known(T, s.data) /\ Len(old) = s.nitems
  BY <1>a, NullAssumption, Zenon DEF Counted
<1>2. old \in Seq(Bits) /\ new \in Seq(Bits) /\ RowBits(T, s.data \o data) = old \o new
  BY <1>1, <1>a, RowBitsConcat, Zenon
<1>3. s.nitems \in Nat
  BY <1>1, <1>2
<1>4. dst \in Seq(Bits) /\ Len(dst) = n
  BY <1>a, <1>b, AllocBitmapType, Zenon
<1>5. s.nitems <= n /\ m \in Nat /\ n # 0
  BY <1>3, <1>b
<1>6. Placed(dst, old)
  <2>1. \A i \in 1 .. s.nitems : dst[i] = old[i]
    BY <1>a, <1>b, <1>5, AllocatedBits
  <2> HIDE DEF dst, old
  <2> QED BY <1>1, <2>1, Zenon DEF Placed
<1> HIDE DEF old, dst, new
<1>8. Source(src, new) /\ m = Len(new)
  BY <1>a, Zenon DEF new
<1>7. Len(old) + Len(new) <= Len(dst)
  BY <1>1, <1>4, <1>8, <1>b, Zenon
<1> DEFINE b == BitmapCopy(dst, s.nitems, src, m)
<1>9. SubSeq(b, 1, Len(old) + Len(new)) = old \o new
  <2>1. src \in Seq(Bits) /\ Source(src, new)
    BY <1>a, <1>8, Zenon
  <2>2. SubSeq(BitmapCopy(dst, Len(old), src, Len(new)), 1, Len(old) + Len(new)) = old \o new
    BY <1>2, <1>4, <1>6, <1>7, <2>1, CopiedBits
  <2> QED BY <1>1, <1>8, <2>2, Zenon
<1>10. Len(b) = n
  <2>1. src \in Seq(Bits) /\ (src = <<>> \/ m <= Len(src))
    BY <1>a, Zenon DEF Source
  <2> QED BY <1>3, <1>4, <1>5, <2>1, BitmapCopyType, Zenon
<1>11. b # <<>>
  <2>1. Len(<<>>) = 0
    OBVIOUS
  <2> QED BY <1>5, <1>10, <2>1, Zenon
<1> QED BY <1>b, <1>1, <1>2, <1>8, <1>9, <1>10, <1>11, Zenon DEF dst, Marks

\* A state that gets more rows, and their number of items, stays counted.
LEMMA CountedAfter ==
  ASSUME NEW T, NEW s \in States, Counted(T, s), NEW data, Known(T, data),
         NEW t, t.data = s.data \o data, t.nitems = s.nitems + Len(RowBits(T, data))
  PROVE  Counted(T, t)
<1>1. s # NULL
  BY NullAssumption
<1>2. Known(T, s.data) /\ Len(RowBits(T, s.data)) = s.nitems
  BY <1>1, Zenon DEF Counted
<1>a. /\ Known(T, s.data \o data)
      /\ RowBits(T, s.data \o data) = RowBits(T, s.data) \o RowBits(T, data)
      /\ RowBits(T, s.data) \in Seq(Bits) /\ RowBits(T, data) \in Seq(Bits)
  BY <1>2, RowBitsConcat, Zenon
<1>3. /\ Known(T, t.data) /\ RowBits(T, t.data) = RowBits(T, s.data) \o RowBits(T, data)
      /\ RowBits(T, s.data) \in Seq(Bits) /\ RowBits(T, data) \in Seq(Bits)
  BY <1>a
<1>4. Len(RowBits(T, t.data)) = Len(RowBits(T, s.data)) + Len(RowBits(T, data))
  <2>1. \A x, y \in Seq(Bits) : Len(x \o y) = Len(x) + Len(y)
    OBVIOUS
  <2> QED BY <1>3, <2>1, Zenon
<1> QED BY <1>2, <1>3, <1>4, Zenon DEF Counted

\* Rows without bitmaps put together.
LEMMA PlainConcat ==
  ASSUME NEW T, NEW p \in Seq(Rows), NEW q \in Seq(Rows), Plain(T, p), Plain(T, q)
  PROVE  Plain(T, p \o q)
<1> SUFFICES ASSUME NEW i \in 1 .. Len(p \o q) PROVE T[(p \o q)[i]].bits = <<>>
  BY Zenon DEF Plain
<1>1. /\ i \in 1 .. (Len(p) + Len(q))
      /\ (p \o q)[i] = IF i <= Len(p) THEN p[i] ELSE q[i - Len(p)]
  BY ConcatIs
<1>2. i <= Len(p) => i \in 1 .. Len(p)
  BY <1>1
<1>3. ~ (i <= Len(p)) => i - Len(p) \in 1 .. Len(q)
  BY <1>1
<1>4. i <= Len(p) => T[p[i]].bits = <<>>
  BY <1>2, Zenon DEF Plain
<1>5. ~ (i <= Len(p)) => T[q[i - Len(p)]].bits = <<>>
  BY <1>3, Zenon DEF Plain
<1> QED BY <1>1, <1>4, <1>5, Zenon

\* The bitmap is exact after more rows, if theirs was looked at.
LEMMA ExactAfter ==
  ASSUME NEW T, NEW s \in States, Counted(T, s), NullsExact(T, s),
         NEW data, Known(T, data), NEW src \in Seq(Bits), Source(src, RowBits(T, data)),
         src = <<>> => Plain(T, data),
         NEW m \in Nat \ {0}, m = Len(RowBits(T, data)), NEW n \in Nat,
         NEW t \in States, t.data = s.data \o data, t.nitems = s.nitems + m,
         src # <<>> \/ s.nullbitmap # <<>> => n >= s.nitems + m,
         t.nullbitmap = IF src = <<>> /\ s.nullbitmap = <<>> THEN <<>>
                        ELSE BitmapCopy(AllocBitmap(s, n), s.nitems, src, m)
  PROVE  NullsExact(T, t)
<1>m. m \in Nat /\ m # 0
  OBVIOUS
<1>1. s # NULL /\ s.data \in Seq(Rows) /\ data \in Seq(Rows) /\ s.nitems \in Nat
  BY NullAssumption DEF States, Known
<1>2. CASE src = <<>> /\ s.nullbitmap = <<>>
  <2>1. DOMAIN s.data = 1 .. Len(s.data) /\ t.data \in Seq(Rows)
    BY <1>1
  <2>2. Plain(T, s.data)
    BY <1>1, <1>2, <2>1, Zenon DEF NullsExact, Plain
  <2>3. Plain(T, t.data)
    BY <1>1, <1>2, <2>2, PlainConcat, Zenon
  <2>4. DOMAIN t.data = 1 .. Len(t.data)
    BY <2>1
  <2>5. t.nullbitmap = <<>>
    BY <1>2, Zenon
  <2> QED BY <2>3, <2>4, <2>5, Zenon DEF NullsExact, Plain
<1>3. CASE ~ (src = <<>> /\ s.nullbitmap = <<>>)
  <2> DEFINE b == BitmapCopy(AllocBitmap(s, n), s.nitems, src, m)
  <2>1. t.nullbitmap = b /\ n >= s.nitems + m
    BY <1>3, Zenon
  <2>2. \A x, y, z \in Nat : x >= y + z => y + z <= x
    OBVIOUS
  <2>3. s.nitems + m <= n
    BY <1>1, <1>m, <2>1, <2>2, Zenon
  <2>4. Extends(T, s, n, data, src, m)
    BY <2>3, Zenon DEF Extends
  <2>5. Marks(T, s, data, m, b)
    BY <2>4, ExtendedBits, Zenon
  <2> HIDE DEF b
  <2> QED BY <2>1, <2>5, Zenon DEF NullsExact, Marks
<1> QED BY <1>2, <1>3, Zenon

\* accumArrayResultArr on a state that may still be empty.
LEMMA AppendNulls ==
  ASSUME NEW s \in States, NEW r \in Rows, table[r] \in Arrays, table[r].items > 0,
         BitmapInBounds(s), Append1(s, r) \in States,
         Counted(table, s), NullsExact(table, s)
  PROVE  Counted(table, Append1(s, r)) /\ NullsExact(table, Append1(s, r))
<1> DEFINE a == table[r]
           t == Append1(s, r)
           n == AllocItems(s, a)
           m == a.items
<1>1. Known(table, <<r>>) /\ RowBits(table, <<r>>) = ItemBits(a)
  BY RowBitsShort, Zenon
<1>2. /\ a.items \in Nat /\ a.bits \in Seq(Bits) /\ (a.bits = <<>> \/ Len(a.bits) = a.items)
      /\ Len(ItemBits(a)) = m
      /\ \A i \in 1 .. m : ItemBits(a)[i] = IF a.bits = <<>> THEN 1 ELSE a.bits[i]
  BY ArrayType, ItemBitsType, Zenon
<1>3. t.data = Append(s.data, r) /\ t.nitems = s.nitems + m
      /\ t.nullbitmap = IF a.bits = <<>> /\ s.nullbitmap = <<>> THEN <<>>
                        ELSE BitmapCopy(AllocBitmap(s, n), s.nitems, a.bits, m)
  BY Zenon DEF Append1
<1>4. t.data = s.data \o <<r>>
  <2>1. s.data \in Seq(Rows)
    BY DEF States
  <2>2. Append(s.data, r) = s.data \o <<r>>
    BY <2>1, AppendOne
  <2> QED BY <1>3, <2>2, Zenon
<1>5. n \in Nat /\ (a.bits # <<>> \/ s.nullbitmap # <<>> => n >= s.nitems + m)
  BY AllocRoom, Zenon
<1>6. m \in Nat \ {0}
  BY <1>2
<1>7. Source(a.bits, RowBits(table, <<r>>))
  <2>1. a.bits = <<>> \/ m <= Len(a.bits)
    BY <1>2
  <2> QED BY <1>1, <1>2, <2>1, Zenon DEF Source
<1>8. a.bits = <<>> => Plain(table, <<r>>)
  <2>1. Len(<<r>>) = 1 /\ <<r>>[1] = r /\ \A i \in 1 .. 1 : i = 1
    OBVIOUS
  <2> QED BY <2>1, Zenon DEF Plain
<1>9. m = Len(RowBits(table, <<r>>))
  BY <1>1, <1>2, Zenon
<1>10. t \in States
  OBVIOUS
<1> HIDE DEF t, n
<1>11. Counted(table, t)
  BY <1>1, <1>3, <1>4, <1>9, CountedAfter, Zenon
<1>12. NullsExact(table, t)
  BY <1>1, <1>2, <1>3, <1>4, <1>5, <1>6, <1>7, <1>8, <1>9, <1>10, ExactAfter, Zenon
<1> QED BY <1>11, <1>12 DEF t

\* accumArrayResultArr on a row that has no error.
LEMMA AccumulateNulls ==
  ASSUME NEW s \in States \cup {NULL}, NEW r \in Rows,
         table \in [Rows -> Arrays \cup {NullArray}],
         StateOK(s), BitmapInBounds(s), Accepts(s, r), r \notin Held(s),
         Counted(table, s), NullsExact(table, s)
  PROVE  Counted(table, Accumulate(s, r)) /\ NullsExact(table, Accumulate(s, r))
<1>1. table[r] \in Arrays
  BY DEF Accepts
<1>2. Accumulate(s, r) \in States
  BY AccumulateOK, Zenon
<1>3. CASE s = NULL
  <2> DEFINE f == FirstState(table[r])
  <2>1. table[r].shape # <<>>
    BY <1>3, Zenon DEF Accepts
  <2>2. table[r].items > 0
    BY <1>1, <2>1, ArrayType, Zenon
  <2>3. f \in States /\ BitmapInBounds(f)
    BY <1>1, <2>1, FirstStateOK, Zenon
  <2>4. f.data = <<>> /\ f.nitems = 0 /\ f.nullbitmap = <<>>
    BY Zenon DEF FirstState
  <2>5. Accumulate(s, r) = Append1(f, r)
    BY <1>3, Zenon DEF Accumulate
  <2> HIDE DEF f
  <2>6. Known(table, <<>>) /\ RowBits(table, <<>>) = <<>>
    BY <1>1, RowBitsShort, Zenon
  <2>7. Len(<<>>) = 0 /\ DOMAIN <<>> = {}
    OBVIOUS
  <2>8. Counted(table, f)
    BY <2>4, <2>6, <2>7, Zenon DEF Counted
  <2>9. NullsExact(table, f)
    BY <2>4, <2>7, Zenon DEF NullsExact
  <2>10. Append1(f, r) \in States
    BY <1>2, <2>5, Zenon
  <2> QED BY <1>1, <2>2, <2>3, <2>5, <2>8, <2>9, <2>10, AppendNulls, Zenon
<1>4. CASE s # NULL
  <2>1. s \in States
    BY <1>4
  <2>2. Len(s.dims) \in {2, 3}
    BY <1>4 DEF StateOK
  <2>3. table[r].items > 0
    <3>1. Tail(s.dims) = table[r].shape /\ s.dims \in Seq(Nat)
      BY <1>4, <2>1 DEF Accepts, States
    <3>2. Tail(s.dims) # <<>>
      BY <2>2, <3>1, DimsLength
    <3> QED BY <1>1, <3>1, <3>2, ArrayType, Zenon
  <2>4. Accumulate(s, r) = Append1(s, r)
    BY <1>4, Zenon DEF Accumulate
  <2>5. Append1(s, r) \in States
    BY <1>2, <2>4, Zenon
  <2> QED BY <1>1, <2>1, <2>3, <2>4, <2>5, AppendNulls, Zenon
<1> QED BY <1>3, <1>4, Zenon

\* What the proofs use of a state read back by array_agg_array_deserialize.
LEMMA Deserialized ==
  ASSUME NEW s \in States
  PROVE  /\ Deserialize(s) \in States
         /\ Deserialize(s).data = s.data /\ Deserialize(s).nitems = s.nitems
         /\ Deserialize(s).aitems = s.aitems /\ Deserialize(s).nullbitmap = s.nullbitmap
<1>1. s.nbytes \in Nat
  BY DEF States
<1>2. Max2(MinBytes, NextPower2(s.nbytes)) \in Nat
  BY <1>1, NextPower2Type, SizeAssumption DEF Max2
<1>3. Deserialize(s) \in States
  BY <1>2, Zenon DEF Deserialize, States
<1>4. /\ Deserialize(s).data = s.data /\ Deserialize(s).nitems = s.nitems
      /\ Deserialize(s).aitems = s.aitems /\ Deserialize(s).nullbitmap = s.nullbitmap
  BY DEF Deserialize, States
<1> QED BY <1>3, <1>4, Zenon

\* The number of bits of a combined state.
LEMMA CombineRoom ==
  ASSUME NEW s1 \in States, NEW s2 \in States
  PROVE  /\ CombineItems(s1, s2) \in Nat
         /\ /\ s2.nullbitmap # <<>> /\ s2.nitems <= s2.aitems
            /\ s1.nullbitmap # <<>> => s1.nitems <= s1.aitems
            => CombineItems(s1, s2) >= s1.nitems + s2.nitems
<1> DEFINE k1 == s1.nitems
           k2 == s2.nitems
           a1 == s1.aitems
           a2 == s2.aitems
           m == Max2(MinItems, k1 + k2 + 1)
<1>1. k1 \in Nat /\ k2 \in Nat /\ a1 \in Nat /\ a2 \in Nat
  BY DEF States
<1>2. CombineItems(s1, s2) =
        IF s2.nullbitmap = <<>> THEN a1
        ELSE IF s1.nullbitmap = <<>> THEN NextPower2(m)
        ELSE IF k1 + k2 > a1 THEN NextPower2(a1 + a2)
        ELSE a1
  BY Zenon DEF CombineItems
<1> HIDE DEF k1, k2, a1, a2
<1>3. m \in Nat /\ m >= k1 + k2
  BY <1>1, SizeAssumption DEF Max2
<1> HIDE DEF m
<1>4. NextPower2(m) \in Nat /\ NextPower2(m) >= m
  BY <1>3, NextPower2Type, Zenon
<1>5. NextPower2(m) >= k1 + k2
  BY <1>1, <1>3, <1>4
<1>6. a1 + a2 \in Nat
  BY <1>1
<1>7. NextPower2(a1 + a2) \in Nat /\ NextPower2(a1 + a2) >= a1 + a2
  BY <1>6, NextPower2Type, Zenon
<1>8. CombineItems(s1, s2) \in Nat
  BY <1>1, <1>2, <1>4, <1>7, Zenon
<1>9. ASSUME s2.nullbitmap # <<>>, k2 <= a2, s1.nullbitmap # <<>> => k1 <= a1
      PROVE  CombineItems(s1, s2) >= k1 + k2
  <2>1. CASE s1.nullbitmap = <<>>
    BY <1>2, <1>5, <1>9, <2>1, Zenon
  <2>2. CASE s1.nullbitmap # <<>>
    <3>1. k1 <= a1
      BY <1>9, <2>2, Zenon
    <3>2. CombineItems(s1, s2) = IF k1 + k2 > a1 THEN NextPower2(a1 + a2) ELSE a1
      BY <1>2, <1>9, <2>2, Zenon
    <3>3. NextPower2(a1 + a2) >= k1 + k2
      BY <1>1, <1>7, <1>9, <3>1
    <3>4. ~ (k1 + k2 > a1) => a1 >= k1 + k2
      BY <1>1
    <3> QED BY <3>2, <3>3, <3>4, Zenon
  <2> QED BY <2>1, <2>2, Zenon
<1> QED BY <1>8, <1>9 DEF k1, k2, a1, a2

\* What the proofs know of the leader's state, and of what comes from a process.
LeaderNulls(T, s) == Counted(T, s) /\ (s # NULL => s.aitems = Len(s.nullbitmap))
PartNulls(T, s) == Counted(T, s) /\ NullsExact(T, s)

\* array_2d_agg_combine on two states that are there.
LEMMA CombineAppendNulls ==
  ASSUME NEW T, NEW s1 \in States, NEW s2 \in States, CombineAppend(s1, s2) \in States,
         s2.nitems > 0, BitmapInBounds(s2), LeaderNulls(T, s1), PartNulls(T, s2)
  PROVE  /\ LeaderNulls(T, CombineAppend(s1, s2))
         /\ /\ NullsExact(T, s1)
            /\ s1.nullbitmap = <<>> \/ s2.nullbitmap # <<>>
            => NullsExact(T, CombineAppend(s1, s2))
<1> DEFINE t == CombineAppend(s1, s2)
           n == CombineItems(s1, s2)
           m == s2.nitems
           src == s2.nullbitmap
           data == s2.data
<1>1. /\ s1 # NULL /\ s2 # NULL /\ m \in Nat \ {0} /\ src \in Seq(Bits)
      /\ s1.nitems \in Nat /\ data \in Seq(Rows)
  <2>1. s1 # NULL /\ s2 # NULL
    BY NullAssumption, Zenon
  <2>2. m \in Nat /\ src \in Seq(Bits) /\ data \in Seq(Rows)
    BY DEF States
  <2>3. s1.nitems \in Nat
    BY DEF States
  <2>4. m # 0
    <3> HIDE DEF m
    <3>1. m > 0
      BY DEF m
    <3> QED BY <2>2, <3>1
  <2> QED BY <2>1, <2>2, <2>3, <2>4
<1>2. Known(T, data) /\ Len(RowBits(T, data)) = m /\ Counted(T, s1)
  BY <1>1, Zenon DEF Counted, PartNulls, LeaderNulls
<1>3. t.data = s1.data \o data /\ t.nitems = s1.nitems + m
      /\ t.aitems = n /\ t.nullbitmap = CombineBitmap(s1, s2)
  BY Zenon DEF CombineAppend
<1>4. t.nullbitmap = IF src = <<>> THEN s1.nullbitmap
                     ELSE BitmapCopy(AllocBitmap(s1, n), s1.nitems, src, m)
  BY <1>3, Zenon DEF CombineBitmap
<1>5. /\ n \in Nat /\ (src = <<>> => n = s1.aitems)
  BY CombineRoom, Zenon DEF CombineItems
<1>6. s1.aitems = Len(s1.nullbitmap) /\ s2.aitems = Len(src) /\ (src # <<>> => m <= s2.aitems)
  BY <1>1, Zenon DEF LeaderNulls, BitmapInBounds
<1>7. src = <<>> \/ m <= Len(src)
  BY <1>6, Zenon
<1>8. /\ NullsExact(T, s2)
      /\ (s1.nullbitmap # <<>> => s1.nitems <= s1.aitems) /\ src # <<>>
         => n >= s1.nitems + m
  BY <1>6, CombineRoom, Zenon DEF PartNulls
<1>9. t \in States
  OBVIOUS
<1> HIDE DEF t, n
<1>10. Counted(T, t)
  BY <1>2, <1>3, CountedAfter, Zenon
<1>11. t.aitems = Len(t.nullbitmap)
  <2>1. CASE src = <<>>
    BY <1>3, <1>4, <1>5, <1>6, <2>1, Zenon
  <2>2. CASE src # <<>>
    <3>1. AllocBitmap(s1, n) \in Seq(Bits) /\ Len(AllocBitmap(s1, n)) = n
      BY <1>5, AllocBitmapType, Zenon
    <3>2. Len(BitmapCopy(AllocBitmap(s1, n), s1.nitems, src, m)) = n
      BY <1>1, <1>7, <3>1, BitmapCopyType
    <3> QED BY <1>3, <1>4, <2>2, <3>2, Zenon
  <2> QED BY <2>1, <2>2, Zenon
<1>12. ASSUME NullsExact(T, s1), s1.nullbitmap = <<>> \/ src # <<>>
       PROVE  NullsExact(T, t)
  <2>1. s1.nullbitmap # <<>> => s1.nitems <= s1.aitems
    BY <1>1, <1>6, <1>12, Zenon DEF NullsExact
  <2>2. src # <<>> \/ s1.nullbitmap # <<>> => n >= s1.nitems + m
    BY <1>8, <1>12, <2>1, Zenon
  <2>3. t.nullbitmap = IF src = <<>> /\ s1.nullbitmap = <<>> THEN <<>>
                       ELSE BitmapCopy(AllocBitmap(s1, n), s1.nitems, src, m)
    BY <1>4, <1>12, Zenon
  <2>4. src = <<>> => Plain(T, data)
    <3>1. DOMAIN data = 1 .. Len(data)
      BY <1>1
    <3> QED BY <1>1, <1>8, <3>1, Zenon DEF NullsExact, Plain
  <2>5. Source(src, RowBits(T, data))
    <3> DEFINE b == RowBits(T, data)
    <3>1. CASE src = <<>>
      <4>1. AllOne(b)
        BY <1>2, <2>4, <3>1, RowBitsPlain, Zenon
      <4> QED BY <3>1, <4>1, Zenon DEF AllOne, Source
    <3>2. CASE src # <<>>
      <4>1. SubSeq(src, 1, m) = b
        BY <1>1, <1>8, <3>2, Zenon DEF NullsExact
      <4> HIDE DEF b
      <4>2. \A i \in 1 .. m : SubSeq(src, 1, m)[i] = src[i]
        BY <1>1, <1>7, <3>2
      <4>3. Len(b) = m
        BY <1>2 DEF b
      <4>4. \A i \in 1 .. Len(b) : b[i] = src[i]
        BY <4>1, <4>2, <4>3, Zenon
      <4>5. Len(b) <= Len(src)
        BY <1>7, <3>2, <4>3, Zenon
      <4>6. Source(src, b)
        BY <3>2, <4>4, <4>5, Zenon DEF Source
      <4> QED BY <4>6 DEF b
    <3> QED BY <3>1, <3>2, Zenon
  <2>6. m = Len(RowBits(T, data))
    BY <1>2, Zenon
  <2> HIDE DEF m, src, data
  <2> QED BY <1>1, <1>2, <1>3, <1>5, <1>9, <1>12, <2>2, <2>3, <2>4, <2>5, <2>6, ExactAfter, Zenon
<1> QED BY <1>10, <1>11, <1>12 DEF LeaderNulls, t

\* array_agg_array_deserialize and array_2d_agg_combine.
LEMMA CombineNulls ==
  ASSUME NEW T, NEW s1 \in States \cup {NULL}, NEW s2 \in States,
         CombineStates(s1, Deserialize(s2)) \in States,
         s2.nitems > 0, BitmapInBounds(s2), LeaderNulls(T, s1), PartNulls(T, s2)
  PROVE  /\ LeaderNulls(T, CombineStates(s1, Deserialize(s2)))
         /\ /\ NullsExact(T, s1)
            /\ s1 = NULL \/ s1.nullbitmap = <<>> \/ s2.nullbitmap # <<>>
            => NullsExact(T, CombineStates(s1, Deserialize(s2)))
<1> DEFINE d == Deserialize(s2)
<1>1. /\ d \in States /\ d.data = s2.data /\ d.nitems = s2.nitems
      /\ d.aitems = s2.aitems /\ d.nullbitmap = s2.nullbitmap
  BY Deserialized, Zenon
<1> HIDE DEF d
<1>2. s2 # NULL /\ d # NULL
  BY <1>1, NullAssumption
<1>3. PartNulls(T, d) /\ BitmapInBounds(d)
  BY <1>1, <1>2, Zenon DEF PartNulls, Counted, NullsExact, BitmapInBounds
<1>4. CASE s1 = NULL
  <2> DEFINE c == CombineCopy(d)
  <2>1. CombineStates(s1, d) = c
    BY <1>4, Zenon DEF CombineStates
  <2>2. /\ c.data = d.data /\ c.nitems = d.nitems
        /\ c.aitems = d.aitems /\ c.nullbitmap = d.nullbitmap
    BY <1>1 DEF CombineCopy, States
  <2> HIDE DEF c
  <2>3. LeaderNulls(T, c)
    BY <1>2, <1>3, <2>2, Zenon DEF LeaderNulls, PartNulls, Counted, BitmapInBounds
  <2>4. NullsExact(T, c)
    BY <1>2, <1>3, <2>2, Zenon DEF PartNulls, NullsExact
  <2> QED BY <2>1, <2>3, <2>4, Zenon DEF d
<1>5. CASE s1 # NULL
  <2>1. s1 \in States
    BY <1>5
  <2>2. CombineStates(s1, d) = CombineAppend(s1, d)
    BY <1>1, <1>5, Zenon DEF CombineStates
  <2>3. CombineAppend(s1, d) \in States
    BY <2>2, Zenon DEF d
  <2>4. d.nitems > 0
    BY <1>1, Zenon
  <2>5. /\ LeaderNulls(T, CombineAppend(s1, d))
        /\ /\ NullsExact(T, s1)
           /\ s1.nullbitmap = <<>> \/ d.nullbitmap # <<>>
           => NullsExact(T, CombineAppend(s1, d))
    BY <1>1, <1>3, <2>1, <2>3, <2>4, CombineAppendNulls, Zenon
  <2> QED BY <1>1, <1>5, <2>2, <2>5, Zenon DEF d
<1> QED BY <1>4, <1>5, Zenon

\* Counted items and exact bitmaps in the processes; of the leader's bitmap only
\* what CombineKeepsNulls needs.
NullInv ==
  /\ \A w \in Workers : PartNulls(table, state[w])
  /\ LeaderNulls(table, agg)

\* What the merge of the state of process w does to the bitmaps.
LEMMA CombineStep ==
  ASSUME Inv, NullInv, NEW w \in Workers, Combine(w)
  PROVE  /\ LeaderNulls(table, agg')
         /\ /\ NullsExact(table, agg)
            /\ agg = NULL \/ agg.nullbitmap = <<>> \/ state[w].nullbitmap # <<>>
            => NullsExact(table, agg')
<1> DEFINE s == state[w]
<1>1. /\ TypeOK /\ StatesOK(state, agg) /\ Partition(unclaimed, state, agg)
      /\ Stopped(unclaimed, pc, state)
  BY DEF Inv
<1>2. agg' = CombineStates(agg, Deserialize(s)) /\ pc[w] = "sent"
  BY DEF Combine
<1>3. /\ StateOK(agg) /\ StateOK(s) /\ BitmapInBounds(s)
      /\ s \in States /\ agg \in States \cup {NULL} /\ Held(agg) \cap Held(s) = {}
  BY <1>1, <1>2 DEF StatesOK, Partition, Stopped, TypeOK
<1>4. LeaderNulls(table, agg) /\ PartNulls(table, s)
  BY Zenon DEF NullInv
<1> HIDE DEF s
<1>5. CombineStates(agg, Deserialize(s)) \in States
  BY <1>3, CombineOK, Zenon
<1>6. s.nitems > 0
  BY <1>3, NullAssumption DEF StateOK
<1>7. /\ LeaderNulls(table, CombineStates(agg, Deserialize(s)))
      /\ /\ NullsExact(table, agg)
         /\ agg = NULL \/ agg.nullbitmap = <<>> \/ s.nullbitmap # <<>>
         => NullsExact(table, CombineStates(agg, Deserialize(s)))
  BY <1>3, <1>4, <1>5, <1>6, CombineNulls, Zenon
<1> QED BY <1>2, <1>7, Zenon DEF s

\* Every step keeps NullInv.
LEMMA NullStep == Inv /\ NullInv /\ [Next]_vars => NullInv'
<1> SUFFICES ASSUME Inv, NullInv, [Next]_vars PROVE NullInv'
  OBVIOUS
<1>1. /\ TypeOK /\ StatesOK(state, agg) /\ Partition(unclaimed, state, agg)
      /\ state \in [Workers -> States \cup {NULL}]
      /\ table \in [Rows -> Arrays \cup {NullArray}]
  BY DEF Inv, TypeOK
<1>2. /\ \A w \in Workers : PartNulls(table, state[w])
      /\ LeaderNulls(table, agg)
  BY Zenon DEF NullInv
<1>3. ASSUME NEW w \in Workers, NEW r \in Rows, Transfn(w, r) PROVE NullInv'
  <2>1. /\ UNCHANGED <<table, agg>> /\ state' = [state EXCEPT ![w] = Accumulate(@, r)]
        /\ r \in unclaimed /\ Accepts(state[w], r)
    BY <1>3, Zenon DEF Transfn
  <2>2. /\ StateOK(state[w]) /\ BitmapInBounds(state[w]) /\ r \notin Held(state[w])
        /\ state[w] \in States \cup {NULL}
    BY <1>1, <2>1 DEF StatesOK, Partition
  <2>3. Counted(table, state[w]) /\ NullsExact(table, state[w])
    BY <1>2, Zenon DEF PartNulls
  <2>4. PartNulls(table, Accumulate(state[w], r))
    BY <1>1, <2>1, <2>2, <2>3, AccumulateNulls, Zenon DEF PartNulls
  <2>5. \A v \in Workers : PartNulls(table, state'[v])
    BY <1>1, <1>2, <2>1, <2>4
  <2> QED BY <1>2, <2>1, <2>5 DEF NullInv
<1>4. ASSUME NEW w \in Workers, Combine(w) PROVE NullInv'
  <2>1. table' = table /\ state' = [state EXCEPT ![w] = NULL]
    BY <1>4 DEF Combine
  <2>2. PartNulls(table, NULL)
    BY Zenon DEF PartNulls, Counted, NullsExact
  <2>3. \A v \in Workers : PartNulls(table, state'[v])
    BY <1>1, <1>2, <2>1, <2>2
  <2>4. LeaderNulls(table, agg')
    BY <1>4, CombineStep, Zenon
  <2> QED BY <2>1, <2>3, <2>4 DEF NullInv
<1>5. ASSUME UNCHANGED <<table, state, agg>> PROVE NullInv'
  BY <1>2, <1>5 DEF NullInv
<1>6. ASSUME NEW w \in Workers,
             \/ \E r \in Rows : TransfnError(w, r)
             \/ Serialize(w) \/ SerializeNull(w) \/ NoGroup(w) \/ CombineError(w)
      PROVE  NullInv'
  BY <1>5, <1>6, Zenon DEF TransfnError, Serialize, SerializeNull, NoGroup, CombineError
<1>7. CASE Finalfn
  BY <1>5, <1>7 DEF Finalfn
<1>8. CASE UNCHANGED vars
  BY <1>5, <1>8 DEF vars
<1> QED BY <1>3, <1>4, <1>6, <1>7, <1>8, Zenon DEF Next

\* NullInv holds in every reachable state.
LEMMA NullHolds == Spec => []NullInv
<1>1. Init => NullInv
  BY Zenon DEF Init, NullInv, PartNulls, LeaderNulls, Counted, NullsExact
<1> QED BY <1>1, NullStep, InvHolds, PTL DEF Spec

\* However many rows a process has fetched and wherever the first null was,
\* accumArrayResultArr has marked every item as its row has it.
THEOREM WorkerBitmaps == Spec => []WorkerNullsExact
<1>1. NullInv => WorkerNullsExact
  BY Zenon DEF NullInv, PartNulls, WorkerNullsExact
<1> QED BY <1>1, NullHolds, PTL

\* array_2d_agg_combine keeps the leader's bitmap exact except where it appends
\* a state without a bitmap to one that has a bitmap.
THEOREM MergedBitmaps == Spec => CombineKeepsNulls
<1> DEFINE Keeps(w) ==
      /\ pc[w] = "sent" /\ pc'[w] = "done"
      /\ NullsExact(table, agg)
      /\ agg = NULL \/ agg.nullbitmap = <<>> \/ state[w].nullbitmap # <<>>
      => NullsExact(table, agg')
<1>1. Inv /\ NullInv /\ [Next]_vars => [\A w \in Workers : Keeps(w)]_vars
  <2> SUFFICES ASSUME Inv, NullInv, Next, NEW w \in Workers, pc[w] = "sent", pc'[w] = "done",
                      NullsExact(table, agg),
                      agg = NULL \/ agg.nullbitmap = <<>> \/ state[w].nullbitmap # <<>>
               PROVE  NullsExact(table, agg')
    OBVIOUS
  <2>1. pc \in [Workers -> {"scan", "sent", "done"}]
    BY Zenon DEF Inv, TypeOK
  <2>2. ASSUME NEW v \in Workers, NEW r \in Rows, Transfn(v, r) \/ TransfnError(v, r)
        PROVE  FALSE
    <3>1. pc' = pc
      BY <2>2, Zenon DEF Transfn, TransfnError
    <3> QED BY <3>1
  <2>3. ASSUME NEW v \in Workers, SerializeNull(v) \/ CombineError(v) \/ Finalfn PROVE FALSE
    <3>1. pc' = pc
      BY <2>3, Zenon DEF SerializeNull, CombineError, Finalfn
    <3> QED BY <3>1
  <2>4. ASSUME NEW v \in Workers, Serialize(v) \/ NoGroup(v) PROVE FALSE
    BY <2>1, <2>4 DEF Serialize, NoGroup
  <2>5. ASSUME NEW v \in Workers, Combine(v) PROVE v = w
    BY <2>1, <2>5 DEF Combine
  <2>6. Combine(w)
    BY <2>2, <2>3, <2>4, <2>5, Zenon DEF Next
  <2> QED BY <2>6, CombineStep, Zenon
<1> QED BY <1>1, InvHolds, NullHolds, PTL DEF Spec, CombineKeepsNulls
=============================================================================
