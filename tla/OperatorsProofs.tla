-------------------------- MODULE OperatorsProofs --------------------------
(***************************************************************************)
(* For all sessions, queries, weights and stored arrays, no header claims  *)
(* more rows than its array has data for, unless concat_array was given an *)
(* offset outside its input, or an input wider than the first.             *)
(***************************************************************************)
EXTENDS Operators, SequenceTheorems, WellFoundedInduction, TLAPS

\* A sequence, of whatever there is in it.
Listing(f) == Len(f) \in Nat /\ f = [i \in 1 .. Len(f) |-> f[i]]

\* An array whose header describes no more rows than there are.
Good(a) ==
  /\ a = [data |-> a.data, rows |-> a.rows, cols |-> a.cols]
  /\ Len(a.data) \in Nat /\ a.rows \in 0 .. Len(a.data) /\ a.cols \in Nat

\* A session's query and its results so far.
SessionOK(s, st, q, h) ==
  /\ st \in {"idle", "run", "done", "error"}
  /\ st # "idle" => q \in Queries[s]
  /\ Listing(h)
  /\ st = "done" => Len(h) = Len(q)
  /\ st \in {"run", "error"} => Len(h) < Len(q)

\* The arrays on disk, in the buffer and among the results.  While a query runs
\* the page is there.
ArraysOK(dk, pg, st, hs) ==
  /\ Good(dk)
  /\ pg # NULL => Good(pg)
  /\ \A s \in Sessions : st[s] = "run" => Good(pg)
  /\ \A s \in Sessions : \A i \in 1 .. Len(hs[s]) : Good(hs[s][i])

\* The inductive invariant.
Inv ==
  /\ storage \in {"plain", "extended"} /\ dirty \in BOOLEAN /\ overrun \in BOOLEAN
  /\ status = [s \in Sessions |-> status[s]]
  /\ query = [s \in Sessions |-> query[s]]
  /\ heap = [s \in Sessions |-> heap[s]]
  /\ \A s \in Sessions : SessionOK(s, status[s], query[s], heap[s])
  /\ ~overrun => ArraysOK(disk, page, status, heap)

----------------------------------------------------------------------------
(* Sequences and numbers *)

\* Every set of natural numbers that is not empty has a least element.
LEMMA Least ==
  ASSUME NEW S, S \subseteq Nat, S # {}
  PROVE  \E n \in S : \A m \in S : n <= m
  <1>1. PICK n \in S : \A m \in S : ~ (<<m, n>> \in OpToRel(<, Nat))
    BY NatLessThanWellFounded, WFMin, Zenon
  <1>2. \A m \in S : n \in Nat /\ m \in Nat /\ ~ (m < n)
    BY <1>1, Zenon DEF OpToRel
  <1> QED BY <1>2

\* A function on 1 .. n is a sequence.
LEMMA FunctionLen ==
  ASSUME NEW n \in Nat, NEW f, f = [i \in 1 .. n |-> f[i]]
  PROVE  Listing(f) /\ Len(f) = n
  <1>1. f \in [1 .. n -> {f[i] : i \in 1 .. n}]
    <2>1. \A i \in 1 .. n : f[i] \in {f[k] : k \in 1 .. n}
      OBVIOUS
    <2> QED BY <2>1
  <1>2. f \in Seq({f[i] : i \in 1 .. n})
    BY <1>1
  <1>3. Len(f) \in Nat /\ DOMAIN f = 1 .. Len(f)
    BY <1>2
  <1>4. DOMAIN f = 1 .. n
    BY <1>1
  <1>5. Len(f) = n
    BY <1>3, <1>4
  <1> QED BY <1>5 DEF Listing

\* The same where the bound may be negative.
LEMMA FunctionListing ==
  ASSUME NEW n \in Int, NEW f, f = [i \in 1 .. n |-> f[i]]
  PROVE  Listing(f) /\ Len(f) \in Nat
  <1>1. CASE n >= 0
    BY <1>1, FunctionLen
  <1>2. CASE n < 0
    <2>1. 1 .. n = 1 .. 0
      BY <1>2
    <2>2. f = [i \in 1 .. 0 |-> f[i]]
      BY <2>1, Zenon
    <2>3. 0 \in Nat
      OBVIOUS
    <2> QED BY <2>2, <2>3, FunctionLen, Zenon DEF Listing
  <1>3. n >= 0 \/ n < 0
    OBVIOUS
  <1> QED BY <1>1, <1>2, <1>3, Zenon

\* Sequences are listings.
LEMMA SeqListing ==
  ASSUME NEW S, NEW f \in Seq(S) PROVE Listing(f)
  BY DEF Listing

\* The converse.
LEMMA ListingSeq ==
  ASSUME NEW f, Listing(f) PROVE f \in Seq({f[i] : i \in 1 .. Len(f)})
  <1> DEFINE n == Len(f)
  <1>1. n \in Nat /\ f = [i \in 1 .. n |-> f[i]]
    BY DEF Listing
  <1> HIDE DEF n
  <1>2. \A i \in 1 .. n : f[i] \in {f[k] : k \in 1 .. n}
    OBVIOUS
  <1>3. f \in [1 .. n -> {f[i] : i \in 1 .. n}]
    BY <1>1, <1>2
  <1>4. f \in Seq({f[i] : i \in 1 .. n})
    BY <1>1, <1>3
  <1> QED BY <1>4 DEF n

\* One listing after another.
LEMMA ConcatListing ==
  ASSUME NEW f, NEW g, Listing(f), Listing(g)
  PROVE  Listing(f \o g)
  <1> DEFINE S == {f[i] : i \in 1 .. Len(f)} \cup {g[i] : i \in 1 .. Len(g)}
  <1>1. f \in Seq({f[i] : i \in 1 .. Len(f)}) /\ g \in Seq({g[i] : i \in 1 .. Len(g)})
    BY ListingSeq
  <1>2. f \in Seq(S) /\ g \in Seq(S)
    BY <1>1
  <1> HIDE DEF S
  <1>3. f \o g \in Seq(S)
    BY <1>2
  <1> QED BY <1>3, SeqListing, Zenon

\* One element more.
LEMMA AppendListing ==
  ASSUME NEW f, NEW x, Listing(f)
  PROVE  /\ Listing(Append(f, x)) /\ Len(Append(f, x)) = Len(f) + 1
         /\ \A i \in 1 .. Len(f) : Append(f, x)[i] = f[i]
         /\ Append(f, x)[Len(f) + 1] = x
  <1> DEFINE S == {f[i] : i \in 1 .. Len(f)} \cup {x}
  <1>1. f \in Seq({f[i] : i \in 1 .. Len(f)})
    BY ListingSeq
  <1>2. f \in Seq(S) /\ x \in S
    BY <1>1
  <1> HIDE DEF S
  <1>3. /\ Append(f, x) \in Seq(S) /\ Len(Append(f, x)) = Len(f) + 1
        /\ \A i \in 1 .. Len(f) : Append(f, x)[i] = f[i]
        /\ Append(f, x)[Len(f) + 1] = x
    BY <1>2
  <1>4. Listing(Append(f, x))
    BY <1>3, SeqListing, Zenon
  <1> QED BY <1>3, <1>4

\* One element written over.
IsWrite(g, f, k, x) ==
  /\ Listing(g) /\ Len(g) = Len(f) /\ g[k] = x
  /\ \A i \in 1 .. Len(f) : i # k => g[i] = f[i]

\* EXCEPT does that.
LEMMA ExceptListing ==
  ASSUME NEW f, Listing(f), NEW k \in 1 .. Len(f), NEW x
  PROVE  IsWrite([f EXCEPT ![k] = x], f, k, x)
  <1> DEFINE n == Len(f)
             g == [f EXCEPT ![k] = x]
  <1>1. n \in Nat /\ f = [i \in 1 .. n |-> f[i]]
    BY DEF Listing
  <1>2. k \in 1 .. n
    OBVIOUS
  <1> HIDE DEF n
  <1>3. DOMAIN f = 1 .. n
    BY <1>1, Zenon
  <1>4. g = [i \in 1 .. n |-> g[i]] /\ g[k] = x /\ \A i \in 1 .. n : i # k => g[i] = f[i]
    BY <1>2, <1>3, Zenon
  <1> HIDE DEF g
  <1>5. Listing(g) /\ Len(g) = n
    BY <1>1, <1>4, FunctionLen
  <1> QED BY <1>4, <1>5 DEF g, n, IsWrite

\* A part of a listing.
LEMMA SubSeqListing ==
  ASSUME NEW f, NEW m \in Int, NEW n \in Int
  PROVE  Listing(SubSeq(f, m, n))
  <1>1. \A i \in m .. n : f[i] \in {f[k] : k \in m .. n}
    OBVIOUS
  <1>2. SubSeq(f, m, n) \in Seq({f[k] : k \in m .. n})
    BY <1>1, SubSeqProperties
  <1> QED BY <1>2, SeqListing, Zenon

\* f holds the parts joined so far.
IsJoin(f, parts, m) ==
  f = [i \in 0 .. m |-> IF i = 0 THEN <<>> ELSE f[i - 1] \o parts[i]]

\* Any number of parts can be joined.
LEMMA JoinExists ==
  ASSUME NEW parts, NEW n \in Nat
  PROVE  \E f : IsJoin(f, parts, n)
  <1> DEFINE S == {m \in Nat : ~ \E f : IsJoin(f, parts, m)}
  <1> SUFFICES ASSUME S # {} PROVE FALSE
    OBVIOUS
  <1>1. PICK m \in S : \A k \in S : m <= k
    <2>1. S \subseteq Nat
      OBVIOUS
    <2> HIDE DEF S
    <2> QED BY <2>1, Least, Zenon
  <1>2. m \in Nat /\ ~ \E f : IsJoin(f, parts, m)
    OBVIOUS
  <1>3. CASE m = 0
    <2> DEFINE f == [i \in 0 .. m |-> <<>>]
    <2>1. IsJoin(f, parts, m)
      BY <1>3 DEF IsJoin
    <2> QED BY <1>2, <2>1
  <1>4. CASE m # 0
    <2>1. m - 1 \in Nat /\ ~ (m <= m - 1)
      BY <1>2, <1>4
    <2>2. m - 1 \notin S
      BY <1>1, <2>1
    <2>3. PICK f : IsJoin(f, parts, m - 1)
      BY <2>1, <2>2
    <2> DEFINE g == [i \in 0 .. m |-> IF i = m THEN f[m - 1] \o parts[m] ELSE f[i]]
    <2>4. ASSUME NEW i \in 0 .. m
          PROVE  g[i] = IF i = 0 THEN <<>> ELSE g[i - 1] \o parts[i]
      <3>1. CASE i = m
        <4>1. g[i] = f[m - 1] \o parts[m]
          BY <3>1, Zenon
        <4>2. m - 1 \in 0 .. m /\ m - 1 # m
          BY <2>1
        <4>3. g[m - 1] = f[m - 1]
          BY <4>2, Zenon
        <4> QED BY <1>4, <3>1, <4>1, <4>3, Zenon
      <3>2. CASE i # m
        <4>1. i \in 0 .. (m - 1)
          BY <1>2, <3>2
        <4>2. g[i] = f[i]
          BY <3>2
        <4>3. f[i] = IF i = 0 THEN <<>> ELSE f[i - 1] \o parts[i]
          BY <2>3, <4>1, Zenon DEF IsJoin
        <4>4. i # 0 => i - 1 \in 0 .. m /\ i - 1 # m
          BY <1>2, <4>1
        <4>5. i # 0 => g[i - 1] = f[i - 1]
          BY <4>4, Zenon
        <4> HIDE DEF g
        <4> QED BY <4>2, <4>3, <4>5
      <3> QED BY <3>1, <3>2
    <2>5. IsJoin(g, parts, m)
      <3> DEFINE e == [i \in 0 .. m |-> IF i = 0 THEN <<>> ELSE g[i - 1] \o parts[i]]
      <3>1. g = [i \in 0 .. m |-> g[i]]
        OBVIOUS
      <3> HIDE DEF g
      <3>2. g = e
        BY <2>4, <3>1
      <3> QED BY <3>2, Zenon DEF IsJoin
    <2> QED BY <1>2, <2>5
  <1> QED BY <1>3, <1>4

\* The parts are sequences, and so is what memcpy makes of them.
LEMMA JoinedListing ==
  ASSUME NEW parts, Listing(parts), \A i \in 1 .. Len(parts) : Listing(parts[i])
  PROVE  Listing(Joined(parts))
  <1> DEFINE n == Len(parts)
  <1>1. n \in Nat
    BY DEF Listing
  <1>2. PICK f : f = [i \in 0 .. n |-> IF i = 0 THEN <<>> ELSE f[i - 1] \o parts[i]]
                 /\ Joined(parts) = f[n]
    <2>1. \E f : f = [i \in 0 .. n |-> IF i = 0 THEN <<>> ELSE f[i - 1] \o parts[i]]
      BY <1>1, JoinExists, Zenon DEF IsJoin
    <2> QED BY <2>1, Zenon DEF Joined
  <1>3. \A i \in 1 .. n : Listing(parts[i])
    OBVIOUS
  <1> HIDE DEF n
  <1> DEFINE S == {m \in 0 .. n : ~ Listing(f[m])}
  <1>4. S = {}
    <2> SUFFICES ASSUME S # {} PROVE FALSE
      OBVIOUS
    <2>1. PICK m \in S : \A k \in S : m <= k
      <3>1. S \subseteq Nat
        BY <1>1
      <3> HIDE DEF S
      <3> QED BY <3>1, Least, Zenon
    <2>2. m \in 0 .. n /\ ~ Listing(f[m])
      OBVIOUS
    <2>3. CASE m = 0
      <3>1. f[m] = <<>>
        BY <1>2, <2>2, <2>3, Zenon
      <3>2. Listing(<<>>)
        BY DEF Listing
      <3> QED BY <2>2, <3>1, <3>2
    <2>4. CASE m # 0
      <3>1. m - 1 \in 0 .. n /\ ~ (m <= m - 1) /\ m \in 1 .. n
        BY <1>1, <2>2, <2>4
      <3>2. Listing(f[m - 1])
        BY <2>1, <3>1
      <3>3. f[m] = f[m - 1] \o parts[m]
        BY <1>2, <2>2, <2>4, Zenon
      <3>4. Listing(f[m])
        BY <1>3, <3>1, <3>2, <3>3, ConcatListing
      <3> QED BY <2>2, <3>4
    <2> QED BY <2>3, <2>4
  <1>5. n \in 0 .. n
    BY <1>1
  <1> QED BY <1>2, <1>4, <1>5, Zenon

----------------------------------------------------------------------------
(* The sizes *)

\* sqrt has the value that ISqrt describes: the least w with n < (w + 1)^2.
LEMMA RootType ==
  ASSUME NEW n \in Nat
  PROVE  ISqrt(n) \in Nat
  <1> DEFINE S == {w \in Nat : (w + 1) * (w + 1) > n}
  <1>1. n \in S
    <2>1. (n + 1) * (n + 1) = n * n + n + n + 1 /\ n * n \in Nat
      OBVIOUS
    <2> QED BY <2>1
  <1>2. PICK w \in S : \A m \in S : w <= m
    <2>1. S \subseteq Nat
      OBVIOUS
    <2> HIDE DEF S
    <2> QED BY <1>1, <2>1, Least, Zenon
  <1>3. w * w <= n
    <2>1. CASE w = 0
      BY <2>1
    <2>2. CASE w # 0
      <3>1. w - 1 \in Nat
        BY <2>2
      <3>2. w - 1 \notin S
        BY <1>2, <3>1
      <3>3. ~ ((w - 1 + 1) * (w - 1 + 1) > n)
        BY <3>1, <3>2
      <3>4. w - 1 + 1 = w
        OBVIOUS
      <3> QED BY <3>3, <3>4
    <2> QED BY <2>1, <2>2
  <1>4. w <= n
    BY <1>1, <1>2
  <1>5. \E q \in 0 .. n : q * q <= n /\ (q + 1) * (q + 1) > n
    BY <1>3, <1>4
  <1>6. ISqrt(n) \in 0 .. n
    BY <1>5, Zenon DEF ISqrt
  <1> QED BY <1>6

\* A quotient is an integer.
LEMMA QuotientType ==
  ASSUME NEW m \in Int, NEW n \in Nat \ {0}
  PROVE  Quotient(m, n) \in Int
  BY DEF Quotient

\* A square is not negative.
LEMMA SquareType ==
  ASSUME NEW m \in Int
  PROVE  m * m \in Nat
  OBVIOUS

\* The numbers of a call.
Numbers(c) == c.k \in Nat /\ c.p \in Nat /\ c.s \in Nat \ {0} /\ c.n \in Nat \ {0}

\* A side of the output is an integer, which a large kernel makes negative.
LEMMA SideType ==
  ASSUME NEW c, NEW a, Numbers(c), Good(a), NEW k \in Nat, NEW p \in Nat
  PROVE  Side(c, a, k, p) \in Int
  <1>1. ISqrt(a.cols) \in Nat
    BY RootType DEF Good
  <1>2. ISqrt(a.cols) + 2 * p - k \in Int
    BY <1>1
  <1>3. Quotient(ISqrt(a.cols) + 2 * p - k, c.s) \in Int
    BY <1>2, QuotientType DEF Numbers
  <1> QED BY <1>3 DEF Side

\* How many elements the operators put in a row.
LEMMA NelemsType ==
  ASSUME NEW c, NEW a, Numbers(c), Good(a)
  PROVE  /\ OutNelems(c, a) \in Nat /\ OutNelemsShort(c, a) \in Nat
         /\ OutNelemsNs(c, a) \in Int
  <1>1. OutNelems(c, a) \in Nat
    <2>1. Side(c, a, c.k, c.p) \in Int
      BY SideType DEF Numbers
    <2> QED BY <2>1, SquareType DEF OutNelems
  <1>2. OutNelemsNs(c, a) \in Int
    <2>1. Side(c, a, c.k, c.p) \in Int
      BY SideType DEF Numbers
    <2>2. 1 \in Nat /\ 0 \in Nat
      OBVIOUS
    <2>3. Side(c, a, 1, 0) \in Int
      BY <2>2, SideType, Zenon
    <2> QED BY <2>1, <2>3 DEF OutNelemsNs
  <1>3. OutNelemsShort(c, a) \in Nat
    <2> DEFINE side == Quotient(ISqrt(a.cols) + 2 * c.p - c.k + 1, c.s)
    <2>1. ISqrt(a.cols) \in Nat
      BY RootType DEF Good
    <2>2. ISqrt(a.cols) + 2 * c.p - c.k + 1 \in Int
      BY <2>1 DEF Numbers
    <2>3. side \in Int
      BY <2>2, QuotientType DEF Numbers
    <2> HIDE DEF side
    <2>4. side * side \in Nat
      BY <2>3, SquareType
    <2> QED BY <2>4 DEF OutNelemsShort, side
  <1> QED BY <1>1, <1>2, <1>3

----------------------------------------------------------------------------
(* What the operators return *)

\* construct_md_array
LEMMA ArrayGood ==
  ASSUME NEW data, NEW cols, Listing(data), cols \in Nat
  PROVE  Good(Array(data, cols)) /\ Array(data, cols).rows = Len(data)
  <1>1. Len(data) \in Nat
    BY DEF Listing
  <1>2. Len(data) \in 0 .. Len(data)
    BY <1>1
  <1> QED BY <1>1, <1>2 DEF Good, Array

\* What an operator reads is a sequence.
LEMMA RowsListing ==
  ASSUME NEW a, a.rows \in Int
  PROVE  Listing(Rows(a))
  <1> DEFINE f == Rows(a)
  <1>1. f = [i \in 1 .. a.rows |-> f[i]]
    BY DEF Rows
  <1> HIDE DEF f
  <1>2. Listing(f)
    BY <1>1, FunctionListing
  <1> QED BY <1>2 DEF f

\* An array with a row for each number up to n.
LEMMA TableGood ==
  ASSUME NEW n \in Nat, NEW f, f = [i \in 1 .. n |-> f[i]], NEW cols \in Nat
  PROVE  Good(Array(f, cols)) /\ Array(f, cols).rows = n
  <1>1. Listing(f) /\ Len(f) = n
    BY FunctionLen
  <1> QED BY <1>1, ArrayGood

\* A product has a row for each row of the weight.
LEMMA GemmGood ==
  ASSUME NEW c, c.w \in DOMAIN Weights, NEW rows, NEW cols \in Nat
  PROVE  /\ Good(Gemm(c, rows, cols)) /\ Good(GemmLinear(c, rows, cols))
         /\ Gemm(c, rows, cols).rows \in Nat
  <1> DEFINE w == Weights[c.w]
             P(k) == <<"gemm", c.w, k, rows, c.k, c.p, c.s>>
             f == [k \in 1 .. w.rows |->
                     IF w.bias = w.rows THEN <<"relu", <<"bias", c.w, k, P(k)>>>> ELSE P(k)]
             g == [k \in 1 .. w.rows |->
                     IF w.bias = w.rows THEN <<"bias", c.w, k, P(k)>> ELSE P(k)]
  <1>1. w.rows \in Nat
    BY TableAssumption
  <1>2. f = [k \in 1 .. w.rows |-> f[k]] /\ g = [k \in 1 .. w.rows |-> g[k]]
    OBVIOUS
  <1>3. Gemm(c, rows, cols) = Array(f, cols) /\ GemmLinear(c, rows, cols) = Array(g, cols)
    BY Zenon DEF Gemm, GemmLinear
  <1> HIDE DEF f, g, w
  <1>4. /\ Good(Array(f, cols)) /\ Array(f, cols).rows = w.rows
        /\ Good(Array(g, cols))
    BY <1>1, <1>2, TableGood, Zenon
  <1> QED BY <1>1, <1>3, <1>4

\* The arguments of a call.
ArgsOK(c, args) ==
  /\ Listing(args) /\ Len(args) = Len(c.arg) /\ Len(args) >= 1
  /\ \A i \in 1 .. Len(args) : Good(args[i])

\* An operator has a first argument.
LEMMA FirstGood ==
  ASSUME NEW c, NEW args, ArgsOK(c, args)
  PROVE  Good(args[1])
  <1>1. 1 \in 1 .. Len(args)
    BY DEF ArgsOK, Listing
  <1> QED BY <1>1 DEF ArgsOK

\* The operators that keep the rows of their input.
LEMMA ElementwiseGood ==
  ASSUME NEW c, NEW a, NEW b, Numbers(c), Good(a)
  PROVE  /\ Good(relu(a)) /\ Good(madd(a, b)) /\ Good(pool(c, a))
         /\ Good(batchnorm(c, a)) /\ Good(im2col(c, a))
         /\ c.w \in DOMAIN Weights => Good(mat_mul(c, a))
  <1>1. a.rows \in Nat /\ a.cols \in Nat
    BY DEF Good
  <1>2. OutNelems(c, a) \in Nat /\ OutNelemsShort(c, a) \in Nat
    BY NelemsType
  <1>3. Good(relu(a))
    <2> DEFINE f == [i \in 1 .. a.rows |-> Rectify(Rows(a)[i])]
    <2>1. f = [i \in 1 .. a.rows |-> f[i]]
      OBVIOUS
    <2>2. relu(a) = Array(f, a.cols)
      BY Zenon DEF relu
    <2> HIDE DEF f
    <2> QED BY <1>1, <2>1, <2>2, TableGood
  <1>4. Good(madd(a, b))
    <2> DEFINE f == [i \in 1 .. a.rows |-> IF a.cols = b.cols /\ i <= Len(b.data)
                       THEN <<"sum", Rows(a)[i], b.data[i]>> ELSE Garbage]
    <2>1. f = [i \in 1 .. a.rows |-> f[i]]
      OBVIOUS
    <2>2. madd(a, b) = Array(f, a.cols)
      BY Zenon DEF madd
    <2> HIDE DEF f
    <2> QED BY <1>1, <2>1, <2>2, TableGood
  <1>5. Good(pool(c, a))
    <2> DEFINE f == [i \in 1 .. a.rows |-> <<c.op, Rows(a)[i], c.k, c.p, c.s>>]
    <2>1. f = [i \in 1 .. a.rows |-> f[i]]
      OBVIOUS
    <2>2. pool(c, a) = Array(f, OutNelems(c, a))
      BY Zenon DEF pool
    <2> HIDE DEF f
    <2> QED BY <1>1, <1>2, <2>1, <2>2, TableGood
  <1>6. Good(batchnorm(c, a))
    <2> DEFINE f == [i \in 1 .. a.rows |-> <<"norm", i, Rows(a)[i]>>]
    <2>1. f = [i \in 1 .. a.rows |-> f[i]]
      OBVIOUS
    <2>2. batchnorm(c, a) = Array(f, a.cols)
      BY Zenon DEF batchnorm
    <2> HIDE DEF f
    <2> QED BY <1>1, <2>1, <2>2, TableGood
  <1>7. Good(im2col(c, a))
    <2> DEFINE n == OutNelemsShort(c, a)
               f == [i \in 1 .. n |-> <<"window", i, Rows(a), c.k, c.p, c.s>>]
    <2>1. f = [i \in 1 .. n |-> f[i]]
      OBVIOUS
    <2>2. im2col(c, a) = Array(f, a.rows * c.k * c.k)
      BY Zenon DEF im2col
    <2>3. n \in Nat
      BY <1>2
    <2>4. a.rows * c.k * c.k \in Nat
      BY <1>1 DEF Numbers
    <2> HIDE DEF f, n
    <2> QED BY <2>1, <2>2, <2>3, <2>4, TableGood
  <1>8. ASSUME c.w \in DOMAIN Weights PROVE Good(mat_mul(c, a))
    <2> DEFINE f == [i \in 1 .. a.rows |-> <<"gemm", c.w, 0, <<Rows(a)[i]>>, c.k, c.p, c.s>>]
    <2>1. f = [i \in 1 .. a.rows |-> f[i]]
      OBVIOUS
    <2>2. mat_mul(c, a) = Array(f, Weights[c.w].cols)
      BY Zenon DEF mat_mul
    <2>3. Weights[c.w].cols \in Nat
      BY <1>8, TableAssumption
    <2> HIDE DEF f
    <2> QED BY <1>1, <2>1, <2>2, <2>3, TableGood
  <1> QED BY <1>3, <1>4, <1>5, <1>6, <1>7, <1>8

\* The operators that multiply by a weight.
LEMMA ProductGood ==
  ASSUME NEW c, NEW a, Numbers(c), Good(a), c.w \in DOMAIN Weights
  PROVE  /\ Good(kfm(c, a)) /\ Good(kfm_nt(c, a)) /\ Good(mvm(c, a))
         /\ Good(avgpool_conv(c, a)) /\ Good(kfm_im2col(c, a))
         /\ OutNelemsNs(c, a) >= 0 => Good(kfm_im2col_ns(c, a))
         /\ Good(group_kfm_im2col(c, a)) /\ Good(conv_text(c, a))
  <1>1. a.rows \in Nat /\ a.cols \in Nat /\ 1 \in Nat
    BY DEF Good
  <1>2. OutNelems(c, a) \in Nat /\ OutNelemsShort(c, a) \in Nat /\ OutNelemsNs(c, a) \in Int
    BY NelemsType
  <1>3. Good(kfm(c, a)) /\ Good(kfm_nt(c, a)) /\ Good(mvm(c, a))
    BY <1>1, GemmGood, Zenon DEF kfm, kfm_nt, mvm
  <1>4. Good(avgpool_conv(c, a)) /\ Good(kfm_im2col(c, a))
    BY <1>2, GemmGood, Zenon DEF avgpool_conv, kfm_im2col
  <1>5. ASSUME OutNelemsNs(c, a) >= 0 PROVE Good(kfm_im2col_ns(c, a))
    <2>1. OutNelemsNs(c, a) \in Nat
      BY <1>2, <1>5
    <2> QED BY <2>1, GemmGood, Zenon DEF kfm_im2col_ns
  <1>6. Good(group_kfm_im2col(c, a))
    <2> DEFINE sub == a.rows \div c.n
               w == Weights[c.w]
               group(k) == (k - 1) \div w.rows
               P(k) == <<"gemm", c.w, k, SubSeq(Rows(a), group(k) * sub + 1,
                           (group(k) + 1) * sub), c.k, c.p, c.s>>
               n == w.rows * c.n
               f == [k \in 1 .. n |-> IF w.bias = n
                       THEN <<"relu", <<"bias", c.w, k, P(k)>>>> ELSE P(k)]
    <2>1. f = [k \in 1 .. n |-> f[k]]
      OBVIOUS
    <2>2. group_kfm_im2col(c, a) = Array(f, OutNelemsShort(c, a))
      BY Zenon DEF group_kfm_im2col
    <2>3. w.rows \in Nat
      BY TableAssumption
    <2>4. n \in Nat
      BY <2>3 DEF Numbers
    <2> HIDE DEF f, n
    <2> QED BY <1>2, <2>1, <2>2, <2>4, TableGood
  <1>7. Good(conv_text(c, a))
    <2> DEFINE conv == Gemm(c, Rows(a), 1)
               f == [i \in 1 .. conv.rows |-> <<"max", conv.data[i]>>]
    <2>1. f = [i \in 1 .. conv.rows |-> f[i]]
      OBVIOUS
    <2>2. conv_text(c, a) = Array(f, 1)
      BY Zenon DEF conv_text
    <2>3. conv.rows \in Nat
      BY <1>1, GemmGood
    <2> HIDE DEF f, conv
    <2> QED BY <1>1, <2>1, <2>2, <2>3, TableGood
  <1> QED BY <1>3, <1>4, <1>5, <1>6, <1>7

\* The rows of an offset: their number is an integer.
LEMMA SliceType ==
  ASSUME NEW c, NEW a, Good(a), c.off = <<>> \/ c.off \in Int \X Int
  PROVE  Slice(c, a).rows \in Int
  <1>1. CASE c.off = <<>>
    BY <1>1 DEF Slice, Good
  <1>2. CASE c.off # <<>> /\ c.off \in Int \X Int
    <2>1. c.off[2] - c.off[1] + 1 \in Int
      BY <1>2
    <2>2. Slice(c, a).rows = c.off[2] - c.off[1] + 1
      BY <1>2 DEF Slice, Good
    <2> QED BY <2>1, <2>2
  <1> QED BY <1>1, <1>2

\* concat_array's result has the data its header says, whatever the offset.
LEMMA ConcatGood ==
  ASSUME NEW c, NEW args, ArgsOK(c, args), c.off = <<>> \/ c.off \in Int \X Int
  PROVE  Good(concat_array(c, args))
  <1> DEFINE n == Len(args)
             R(i) == Part(c, args, i)
             parts == [i \in 1 .. n |-> R(i)]
  <1>1. n \in Nat
    BY DEF ArgsOK, Listing
  <1>2. ASSUME NEW i \in 1 .. n PROVE Listing(R(i))
    <2>1. args[i].rows \in Int
      <3>1. Good(args[i])
        BY DEF ArgsOK
      <3> QED BY <3>1 DEF Good
    <2>2. CASE \E h \in 1 .. i : args[h].cols # args[1].cols
      <3> DEFINE f == [k \in 1 .. args[i].rows |-> Garbage]
      <3>1. f = [k \in 1 .. args[i].rows |-> f[k]]
        OBVIOUS
      <3>2. R(i) = f
        BY <2>2, Zenon DEF Part
      <3> HIDE DEF f
      <3> QED BY <2>1, <3>1, <3>2, FunctionListing
    <2>3. CASE ~ (\E h \in 1 .. i : args[h].cols # args[1].cols)
      <3>1. Slice(c, args[1]).rows \in Int
        BY FirstGood, SliceType
      <3>2. R(i) = Rows(IF i = 1 THEN Slice(c, args[1]) ELSE args[i])
        BY <2>3, Zenon DEF Part
      <3> QED BY <2>1, <3>1, <3>2, RowsListing
    <2> QED BY <2>2, <2>3
  <1> HIDE DEF R
  <1>3. parts = [i \in 1 .. n |-> parts[i]] /\ \A i \in 1 .. n : parts[i] = R(i)
    OBVIOUS
  <1>4. concat_array(c, args) = Array(Joined(parts), args[1].cols)
    BY Zenon DEF concat_array, R
  <1> HIDE DEF parts, n
  <1>5. Listing(parts) /\ Len(parts) = n
    BY <1>1, <1>3, FunctionLen
  <1>6. \A i \in 1 .. Len(parts) : Listing(parts[i])
    BY <1>2, <1>3, <1>5, Zenon
  <1>7. Listing(Joined(parts))
    BY <1>5, <1>6, JoinedListing
  <1>8. args[1].cols \in Nat
    BY FirstGood, Zenon DEF Good
  <1> QED BY <1>4, <1>7, <1>8, ArrayGood

\* So has split_array's.
LEMMA SplitGood ==
  ASSUME NEW c, NEW a, Numbers(c), Good(a)
  PROVE  Good(split_array(c, a))
  <1> DEFINE sub == a.rows \div c.n
             m == (c.k - 1) * sub + 1
             n == c.k * sub
  <1>1. a.rows \in Int /\ c.n \in Nat \ {0} /\ c.k \in Int
    BY DEF Good, Numbers
  <1>2. sub \in Int
    BY <1>1
  <1>3. m \in Int /\ n \in Int
    <2> HIDE DEF sub
    <2> QED BY <1>1, <1>2
  <1>4. split_array(c, a) = Array(SubSeq(Rows(a), m, n), a.cols)
    BY Zenon DEF split_array
  <1> HIDE DEF m, n
  <1>5. Listing(SubSeq(Rows(a), m, n))
    BY <1>3, SubSeqListing
  <1>6. a.cols \in Nat
    BY DEF Good
  <1> QED BY <1>4, <1>5, <1>6, ArrayGood

\* A call that raises no error returns a good array.
LEMMA OutGood ==
  ASSUME NEW c, NEW args, NEW j, IsCall(c, j), ArgsOK(c, args), ~ Raises(c, args)
  PROVE  Good(Out(c, args))
  <1> DEFINE a == args[1]
             b == args[2]
             r == Out(c, args)
  <1>1. Numbers(c) /\ (c.off = <<>> \/ c.off \in Int \X Int) /\ c.op \in Names
    BY DEF IsCall, Numbers
  <1>2. Good(a)
    BY FirstGood
  <1>3. c.op \in {"kfm", "avgpool_conv"} => c.w \in DOMAIN Weights
    BY DEF IsCall
  <1>4. ~ RaisesLast(c, args)
    BY DEF Raises
  <1>5. CASE c.op \in {"relu", "madd", "im2col", "maxpool", "avgpool", "batchnorm"}
    <2>1. /\ Good(relu(a)) /\ Good(madd(a, b)) /\ Good(pool(c, a))
          /\ Good(batchnorm(c, a)) /\ Good(im2col(c, a))
      BY <1>1, <1>2, ElementwiseGood, Zenon
    <2> QED BY <1>5, <2>1 DEF Out
  <1>6. CASE c.op = "mat_mul"
    <2>1. c.w \in DOMAIN Weights
      BY <1>4, <1>6 DEF RaisesLast, Missing, Convolutions
    <2>2. Good(mat_mul(c, a))
      BY <1>1, <1>2, <2>1, ElementwiseGood, Zenon
    <2> QED BY <1>6, <2>2 DEF Out
  <1>7. CASE c.op \in {"kfm", "avgpool_conv"}
    <2>1. Good(kfm(c, a)) /\ Good(avgpool_conv(c, a))
      BY <1>1, <1>2, <1>3, <1>7, ProductGood
    <2> QED BY <1>7, <2>1 DEF Out
  <1>8. CASE c.op \in {"kfm_nt", "kfm_nt_acti", "mvm", "kfm_im2col",
                       "group_kfm_im2col", "conv_text"}
    <2>1. c.w \in DOMAIN Weights
      BY <1>4, <1>8 DEF RaisesLast, Missing, Convolutions
    <2>2. /\ Good(kfm_nt(c, a)) /\ Good(mvm(c, a)) /\ Good(kfm_im2col(c, a))
          /\ Good(group_kfm_im2col(c, a)) /\ Good(conv_text(c, a))
      BY <1>1, <1>2, <2>1, ProductGood
    <2> QED BY <1>8, <2>2 DEF Out
  <1>9. CASE c.op = "kfm_im2col_ns"
    <2>1. c.w \in DOMAIN Weights /\ ~ (OutNelemsNs(c, a) < 0)
      BY <1>4, <1>9 DEF RaisesLast, Missing, Convolutions
    <2>2. OutNelemsNs(c, a) \in Int
      BY <1>1, <1>2, NelemsType
    <2>3. OutNelemsNs(c, a) >= 0
      BY <2>1, <2>2
    <2>4. Good(kfm_im2col_ns(c, a))
      BY <1>1, <1>2, <2>1, <2>3, ProductGood
    <2> QED BY <1>9, <2>4 DEF Out
  <1>10. CASE c.op \in {"concat_array", "split_array", "split_vertical_array"}
    <2>1. Good(concat_array(c, args)) /\ Good(split_array(c, a))
      BY <1>1, <1>2, ConcatGood, SplitGood
    <2>2. Good(split_vertical_array(a))
      BY <1>2 DEF split_vertical_array
    <2> QED BY <1>10, <2>1, <2>2 DEF Out
  <1> QED BY <1>1, <1>5, <1>6, <1>7, <1>8, <1>9, <1>10 DEF Names

----------------------------------------------------------------------------
(* What the operators leave *)

\* New data of the same length, or another dims[0] within it.
LEMMA WrittenGood ==
  ASSUME NEW a, Good(a)
  PROVE  /\ \A d : Len(d) = Len(a.data) => Good([a EXCEPT !.data = d])
         /\ \A n \in 0 .. Len(a.data) : Good([a EXCEPT !.rows = n])
  <1>1. ASSUME NEW d, Len(d) = Len(a.data) PROVE Good([a EXCEPT !.data = d])
    <2>1. [a EXCEPT !.data = d] = [data |-> d, rows |-> a.rows, cols |-> a.cols]
      BY DEF Good
    <2> QED BY <1>1, <2>1 DEF Good
  <1>2. ASSUME NEW n \in 0 .. Len(a.data) PROVE Good([a EXCEPT !.rows = n])
    <2>1. [a EXCEPT !.rows = n] = [data |-> a.data, rows |-> n, cols |-> a.cols]
      BY DEF Good
    <2> QED BY <2>1 DEF Good
  <1> QED BY <1>1, <1>2

\* An offset that was tested, by the operator or by its caller, leaves no more
\* rows than there are.
LEMMA SliceWithin ==
  ASSUME NEW c, NEW a, Good(a), c.off = <<>> \/ c.off \in Int \X Int,
         \/ ~ InvalidOffset(c, a)
         \/ c.off # <<>> => /\ c.off[1] - 1 >= 0 /\ c.off[2] <= Len(a.data)
                            /\ c.off[1] - 1 <= c.off[2]
  PROVE  Slice(c, a).rows \in 0 .. Len(a.data)
  <1> DEFINE d == Len(a.data)
             n == a.rows
  <1>1. n \in Nat /\ d \in Nat /\ n <= d
    BY DEF Good
  <1>2. CASE c.off = <<>>
    BY <1>1, <1>2 DEF Slice
  <1>3. CASE c.off # <<>> /\ c.off \in Int \X Int
    <2> DEFINE f == c.off[1]
               l == c.off[2]
    <2>1. f \in Int /\ l \in Int
      BY <1>3
    <2>2. Slice(c, a).rows = l - f + 1
      BY <1>3 DEF Slice, Good
    <2>3. \/ f - 1 >= 0 /\ l <= n /\ f - 1 < l
          \/ f - 1 >= 0 /\ l <= d /\ f - 1 <= l
      BY <1>1, <1>3, <2>1 DEF InvalidOffset
    <2> HIDE DEF f, l, d, n
    <2>4. l - f + 1 \in 0 .. d
      BY <1>1, <2>1, <2>3
    <2> QED BY <2>2, <2>4 DEF d
  <1> QED BY <1>2, <1>3

\* The first argument is still good after the call, whether it fails or not.
LEMMA AfterGood ==
  ASSUME NEW c, NEW args, NEW j, IsCall(c, j), ArgsOK(c, args), ~ Overruns(c, args)
  PROVE  Good(After(c, args))
  <1> DEFINE a == args[1]
             Over(rows) == [i \in 1 .. Len(a.data) |->
                              IF i <= Len(rows) THEN rows[i] ELSE a.data[i]]
  <1>1. Numbers(c) /\ (c.off = <<>> \/ c.off \in Int \X Int)
    BY DEF IsCall, Numbers
  <1>2. Good(a)
    BY FirstGood
  <1>3. ASSUME NEW rows PROVE Good([a EXCEPT !.data = Over(rows)])
    <2> DEFINE f == Over(rows)
               n == Len(a.data)
    <2>1. n \in Nat /\ f = [i \in 1 .. n |-> f[i]]
      BY <1>2 DEF Good
    <2> HIDE DEF f, n
    <2>2. Len(f) = n
      BY <2>1, FunctionLen
    <2>3. Good([a EXCEPT !.data = f])
      BY <1>2, <2>2, WrittenGood, Zenon DEF n
    <2> QED BY <2>3 DEF f
  <1>4. \A n \in 0 .. Len(a.data) : Good([a EXCEPT !.rows = n])
    BY <1>2, WrittenGood
  <1>5. CASE RaisesFirst(c, args)
    BY <1>2, <1>5 DEF After
  <1>6. CASE ~ RaisesFirst(c, args) /\ c.op = "relu"
    <2>1. After(c, args) = [a EXCEPT !.data = Over(relu(a).data)]
      BY <1>6 DEF After, Slicing, Convolutions
    <2> QED BY <1>3, <2>1, Zenon
  <1>7. CASE ~ RaisesFirst(c, args) /\ c.op = "madd"
    <2>1. After(c, args) = [a EXCEPT !.data = Over(madd(a, args[2]).data)]
      BY <1>7 DEF After, Slicing, Convolutions
    <2> QED BY <1>3, <2>1, Zenon
  <1>8. CASE ~ RaisesFirst(c, args) /\ c.op \in Slicing
    <2>1. After(c, args) = [a EXCEPT !.rows = Slice(c, a).rows]
      BY <1>8 DEF After, Slicing, Convolutions
    <2>2. c.op = "concat_array" /\ c.off # <<>> =>
            /\ c.off[1] - 1 >= 0 /\ c.off[2] <= Len(a.data) /\ c.off[1] - 1 <= c.off[2]
      BY <1>1, <1>2 DEF Overruns, Good
    <2>4. c.op # "concat_array" => ~ InvalidOffset(c, a)
      BY <1>8 DEF RaisesFirst, Slicing, Convolutions
    <2>3. Slice(c, a).rows \in 0 .. Len(a.data)
      BY <1>1, <1>2, <2>2, <2>4, SliceWithin
    <2> QED BY <1>4, <2>1, <2>3, Zenon
  <1>9. CASE ~ RaisesFirst(c, args) /\ c.op = "group_kfm_im2col"
    <2>1. After(c, args) = [a EXCEPT !.rows = a.rows \div c.n]
      BY <1>9 DEF After, Slicing, Convolutions
    <2>2. a.rows \div c.n \in 0 .. Len(a.data)
      <3> DEFINE n == a.rows
                 d == Len(a.data)
                 m == c.n
      <3>1. n \in Nat /\ d \in Nat /\ n <= d /\ m \in Nat /\ m >= 1
        BY <1>1, <1>2 DEF Good, Numbers
      <3> HIDE DEF n, d, m
      <3>2. n \div m \in Nat /\ n \div m <= n
        BY <3>1
      <3>3. n \div m \in 0 .. d
        BY <3>1, <3>2
      <3> QED BY <3>3 DEF n, d, m
    <2> QED BY <1>4, <2>1, <2>2, Zenon
  <1>10. CASE /\ ~ RaisesFirst(c, args)
             /\ c.op \notin Slicing \cup {"relu", "madd", "group_kfm_im2col"}
    <2>1. After(c, args) = a
      BY <1>10 DEF After, Slicing, Convolutions
    <2> QED BY <1>2, <2>1
  <1> QED BY <1>5, <1>6, <1>7, <1>8, <1>9, <1>10

----------------------------------------------------------------------------
(* The steps *)

\* Initially there are no results.
LEMMA InitHolds == Init => Inv
  <1> SUFFICES ASSUME Init PROVE Inv
    OBVIOUS
  <1>1. Good(Stored)
    BY TableAssumption DEF Good
  <1>2. Listing(<<>>) /\ Len(<<>>) = 0
    BY DEF Listing
  <1>3. /\ storage \in {"plain", "extended"} /\ dirty \in BOOLEAN /\ overrun \in BOOLEAN
        /\ status = [s \in Sessions |-> status[s]]
        /\ query = [s \in Sessions |-> query[s]]
        /\ heap = [s \in Sessions |-> heap[s]]
    BY TableAssumption, Zenon DEF Init
  <1>4. ASSUME NEW s \in Sessions PROVE SessionOK(s, status[s], query[s], heap[s])
    <2>1. status[s] = "idle" /\ heap[s] = <<>>
      BY DEF Init
    <2> QED BY <1>2, <2>1 DEF SessionOK
  <1>5. ArraysOK(disk, page, status, heap)
    <2>1. disk = Stored /\ page = NULL
      BY DEF Init
    <2>2. \A s \in Sessions : status[s] = "idle" /\ heap[s] = <<>>
      BY DEF Init
    <2>3. \A i : i \notin 1 .. 0
      OBVIOUS
    <2> QED BY <1>1, <1>2, <2>1, <2>2, <2>3 DEF ArraysOK
  <1> QED BY <1>3, <1>4, <1>5 DEF Inv

\* A query starts with no results and with the page in the buffer.
LEMMA FetchStep ==
  ASSUME Inv, NEW s \in Sessions, Fetch(s) PROVE Inv'
  <1>1. PICK q \in Queries[s] : query' = [query EXCEPT ![s] = q]
    BY Zenon DEF Fetch
  <1>2. /\ page' = (IF page = NULL THEN disk ELSE page)
        /\ heap' = [heap EXCEPT ![s] = <<>>] /\ status' = [status EXCEPT ![s] = "run"]
        /\ storage' = storage /\ disk' = disk /\ dirty' = dirty /\ overrun' = overrun
    BY DEF Fetch
  <1>3. /\ status = [t \in Sessions |-> status[t]] /\ query = [t \in Sessions |-> query[t]]
        /\ heap = [t \in Sessions |-> heap[t]]
    BY DEF Inv
  <1>4. /\ status' = [t \in Sessions |-> status'[t]] /\ query' = [t \in Sessions |-> query'[t]]
        /\ heap' = [t \in Sessions |-> heap'[t]]
        /\ status'[s] = "run" /\ query'[s] = q /\ heap'[s] = <<>>
        /\ \A t \in Sessions : t # s =>
             status'[t] = status[t] /\ query'[t] = query[t] /\ heap'[t] = heap[t]
    BY <1>1, <1>2, <1>3, Zenon
  <1>5. Listing(<<>>) /\ Len(<<>>) = 0
    BY DEF Listing
  <1>6. ASSUME NEW t \in Sessions PROVE SessionOK(t, status'[t], query'[t], heap'[t])
    <2>1. CASE t = s
      <3>1. Len(q) > 0
        BY CallAssumption, Zenon
      <3> QED BY <1>4, <1>5, <2>1, <3>1 DEF SessionOK
    <2>2. CASE t # s
      BY <1>4, <2>2 DEF Inv
    <2> QED BY <2>1, <2>2
  <1>7. ASSUME ~ overrun PROVE ArraysOK(disk', page', status', heap')
    <2>1. ArraysOK(disk, page, status, heap)
      BY <1>7 DEF Inv
    <2>2. Good(disk') /\ Good(page')
      BY <1>2, <2>1 DEF ArraysOK
    <2>3. ASSUME NEW t \in Sessions, NEW i \in 1 .. Len(heap'[t]) PROVE Good(heap'[t][i])
      <3>1. CASE t = s
        <4>1. i \in 1 .. 0
          BY <1>4, <1>5, <3>1
        <4> QED BY <4>1
      <3>2. CASE t # s
        BY <1>4, <2>1, <3>2 DEF ArraysOK
      <3> QED BY <3>1, <3>2
    <2> QED BY <2>2, <2>3 DEF ArraysOK
  <1>8. storage' \in {"plain", "extended"} /\ dirty' \in BOOLEAN /\ overrun' \in BOOLEAN
    BY <1>2 DEF Inv
  <1> QED BY <1>2, <1>4, <1>6, <1>7, <1>8 DEF Inv

\* The call a session is at, and its arguments.
LEMMA CallType ==
  ASSUME Inv, NEW s \in Sessions, status[s] = "run"
  PROVE  /\ Listing(heap[s]) /\ Len(heap[s]) < Len(query[s]) /\ Len(query[s]) \in Nat
         /\ IsCall(Call(s), Len(heap[s]) + 1)
         /\ Listing(Args(s)) /\ Len(Args(s)) = Len(Call(s).arg) /\ Len(Args(s)) >= 1
         /\ Call(s).arg[1] \in 0 .. Len(heap[s])
         /\ ~ overrun => ArgsOK(Call(s), Args(s))
  <1> DEFINE h == heap[s]
             n == Len(h)
             c == Call(s)
             m == Len(c.arg)
  <1>1. SessionOK(s, status[s], query[s], h)
    BY DEF Inv
  <1>2. Listing(h) /\ n < Len(query[s]) /\ query[s] \in Queries[s]
    BY <1>1 DEF SessionOK
  <1>3. n \in Nat /\ Len(query[s]) \in Nat
    BY <1>2, CallAssumption DEF Listing
  <1>4. n + 1 \in 1 .. Len(query[s])
    BY <1>2, <1>3
  <1>5. IsCall(c, n + 1)
    BY <1>2, <1>4, CallAssumption, Zenon DEF Call
  <1>6. c.arg \in Seq(0 .. (n + 1 - 1)) /\ m >= 1
    BY <1>5 DEF IsCall
  <1>7. n + 1 - 1 = n
    BY <1>3
  <1>8. /\ m \in Nat /\ DOMAIN c.arg = 1 .. m /\ 1 \in 1 .. m
        /\ \A i \in 1 .. m : c.arg[i] \in 0 .. n
    BY <1>6, <1>7
  <1>9. Args(s) = [i \in 1 .. m |-> Args(s)[i]] /\ \A i \in 1 .. m : Args(s)[i] = Arg(s, c.arg[i])
    BY <1>8 DEF Args
  <1>10. Listing(Args(s)) /\ Len(Args(s)) = m
    BY <1>8, <1>9, FunctionLen
  <1>11. ASSUME ~ overrun, NEW i \in 1 .. m PROVE Good(Args(s)[i])
    <2>1. ArraysOK(disk, page, status, heap)
      BY <1>11 DEF Inv
    <2>2. Args(s)[i] = Arg(s, c.arg[i]) /\ c.arg[i] \in 0 .. n
      BY <1>8, <1>9, Zenon
    <2>3. CASE c.arg[i] = 0
      BY <2>1, <2>2, <2>3 DEF ArraysOK, Arg
    <2>4. CASE c.arg[i] # 0
      <3>1. c.arg[i] \in 1 .. n
        BY <1>3, <2>2, <2>4
      <3> QED BY <2>1, <2>2, <2>4, <3>1 DEF ArraysOK, Arg
    <2> QED BY <2>3, <2>4
  <1>12. ~ overrun => ArgsOK(c, Args(s))
    BY <1>6, <1>10, <1>11 DEF ArgsOK
  <1> QED BY <1>2, <1>3, <1>5, <1>6, <1>8, <1>10, <1>12

\* The result goes to the end of the results.
LEMMA EvaluateStep ==
  ASSUME Inv, NEW s \in Sessions, Evaluate(s) PROVE Inv'
  <1> DEFINE c == Call(s)
             args == Args(s)
             h == heap[s]
             n == Len(h)
             i == c.arg[1]
             a == After(c, args)
             o == Out(c, args)
             old == IF i = 0 THEN h ELSE [h EXCEPT ![i] = a]
             fails == Raises(c, args)
             new == IF fails THEN old ELSE Append(old, o)
             st == IF fails THEN "error" ELSE IF n + 1 = Len(query[s]) THEN "done" ELSE "run"
  <1>1. /\ Listing(h) /\ n < Len(query[s]) /\ Len(query[s]) \in Nat
        /\ IsCall(c, n + 1) /\ i \in 0 .. n
        /\ ~ overrun => ArgsOK(c, args)
    BY CallType DEF Evaluate
  <1>2. n \in Nat
    BY <1>1 DEF Listing
  <1>3. /\ status = [t \in Sessions |-> status[t]] /\ query = [t \in Sessions |-> query[t]]
        /\ heap = [t \in Sessions |-> heap[t]]
    BY DEF Inv
  <1>4. /\ status[s] = "run" /\ page' = (IF i = 0 /\ storage = "plain" THEN a ELSE page)
        /\ heap' = [heap EXCEPT ![s] = new] /\ status' = [status EXCEPT ![s] = st]
        /\ overrun' = (overrun \/ Overruns(c, args))
        /\ storage' = storage /\ disk' = disk /\ dirty' = dirty /\ query' = query
    BY Zenon DEF Evaluate, Left
  <1>5. ASSUME ~ overrun'
        PROVE  Good(a) /\ (fails \/ Good(o)) /\ ~ overrun
    BY <1>1, <1>4, <1>5, AfterGood, OutGood, Zenon
  <1> HIDE DEF a, o, i, c, args, fails
  <1>6. /\ Listing(old) /\ Len(old) = n
        /\ \A k \in 1 .. n : old[k] = h[k] \/ old[k] = a
    <2>1. CASE i = 0
      BY <1>1, <2>1
    <2>2. CASE i # 0
      <3>1. i \in 1 .. n
        BY <1>1, <1>2, <2>2
      <3> DEFINE g == [h EXCEPT ![i] = a]
      <3>2. /\ Listing(g) /\ Len(g) = n /\ g[i] = a
            /\ \A k \in 1 .. n : k # i => g[k] = h[k]
        <4>1. IsWrite(g, h, i, a)
          BY <1>1, <3>1, ExceptListing, Zenon
        <4> HIDE DEF g
        <4> QED BY <4>1 DEF IsWrite
      <3>3. old = g
        BY <2>2
      <3> HIDE DEF g, old
      <3> QED BY <3>2, <3>3
    <2> QED BY <2>1, <2>2
  <1> HIDE DEF old
  <1>7. /\ Listing(new) /\ Len(new) = (IF fails THEN n ELSE n + 1)
        /\ \A k \in 1 .. Len(new) :
             (k \in 1 .. n /\ (new[k] = h[k] \/ new[k] = a)) \/ (~ fails /\ new[k] = o)
    <2>1. CASE fails
      BY <1>6, <2>1
    <2>2. CASE ~ fails
      <3>1. /\ Listing(Append(old, o)) /\ Len(Append(old, o)) = n + 1
            /\ \A k \in 1 .. n : Append(old, o)[k] = old[k]
            /\ Append(old, o)[n + 1] = o
        BY <1>6, AppendListing
      <3>2. new = Append(old, o)
        BY <2>2
      <3>3. \A k \in 1 .. (n + 1) : k \in 1 .. n \/ k = n + 1
        BY <1>2
      <3> HIDE DEF new
      <3> QED BY <1>6, <2>2, <3>1, <3>2, <3>3
    <2> QED BY <2>1, <2>2
  <1> HIDE DEF new, h
  <1>8. /\ heap' = [t \in Sessions |-> heap'[t]] /\ status' = [t \in Sessions |-> status'[t]]
        /\ heap'[s] = new /\ status'[s] = st
        /\ \A t \in Sessions : t # s => heap'[t] = heap[t] /\ status'[t] = status[t]
    BY <1>3, <1>4, Zenon
  <1>9. ASSUME NEW t \in Sessions PROVE SessionOK(t, status'[t], query'[t], heap'[t])
    <2>1. SessionOK(t, status[t], query[t], heap[t])
      BY DEF Inv
    <2>2. CASE t = s
      <3>1. query[s] \in Queries[s]
        BY <1>4, <2>1, <2>2 DEF SessionOK
      <3>2. st \in {"run", "done", "error"}
        OBVIOUS
      <3>3. st = "done" => Len(new) = Len(query[s])
        BY <1>7
      <3>4. st \in {"run", "error"} => Len(new) < Len(query[s])
        <4> DEFINE l == Len(query[s])
        <4>1. n \in Nat /\ l \in Nat /\ n < l
          BY <1>1, <1>2
        <4>2. fails => Len(new) = n
          BY <1>7
        <4>3. ~ fails => Len(new) = n + 1
          BY <1>7
        <4>4. ~ fails /\ st # "done" => n + 1 # l
          OBVIOUS
        <4>5. st \in {"run", "error"} => st # "done"
          OBVIOUS
        <4> HIDE DEF st, l, n
        <4>6. n + 1 # l => n + 1 < l
          BY <4>1
        <4>7. st # "done" => Len(new) < l
          BY <4>1, <4>2, <4>3, <4>4, <4>6
        <4> QED BY <4>5, <4>7 DEF l
      <3> HIDE DEF st
      <3> QED BY <1>4, <1>7, <1>8, <2>2, <3>1, <3>2, <3>3, <3>4 DEF SessionOK
    <2>3. CASE t # s
      BY <1>4, <1>8, <2>1, <2>3
    <2> QED BY <2>2, <2>3
  <1>10. ASSUME ~ overrun' PROVE ArraysOK(disk', page', status', heap')
    <2>1. ArraysOK(disk, page, status, heap) /\ Good(a) /\ (fails \/ Good(o))
      BY <1>5, <1>10 DEF Inv
    <2>2. Good(page') /\ Good(disk')
      BY <1>4, <2>1 DEF ArraysOK
    <2>3. ASSUME NEW t \in Sessions, NEW k \in 1 .. Len(heap'[t]) PROVE Good(heap'[t][k])
      <3>1. CASE t = s
        <4>1. k \in 1 .. Len(new) /\ heap'[t][k] = new[k]
          BY <1>8, <3>1
        <4>2. \A m \in 1 .. n : Good(h[m])
          BY <2>1 DEF ArraysOK, h
        <4> HIDE DEF n
        <4> QED BY <1>7, <2>1, <4>1, <4>2
      <3>2. CASE t # s
        BY <1>8, <2>1, <3>2 DEF ArraysOK
      <3> QED BY <3>1, <3>2
    <2> QED BY <2>2, <2>3 DEF ArraysOK
  <1>11. storage' \in {"plain", "extended"} /\ dirty' \in BOOLEAN /\ overrun' \in BOOLEAN
    <2>1. storage \in {"plain", "extended"} /\ dirty \in BOOLEAN
      BY DEF Inv
    <2>2. overrun' \in BOOLEAN
      BY <1>4, Zenon
    <2> QED BY <1>4, <2>1, <2>2
  <1>12. query' = [t \in Sessions |-> query'[t]]
    BY <1>3, <1>4
  <1> QED BY <1>8, <1>9, <1>10, <1>11, <1>12 DEF Inv

\* Every step preserves the invariant.
LEMMA NextStep == Inv /\ [Next]_vars => Inv'
  <1> SUFFICES ASSUME Inv, [Next]_vars PROVE Inv'
    OBVIOUS
  <1>1. CASE \E s \in Sessions : Fetch(s) \/ Evaluate(s)
    BY <1>1, FetchStep, EvaluateStep
  <1>2. CASE MarkDirty
    BY <1>2 DEF MarkDirty, Inv
  <1>3. CASE Evict
    <2>1. /\ page' = NULL /\ disk' = (IF dirty THEN page ELSE disk) /\ dirty' = FALSE
          /\ page # NULL /\ \A s \in Sessions : status[s] # "run"
          /\ storage' = storage /\ query' = query /\ heap' = heap /\ status' = status
          /\ overrun' = overrun
      BY <1>3 DEF Evict
    <2>2. ArraysOK(disk, page, status, heap) => ArraysOK(disk', page', status', heap')
      BY <2>1 DEF ArraysOK
    <2> QED BY <2>1, <2>2, Zenon DEF Inv
  <1>4. CASE UNCHANGED vars
    BY <1>4 DEF vars, Inv
  <1> QED BY <1>1, <1>2, <1>3, <1>4 DEF Next

----------------------------------------------------------------------------

\* Sessions, results and arrays are as Inv says in every reachable state.
THEOREM Invariant == Spec => []Inv
  BY InitHolds, NextStep, PTL DEF Spec

\* Whatever queries the sessions run over whatever array, and however the steps
\* of kfm_im2col, group_kfm_im2col, concat_array and the others interleave in the
\* shared page, dims[0] never exceeds the data while concat_array's offsets are
\* inside its input and its inputs no wider than the first.
THEOREM HeadersAlwaysWithinData == Spec => []HeaderWithinData
  <1>1. Inv => HeaderWithinData
    <2> SUFFICES ASSUME Inv PROVE HeaderWithinData
      OBVIOUS
    <2>1. \A s \in Sessions : SessionOK(s, status[s], query[s], heap[s])
      BY DEF Inv
    <2>2. TypeOK
      <3>1. storage \in {"plain", "extended"} /\ dirty \in BOOLEAN
        BY DEF Inv
      <3> QED BY <2>1, <3>1, Zenon DEF TypeOK, SessionOK
    <2>3. \A a : Good(a) => a.rows <= Len(a.data)
      BY DEF Good
    <2>4. \A s \in Sessions : DOMAIN heap[s] = 1 .. Len(heap[s])
      BY <2>1, Zenon DEF SessionOK, Listing
    <2>5. ~ overrun => ArraysOK(disk, page, status, heap)
      BY DEF Inv
    <2> QED BY <2>2, <2>3, <2>4, <2>5 DEF HeaderWithinData, ArraysOK
  <1> QED BY <1>1, Invariant, PTL

----------------------------------------------------------------------------
(* What a query computes                                                   *)

IsQuery(q) == Len(q) \in Nat /\ \A j \in 1 .. Len(q) : IsCall(q[j], j)

\* A call looks at nothing but the results before it.
LEMMA PureCallDepends ==
  ASSUME NEW q, NEW f, NEW g, NEW j \in Nat, j >= 1, IsCall(q[j], j),
         \A k \in 1 .. (j - 1) : f[k] = g[k]
  PROVE  PureCall(q, f, j) = PureCall(q, g, j)
  <1> DEFINE arg == q[j].arg
  <1>1. arg \in Seq(0 .. (j - 1))
    BY DEF IsCall
  <1> HIDE DEF arg
  <1>2. \A i \in DOMAIN arg : arg[i] = 0 \/ arg[i] \in 1 .. (j - 1)
    <2> SUFFICES ASSUME NEW i \in DOMAIN arg PROVE arg[i] = 0 \/ arg[i] \in 1 .. (j - 1)
      OBVIOUS
    <2>1. arg[i] \in 0 .. (j - 1)
      BY <1>1
    <2> QED BY <2>1
  <1>3. \A i \in DOMAIN arg : arg[i] # 0 => f[arg[i]] = g[arg[i]]
    BY <1>2, Zenon
  <1>4. PureArgs(q, f, j) = PureArgs(q, g, j)
    BY <1>3, Zenon DEF PureArgs, arg
  <1>5. j > 1 => j - 1 \in 1 .. (j - 1)
    OBVIOUS
  <1>6. j > 1 => f[j - 1] = g[j - 1]
    BY <1>5, Zenon
  <1> QED BY <1>4, <1>6, Zenon DEF PureCall

\* The first n results.
IsPure(f, q, n) == f = [j \in 1 .. n |-> PureCall(q, f, j)]

\* There are such results.
LEMMA PureExists ==
  ASSUME NEW q, IsQuery(q), NEW n \in 0 .. Len(q)
  PROVE  \E f : IsPure(f, q, n)
  <1> DEFINE Bad == {m \in 0 .. Len(q) : ~ \E f : IsPure(f, q, m)}
  <1> SUFFICES ASSUME Bad # {} PROVE FALSE
    OBVIOUS
  <1>1. Len(q) \in Nat
    BY DEF IsQuery
  <1>2. Bad \subseteq Nat
    BY <1>1
  <1>3. PICK m \in Bad : \A k \in Bad : m <= k
    <2> HIDE DEF Bad
    <2> QED BY <1>2, Least, Zenon
  <1>4. m \in 0 .. Len(q) /\ ~ \E f : IsPure(f, q, m)
    OBVIOUS
  <1>5. m # 0
    <2> SUFFICES ASSUME m = 0 PROVE FALSE
      OBVIOUS
    <2> DEFINE f == [j \in 1 .. m |-> <<>>]
    <2>1. \A j : j \notin 1 .. m
      OBVIOUS
    <2>2. IsPure(f, q, m)
      BY <2>1, Zenon DEF IsPure
    <2> QED BY <1>4, <2>2, Zenon
  <1>6. m - 1 \in 0 .. Len(q) /\ ~ (m <= m - 1) /\ m \in 1 .. Len(q)
    BY <1>1, <1>4, <1>5
  <1>7. PICK f : IsPure(f, q, m - 1)
    BY <1>3, <1>6, Zenon
  <1> DEFINE g == [j \in 1 .. m |-> IF j = m THEN PureCall(q, f, m) ELSE f[j]]
  <1>8. \A k \in 1 .. (m - 1) : g[k] = f[k]
    BY <1>6
  <1>9. ASSUME NEW j \in 1 .. m PROVE g[j] = PureCall(q, g, j)
    <2>1. IsCall(q[j], j) /\ j \in Nat /\ j >= 1
      BY <1>1, <1>6 DEF IsQuery
    <2>2. \A k \in 1 .. (j - 1) : g[k] = f[k]
      <3>1. \A k \in 1 .. (j - 1) : k \in 1 .. (m - 1)
        BY <1>6
      <3> QED BY <1>8, <3>1, Zenon
    <2> HIDE DEF g
    <2>3. PureCall(q, g, j) = PureCall(q, f, j)
      BY <2>1, <2>2, PureCallDepends, Zenon
    <2>4. CASE j = m
      BY <2>3, <2>4 DEF g
    <2>5. CASE j # m
      <3>1. j \in 1 .. (m - 1)
        BY <1>6, <2>5
      <3>2. f[j] = PureCall(q, f, j)
        BY <1>7, <3>1, Zenon DEF IsPure
      <3> QED BY <1>8, <2>3, <3>1, <3>2, Zenon
    <2> QED BY <2>4, <2>5, Zenon
  <1>10. g = [j \in 1 .. m |-> g[j]]
    BY Zenon
  <1> HIDE DEF g
  <1>11. IsPure(g, q, m)
    BY <1>9, <1>10, Zenon DEF IsPure
  <1> QED BY <1>4, <1>11, Zenon

\* So Pure has the results it is defined to have.
LEMMA PureIs ==
  ASSUME NEW q, IsQuery(q), NEW j \in 1 .. Len(q)
  PROVE  Pure(q)[j] = PureCall(q, Pure(q), j)
  <1>1. Len(q) \in 0 .. Len(q)
    BY DEF IsQuery
  <1>2. \E f : IsPure(f, q, Len(q))
    BY <1>1, PureExists, Zenon
  <1>3. Pure(q) = CHOOSE f : IsPure(f, q, Len(q))
    BY Zenon DEF Pure, IsPure
  <1>4. IsPure(Pure(q), q, Len(q))
    BY <1>2, <1>3, Zenon
  <1> DEFINE f == Pure(q)
  <1>5. f = [k \in 1 .. Len(q) |-> PureCall(q, f, k)]
    BY <1>4 DEF IsPure
  <1> HIDE DEF f
  <1>6. f[j] = PureCall(q, f, j)
    BY <1>5, Zenon
  <1> QED BY <1>6 DEF f

\* After an error nothing is computed.
LEMMA PureStops ==
  ASSUME NEW q, IsQuery(q), NEW j \in 1 .. Len(q), Pure(q)[j] = <<>>
  PROVE  Pure(q)[Len(q)] = <<>>
  <1> DEFINE l == Len(q)
             Bad == {m \in j .. l : Pure(q)[m] # <<>>}
  <1> SUFFICES ASSUME Bad # {} PROVE FALSE
    <2>1. l \in j .. l
      BY DEF IsQuery
    <2> QED BY <2>1
  <1>1. l \in Nat
    BY DEF IsQuery
  <1>2. Bad \subseteq Nat
    BY <1>1
  <1>3. PICK m \in Bad : \A k \in Bad : m <= k
    <2> HIDE DEF Bad
    <2> QED BY <1>2, Least, Zenon
  <1>4. m \in j .. l /\ Pure(q)[m] # <<>>
    OBVIOUS
  <1>5. m # j
    BY <1>4
  <1>6. m - 1 \in j .. l /\ ~ (m <= m - 1) /\ m > 1 /\ m \in 1 .. l
    BY <1>1, <1>4, <1>5
  <1>7. Pure(q)[m - 1] = <<>>
    BY <1>3, <1>6, Zenon
  <1>8. Pure(q)[m] = PureCall(q, Pure(q), m)
    BY <1>6, PureIs, Zenon
  <1>9. PureCall(q, Pure(q), m) = <<>>
    BY <1>6, <1>7, Zenon DEF PureCall
  <1> QED BY <1>4, <1>8, <1>9, Zenon

\* relu, madd, group_kfm_im2col and a call with an offset are all that write.
LEMMA Untouched ==
  ASSUME NEW c, NEW args, ArgsOK(c, args), ~ Modifies(c)
  PROVE  After(c, args) = args[1]
  <1> DEFINE a == args[1]
  <1>1. Good(a)
    BY FirstGood
  <1>2. c.op \notin {"relu", "madd", "group_kfm_im2col"} /\ c.off = <<>>
    BY DEF Modifies
  <1>3. CASE ~ RaisesFirst(c, args) /\ c.op \in Slicing
    <2>1. After(c, args) = [a EXCEPT !.rows = Slice(c, a).rows]
      BY <1>3 DEF After, Slicing, Convolutions
    <2>2. Slice(c, a) = a
      BY <1>2, Zenon DEF Slice
    <2>3. [a EXCEPT !.rows = a.rows] = a
      BY <1>1 DEF Good
    <2> QED BY <2>1, <2>2, <2>3, Zenon
  <1>4. CASE RaisesFirst(c, args) \/ c.op \notin Slicing
    BY <1>2, <1>4 DEF After, Slicing, Convolutions
  <1> QED BY <1>3, <1>4, Zenon

----------------------------------------------------------------------------
(* Results are pure until an array is shared                               *)

\* One of the first n calls has written in result j.
Overwritten(q, n, j) == \E k \in 1 .. n : Modifies(q[k]) /\ q[k].arg[1] = j

\* The results so far are those of pure operators, except where they were
\* overwritten since, and there is an error only where they have one.
SessionPure(q, h, st) ==
  /\ st \in {"run", "done"} =>
       \A j \in 1 .. Len(h) :
         Pure(q)[j] # <<>> /\ (Overwritten(q, Len(h), j) \/ Pure(q)[j] = <<h[j]>>)
  /\ st = "error" => Pure(q)[Len(q)] = <<>>

\* A column that is toasted or short is the stored array wherever it is.
ColumnKept ==
  storage = "extended" =>
    /\ disk = Stored /\ (page # NULL => page = Stored)
    /\ \A s \in Sessions : ~ saw[s] /\ (status[s] = "run" => page = Stored)

\* The inductive invariant, on top of Inv.
PureInv ==
  /\ saw = [s \in Sessions |-> saw[s]]
  /\ ColumnKept
  /\ \A s \in Sessions :
       Reuses(query[s]) \/ saw[s] \/ overrun \/ SessionPure(query[s], heap[s], status[s])

\* What a call that does not fail adds to the results and leaves of them.
LEMMA Evaluated ==
  ASSUME Inv, NEW s \in Sessions, Evaluate(s), ~ Raises(Call(s), Args(s))
  PROVE  /\ Len(heap'[s]) = Len(heap[s]) + 1
         /\ heap'[s][Len(heap[s]) + 1] = Out(Call(s), Args(s))
         /\ \A k \in 1 .. Len(heap[s]) :
              heap'[s][k] = IF k = Call(s).arg[1] THEN After(Call(s), Args(s)) ELSE heap[s][k]
  <1> DEFINE c == Call(s)
             h == heap[s]
             n == Len(h)
             i == c.arg[1]
             a == After(c, Args(s))
             o == Out(c, Args(s))
             old == IF i = 0 THEN h ELSE [h EXCEPT ![i] = a]
  <1>1. Listing(h) /\ i \in 0 .. n
    BY CallType DEF Evaluate
  <1>2. n \in Nat
    BY <1>1 DEF Listing
  <1>3. heap = [t \in Sessions |-> heap[t]]
    BY DEF Inv
  <1>4. heap' = [heap EXCEPT ![s] = Append(old, o)]
    BY Zenon DEF Evaluate, Left
  <1> HIDE DEF a, o, c, i, h
  <1>5. /\ Listing(old) /\ Len(old) = n
        /\ \A k \in 1 .. n : old[k] = IF k = i THEN a ELSE h[k]
    <2>1. CASE i = 0
      <3>1. \A k \in 1 .. n : k # 0
        BY <1>2
      <3> QED BY <1>1, <2>1, <3>1
    <2>2. CASE i # 0
      <3>1. i \in 1 .. n
        BY <1>1, <1>2, <2>2
      <3>2. IsWrite([h EXCEPT ![i] = a], h, i, a)
        BY <1>1, <3>1, ExceptListing, Zenon
      <3>3. IsWrite(old, h, i, a)
        BY <2>2, <3>2, Zenon
      <3> HIDE DEF old
      <3> QED BY <3>3 DEF IsWrite
    <2> QED BY <2>1, <2>2
  <1> HIDE DEF old
  <1>6. /\ Len(Append(old, o)) = n + 1 /\ Append(old, o)[n + 1] = o
        /\ \A k \in 1 .. n : Append(old, o)[k] = old[k]
    BY <1>5, AppendListing
  <1>7. heap'[s] = Append(old, o)
    BY <1>3, <1>4, Zenon
  <1>8. /\ Len(heap'[s]) = n + 1 /\ heap'[s][n + 1] = o
        /\ \A k \in 1 .. n : heap'[s][k] = IF k = i THEN a ELSE h[k]
    BY <1>5, <1>6, <1>7, Zenon
  <1> QED BY <1>8 DEF a, o, c, i, h

\* The arguments a call gets from the column and from the results.
ArgsOf(arg, pg, h) == [i \in DOMAIN arg |-> IF arg[i] = 0 THEN pg ELSE h[arg[i]]]

\* If it reads the column, that is the stored array.
ReadsStored(arg, pg) == \A i \in DOMAIN arg : arg[i] = 0 => pg = Stored

\* The arguments of the next call are those of pure operators: a query that does
\* not read again what was overwritten reads what the calls returned.
LEMMA ArgsArePure ==
  ASSUME NEW q, NEW h, NEW pg, IsQuery(q), Listing(h), Len(h) < Len(q), ~ Reuses(q),
         SessionPure(q, h, "run"),
         ReadsStored(q[Len(h) + 1].arg, pg)
  PROVE  PureArgs(q, Pure(q), Len(h) + 1) = ArgsOf(q[Len(h) + 1].arg, pg, h)
  <1> DEFINE n == Len(h)
             f == Pure(q)
             arg == q[n + 1].arg
  <1>1. n \in Nat /\ n + 1 \in 1 .. Len(q)
    BY DEF Listing, IsQuery
  <1>2. IsCall(q[n + 1], n + 1)
    BY <1>1 DEF IsQuery
  <1>3. arg \in Seq(0 .. (n + 1 - 1))
    BY <1>2 DEF IsCall
  <1>4. \A j \in 1 .. n : f[j] # <<>> /\ (Overwritten(q, n, j) \/ f[j] = <<h[j]>>)
    BY DEF SessionPure
  <1>5. ASSUME NEW i \in DOMAIN arg, arg[i] # 0
        PROVE  f[arg[i]][1] = h[arg[i]]
    <2> DEFINE j == arg[i]
    <2>1. j \in 0 .. (n + 1 - 1)
      <3> HIDE DEF arg
      <3> QED BY <1>3
    <2>2. j \in 1 .. n
      BY <1>1, <1>5, <2>1
    <2>3. n + 1 - 1 = n
      BY <1>1
    <2>4. ~ Overwritten(q, n, j)
      <3> SUFFICES ASSUME Overwritten(q, n, j) PROVE FALSE
        OBVIOUS
      <3>1. PICK k \in 1 .. n : Modifies(q[k]) /\ q[k].arg[1] = j
        BY Zenon DEF Overwritten
      <3>2. k \in 1 .. (n + 1 - 1)
        BY <2>3
      <3>3. q[k].arg[1] # 0
        BY <1>5, <3>1
      <3>4. \E m \in DOMAIN q[n + 1].arg : q[n + 1].arg[m] = q[k].arg[1]
        BY <3>1, Zenon
      <3>5. Modifies(q[k])
        BY <3>1
      <3>6. Reuses(q)
        <4> DEFINE x == n + 1
        <4>1. x \in 1 .. Len(q) /\ k \in 1 .. (x - 1)
          BY <1>1, <3>2
        <4>2. \E m \in DOMAIN q[x].arg : q[x].arg[m] = q[k].arg[1]
          BY <3>4
        <4> HIDE DEF x
        <4> QED BY <3>3, <3>5, <4>1, <4>2 DEF Reuses
      <3> QED BY <3>6
    <2> HIDE DEF j, f, n
    <2>5. f[j] = <<h[j]>>
      BY <1>4, <2>2, <2>4, Zenon
    <2>6. f[j][1] = h[j]
      BY <2>5
    <2> QED BY <2>6 DEF j
  <1> HIDE DEF f, n, arg
  <1>6. [i \in DOMAIN arg |-> IF arg[i] = 0 THEN Stored ELSE f[arg[i]][1]] =
        [i \in DOMAIN arg |-> IF arg[i] = 0 THEN pg ELSE h[arg[i]]]
    <2>1. \A i \in DOMAIN arg : arg[i] = 0 => pg = Stored
      BY DEF arg, n, ReadsStored
    <2> QED BY <1>5, <2>1, Zenon
  <1> QED BY <1>6, Zenon DEF PureArgs, ArgsOf, arg, n, f

\* A call keeps the session's results pure, if it reads no column that was written
\* over and no result that was.
LEMMA EvaluatePure ==
  ASSUME Inv, NEW s \in Sessions, Evaluate(s), ~ Reuses(query[s]), ~ saw'[s], ~ overrun',
         saw = [t \in Sessions |-> saw[t]], SessionPure(query[s], heap[s], status[s])
  PROVE  SessionPure(query[s], heap'[s], status'[s])
  <1> DEFINE q == query[s]
             h == heap[s]
             n == Len(h)
             c == Call(s)
             args == Args(s)
             f == Pure(q)
  <1>1. /\ Listing(h) /\ n < Len(q) /\ Len(q) \in Nat
        /\ ~ overrun => ArgsOK(c, args)
        /\ c.arg[1] \in 0 .. n /\ Listing(args) /\ Len(args) = Len(c.arg) /\ Len(args) >= 1
    BY CallType DEF Evaluate
  <1>2. n \in Nat /\ n + 1 \in 1 .. Len(q)
    BY <1>1 DEF Listing
  <1>3. /\ status[s] = "run" /\ ~ overrun
        /\ saw' = [saw EXCEPT ![s] =
             @ \/ (page # Stored /\ \E i \in DOMAIN c.arg : c.arg[i] = 0)]
        /\ status' = [status EXCEPT ![s] =
             IF Raises(c, args) THEN "error" ELSE IF n + 1 = Len(q) THEN "done" ELSE "run"]
    BY Zenon DEF Evaluate
  <1>4. IsQuery(q)
    <2>1. q \in Queries[s]
      BY <1>3 DEF Inv, SessionOK
    <2> QED BY <1>1, <2>1, CallAssumption, Zenon DEF IsQuery
  <1>5. \A i \in DOMAIN c.arg : c.arg[i] = 0 => page = Stored
    BY <1>3, Zenon
  <1>6. c = q[n + 1]
    BY Zenon DEF Call
  <1>7. PureArgs(q, f, n + 1) = args
    <2>1. args = ArgsOf(c.arg, page, h)
      BY Zenon DEF Args, Arg, ArgsOf
    <2>2. SessionPure(q, h, "run")
      BY <1>3, Zenon
    <2>3. ReadsStored(q[n + 1].arg, page)
      BY <1>5, <1>6, Zenon DEF ReadsStored
    <2>4. PureArgs(q, f, n + 1) = ArgsOf(q[n + 1].arg, page, h)
      BY <1>1, <1>4, <2>2, <2>3, ArgsArePure, Zenon
    <2> HIDE DEF f, args, h, q, c, n
    <2> QED BY <1>6, <2>1, <2>4, Zenon
  <1>8. \A j \in 1 .. n : f[j] # <<>> /\ (Overwritten(q, n, j) \/ f[j] = <<h[j]>>)
    BY <1>3, Zenon DEF SessionPure
  <1>9. f[n + 1] = IF Raises(c, args) THEN <<>> ELSE <<Out(c, args)>>
    <2>1. f[n + 1] = PureCall(q, f, n + 1)
      BY <1>2, <1>4, PureIs, Zenon
    <2>2. n + 1 > 1 => (n + 1) - 1 \in 1 .. n
      BY <1>2
    <2> HIDE DEF f, args, h, q, c, n
    <2>3. ~ (n + 1 > 1 /\ f[(n + 1) - 1] = <<>>)
      BY <1>8, <2>2, Zenon
    <2>4. PureCall(q, f, n + 1) =
            IF (n + 1 > 1 /\ f[(n + 1) - 1] = <<>>) \/ Raises(c, args) THEN <<>>
            ELSE <<Out(c, args)>>
      BY <1>6, <1>7, Zenon DEF PureCall
    <2> QED BY <2>1, <2>3, <2>4, Zenon
  <1>10. status = [t \in Sessions |-> status[t]]
    BY DEF Inv
  <1>11. CASE Raises(c, args)
    <2>1. status'[s] = "error"
      BY <1>3, <1>10, <1>11, Zenon
    <2>2. f[Len(q)] = <<>>
      BY <1>2, <1>4, <1>9, <1>11, PureStops, Zenon
    <2> QED BY <2>1, <2>2 DEF SessionPure
  <1>12. CASE ~ Raises(c, args)
    <2>1. status'[s] # "error"
      <3>1. status'[s] = IF n + 1 = Len(q) THEN "done" ELSE "run"
        BY <1>3, <1>10, <1>12, Zenon
      <3> QED BY <3>1
    <2> DEFINE g == heap'[s]
               k0 == c.arg[1]
               a == After(c, args)
               o == Out(c, args)
    <2>2. /\ Len(g) = n + 1 /\ g[n + 1] = o
          /\ \A k \in 1 .. n : g[k] = IF k = k0 THEN a ELSE h[k]
      BY <1>12, Evaluated, Zenon
    <2>3. f[n + 1] = <<o>>
      BY <1>9, <1>12, Zenon
    <2>4. ~ Modifies(c) => a = args[1]
      BY <1>1, <1>3, Untouched, Zenon
    <2>5. k0 # 0 => args[1] = h[k0]
      <3>1. 1 \in DOMAIN args
        BY <1>1 DEF Listing
      <3>2. args = [i \in DOMAIN c.arg |-> Arg(s, c.arg[i])]
        BY Zenon DEF Args
      <3>3. args[1] = Arg(s, k0)
        <4> HIDE DEF args
        <4> QED BY <3>1, <3>2, Zenon
      <3> QED BY <3>3, Zenon DEF Arg
    <2> HIDE DEF f, args, h, q, c, n, g, k0, a, o
    <2>6. ASSUME NEW j \in 1 .. (n + 1)
          PROVE  f[j] # <<>> /\ (Overwritten(q, n + 1, j) \/ f[j] = <<g[j]>>)
      <3>1. CASE j = n + 1
        <4>1. f[j] = <<g[j]>> /\ <<o>> # <<>>
          BY <2>2, <2>3, <3>1
        <4> QED BY <2>3, <3>1, <4>1, Zenon
      <3>2. CASE j # n + 1
        <4>1. j \in 1 .. n /\ j # 0
          BY <1>2, <3>2
        <4>2. \A m \in 1 .. n : m \in 1 .. (n + 1)
          BY <1>2
        <4>3. n + 1 \in 1 .. (n + 1)
          BY <1>2
        <4>4. Overwritten(q, n, j) => Overwritten(q, n + 1, j)
          BY <4>2, Zenon DEF Overwritten
        <4>5. Modifies(c) /\ k0 = j => Overwritten(q, n + 1, j)
          BY <1>6, <4>3, Zenon DEF Overwritten, k0
        <4>6. ~ Overwritten(q, n + 1, j) => g[j] = h[j]
          BY <2>2, <2>4, <2>5, <4>1, <4>5, Zenon
        <4> QED BY <1>8, <4>1, <4>4, <4>6, Zenon
      <3> QED BY <3>1, <3>2
    <2>7. \A j \in 1 .. Len(g) :
            f[j] # <<>> /\ (Overwritten(q, Len(g), j) \/ f[j] = <<g[j]>>)
      BY <2>2, <2>6, Zenon
    <2> QED BY <2>1, <2>7, Zenon DEF SessionPure, f, g, q
  <1> QED BY <1>11, <1>12

\* Initially no query has read anything.
LEMMA InitPure == Init => PureInv
  <1> SUFFICES ASSUME Init PROVE PureInv
    OBVIOUS
  <1>1. /\ disk = Stored /\ page = NULL /\ saw = [s \in Sessions |-> FALSE]
        /\ status = [s \in Sessions |-> "idle"]
    BY DEF Init
  <1>2. \A s \in Sessions : ~ saw[s] /\ status[s] = "idle"
    BY <1>1, Zenon
  <1>3. ColumnKept
    BY <1>1, <1>2 DEF ColumnKept
  <1>4. \A s \in Sessions : SessionPure(query[s], heap[s], status[s])
    BY <1>2 DEF SessionPure
  <1> QED BY <1>1, <1>3, <1>4, Zenon DEF PureInv

\* A query starts with no results.
LEMMA FetchPure ==
  ASSUME Inv, PureInv, NEW s \in Sessions, Fetch(s) PROVE PureInv'
  <1>1. PICK q \in Queries[s] : query' = [query EXCEPT ![s] = q]
    BY Zenon DEF Fetch
  <1>2. /\ page' = (IF page = NULL THEN disk ELSE page)
        /\ heap' = [heap EXCEPT ![s] = <<>>] /\ status' = [status EXCEPT ![s] = "run"]
        /\ saw' = [saw EXCEPT ![s] = FALSE]
        /\ storage' = storage /\ disk' = disk /\ overrun' = overrun
    BY DEF Fetch
  <1>3. /\ status = [t \in Sessions |-> status[t]] /\ query = [t \in Sessions |-> query[t]]
        /\ heap = [t \in Sessions |-> heap[t]] /\ saw = [t \in Sessions |-> saw[t]]
    BY DEF Inv, PureInv
  <1>4. /\ saw' = [t \in Sessions |-> saw'[t]]
        /\ heap'[s] = <<>> /\ ~ saw'[s]
        /\ \A t \in Sessions : t # s =>
             /\ status'[t] = status[t] /\ query'[t] = query[t]
             /\ heap'[t] = heap[t] /\ saw'[t] = saw[t]
    BY <1>1, <1>2, <1>3, Zenon
  <1>5. status'[s] = "run"
    BY <1>2, <1>3, Zenon
  <1>6. ColumnKept'
    <2> SUFFICES ASSUME storage = "extended"
                 PROVE  /\ disk' = Stored /\ page' = Stored /\ \A t \in Sessions : ~ saw'[t]
      BY <1>2, Zenon DEF ColumnKept
    <2>1. disk = Stored /\ (page # NULL => page = Stored) /\ \A t \in Sessions : ~ saw[t]
      BY Zenon DEF PureInv, ColumnKept
    <2> QED BY <1>2, <1>4, <2>1, Zenon
  <1>7. SessionPure(query'[s], heap'[s], status'[s])
    <2>1. Len(heap'[s]) = 0
      BY <1>4
    <2>2. \A j : j \notin 1 .. 0
      OBVIOUS
    <2>3. status'[s] # "error"
      BY <1>5
    <2> QED BY <2>1, <2>2, <2>3, Zenon DEF SessionPure
  <1>8. ASSUME NEW t \in Sessions
        PROVE  Reuses(query'[t]) \/ saw'[t] \/ overrun' \/
                 SessionPure(query'[t], heap'[t], status'[t])
    <2>1. CASE t = s
      BY <1>7, <2>1, Zenon
    <2>2. CASE t # s
      <3>1. Reuses(query[t]) \/ saw[t] \/ overrun \/ SessionPure(query[t], heap[t], status[t])
        BY Zenon DEF PureInv
      <3> QED BY <1>2, <1>4, <2>2, <3>1, Zenon
    <2> QED BY <2>1, <2>2
  <1> QED BY <1>4, <1>6, <1>8, Zenon DEF PureInv

\* A call adds a pure result; a column that is a copy stays as it was.
LEMMA EvaluateKeepsPure ==
  ASSUME Inv, PureInv, NEW s \in Sessions, Evaluate(s) PROVE PureInv'
  <1> DEFINE c == Call(s)
  <1>1. /\ status[s] = "run" /\ storage' = storage /\ disk' = disk /\ query' = query
        /\ page' = (IF c.arg[1] = 0 /\ storage = "plain" THEN After(c, Args(s)) ELSE page)
        /\ saw' = [saw EXCEPT ![s] =
             @ \/ (page # Stored /\ \E i \in DOMAIN c.arg : c.arg[i] = 0)]
        /\ overrun' = (overrun \/ Overruns(c, Args(s)))
    BY Zenon DEF Evaluate, Left
  <1>2. \E x, y : heap' = [heap EXCEPT ![s] = x] /\ status' = [status EXCEPT ![s] = y]
    BY Zenon DEF Evaluate, Left
  <1>3. /\ status = [t \in Sessions |-> status[t]]
        /\ heap = [t \in Sessions |-> heap[t]] /\ saw = [t \in Sessions |-> saw[t]]
    BY DEF Inv, PureInv
  <1> HIDE DEF c
  <1>4. /\ saw' = [t \in Sessions |-> saw'[t]]
        /\ saw[s] => saw'[s]
        /\ saw'[s] => saw[s] \/ page # Stored
    BY <1>1, <1>3, Zenon
  <1>5. \A t \in Sessions : t # s =>
          status'[t] = status[t] /\ heap'[t] = heap[t] /\ saw'[t] = saw[t]
    BY <1>1, <1>2, <1>3, Zenon
  <1>6. ColumnKept'
    <2> SUFFICES ASSUME storage = "extended"
                 PROVE  /\ disk' = Stored /\ page' = Stored /\ \A t \in Sessions : ~ saw'[t]
      BY <1>1, Zenon DEF ColumnKept
    <2>1. disk = Stored /\ page = Stored /\ \A t \in Sessions : ~ saw[t]
      BY <1>1, Zenon DEF PureInv, ColumnKept
    <2>2. page' = page
      <3>1. storage # "plain"
        OBVIOUS
      <3> QED BY <1>1, <3>1, Zenon
    <2>3. \A t \in Sessions : ~ saw'[t]
      BY <1>4, <1>5, <2>1, Zenon
    <2> QED BY <1>1, <2>1, <2>2, <2>3, Zenon
  <1>7. ASSUME NEW t \in Sessions
        PROVE  Reuses(query'[t]) \/ saw'[t] \/ overrun' \/
                 SessionPure(query'[t], heap'[t], status'[t])
    <2>1. Reuses(query[t]) \/ saw[t] \/ overrun \/ SessionPure(query[t], heap[t], status[t])
      BY Zenon DEF PureInv
    <2>2. CASE t = s
      BY <1>1, <1>3, <1>4, <2>1, <2>2, EvaluatePure, Zenon
    <2>3. CASE t # s
      BY <1>1, <1>5, <2>1, <2>3, Zenon
    <2> QED BY <2>2, <2>3
  <1> QED BY <1>4, <1>6, <1>7, Zenon DEF PureInv

\* Every step preserves it.
LEMMA NextPure == Inv /\ PureInv /\ [Next]_vars => PureInv'
  <1> SUFFICES ASSUME Inv, PureInv, [Next]_vars PROVE PureInv'
    OBVIOUS
  <1>1. CASE \E s \in Sessions : Fetch(s) \/ Evaluate(s)
    BY <1>1, FetchPure, EvaluateKeepsPure, Zenon
  <1>2. CASE MarkDirty
    <2>1. /\ storage' = storage /\ disk' = disk /\ page' = page /\ query' = query
          /\ heap' = heap /\ status' = status /\ saw' = saw /\ overrun' = overrun
      BY <1>2 DEF MarkDirty
    <2>2. ColumnKept'
      BY <2>1, Zenon DEF ColumnKept, PureInv
    <2> QED BY <2>1, <2>2, Zenon DEF PureInv
  <1>3. CASE Evict
    <2>1. /\ page' = NULL /\ disk' = (IF dirty THEN page ELSE disk)
          /\ page # NULL /\ \A s \in Sessions : status[s] # "run"
          /\ storage' = storage /\ query' = query /\ heap' = heap /\ status' = status
          /\ saw' = saw /\ overrun' = overrun
      BY <1>3 DEF Evict
    <2>2. ColumnKept'
      BY <2>1, Zenon DEF ColumnKept, PureInv
    <2> QED BY <2>1, <2>2, Zenon DEF PureInv
  <1>4. CASE UNCHANGED vars
    <2>1. /\ storage' = storage /\ disk' = disk /\ page' = page /\ query' = query
          /\ heap' = heap /\ status' = status /\ saw' = saw /\ overrun' = overrun
      BY <1>4 DEF vars
    <2>2. ColumnKept'
      BY <2>1, Zenon DEF ColumnKept, PureInv
    <2> QED BY <2>1, <2>2, Zenon DEF PureInv
  <1> QED BY <1>1, <1>2, <1>3, <1>4 DEF Next

\* For all sessions, queries and stored arrays: a query that finishes has the result,
\* or the error, of its operators applied to the stored array, unless it reads
\* again an intermediate array that relu, madd, an offset or groups were written
\* over, or a column that was; and a toasted or short column never is.
THEOREM QueriesPureUnlessShared == Spec => []PureUnlessShared
  <1>1. Spec => []PureInv
    BY Invariant, InitPure, NextPure, PTL DEF Spec
  <1>2. Inv /\ PureInv => PureUnlessShared
    <2> SUFFICES ASSUME Inv, PureInv, NEW s \in Sessions
                 PROVE  /\ storage = "extended" => ~ saw[s]
                        /\ Reuses(query[s]) \/ saw[s] \/ overrun \/
                             (/\ status[s] = "done" =>
                                  Pure(query[s])[Len(query[s])] = <<heap[s][Len(query[s])]>>
                              /\ status[s] = "error" =>
                                  Pure(query[s])[Len(query[s])] = <<>>)
      BY Zenon DEF PureUnlessShared
    <2> DEFINE q == query[s]
               h == heap[s]
    <2>1. storage = "extended" => ~ saw[s]
      BY Zenon DEF PureInv, ColumnKept
    <2>2. Reuses(q) \/ saw[s] \/ overrun \/ SessionPure(q, h, status[s])
      BY Zenon DEF PureInv
    <2>3. ASSUME status[s] = "done", ~ Reuses(q), SessionPure(q, h, status[s])
          PROVE  Pure(q)[Len(q)] = <<h[Len(q)]>>
      <3>1. SessionOK(s, status[s], q, h)
        BY DEF Inv
      <3>2. Len(h) = Len(q) /\ q \in Queries[s]
        BY <2>3, <3>1 DEF SessionOK
      <3>7. /\ q \in Seq({q[j] : j \in DOMAIN q}) /\ Len(q) > 0
            /\ \A j \in 1 .. Len(q) : IsCall(q[j], j)
        BY <3>2, CallAssumption, Zenon
      <3>8. Len(q) \in Nat
        BY <3>7
      <3>3. Len(q) \in Nat /\ Len(q) > 0 /\ \A j \in 1 .. Len(q) : IsCall(q[j], j)
        BY <3>7, <3>8, Zenon
      <3>4. Len(q) \in 1 .. Len(q)
        BY <3>3
      <3>5. ~ Overwritten(q, Len(q), Len(q))
        <4> SUFFICES ASSUME NEW k \in 1 .. Len(q), q[k].arg[1] = Len(q) PROVE FALSE
          BY Zenon DEF Overwritten
        <4> DEFINE arg == q[k].arg
        <4>1. IsCall(q[k], k)
          BY <3>3, Zenon
        <4>2. arg \in Seq(0 .. (k - 1)) /\ Len(arg) >= 1
          BY <4>1 DEF IsCall
        <4> HIDE DEF arg
        <4>3. arg[1] \in 0 .. (k - 1)
          BY <4>2
        <4>4. ~ (Len(q) \in 0 .. (k - 1))
          BY <3>3
        <4> QED BY <4>3, <4>4 DEF arg
      <3>6. Overwritten(q, Len(q), Len(q)) \/ Pure(q)[Len(q)] = <<h[Len(q)]>>
        BY <2>3, <3>2, <3>4, Zenon DEF SessionPure
      <3> QED BY <3>5, <3>6
    <2>4. SessionPure(q, h, status[s]) /\ status[s] = "error" => Pure(q)[Len(q)] = <<>>
      BY Zenon DEF SessionPure
    <2> QED BY <2>1, <2>2, <2>3, <2>4, Zenon
  <1> QED BY <1>1, <1>2, Invariant, PTL
=============================================================================
