------------------------------ MODULE Operators ------------------------------
(***************************************************************************)
(* The tensor operators (matrix_op.c, conv.c, pool.c, extended_op.c,       *)
(* textcnn.c) as SQL functions.  Sessions evaluate queries, sequences of   *)
(* calls, over an array column of one table row.  An operator gets         *)
(* pointers: to a fresh copy of a toasted or short column value, to the    *)
(* page in shared buffers for a plain one, to the result of an earlier     *)
(* call.  Some operators write where their argument points.                *)
(*                                                                         *)
(* An array has its header's dims (rows is dims[0], cols is dims[1]) and   *)
(* its data, a term for each row: the formula of the numbers it holds.     *)
(***************************************************************************)
EXTENDS Integers, Sequences, FiniteSets

CONSTANTS
  Sessions,
  Queries,    \* Queries[s]: what session s may run, sequences of calls
  Storages,   \* how the column is stored: "plain" or "extended"
  Stored,     \* the array in the table
  Weights,    \* weight tables loaded in the sessions: rows, cols, bias length
  NULL

Names ==
  {"relu", "madd", "im2col", "maxpool", "avgpool", "batchnorm", "kfm", "kfm_nt",
   "kfm_nt_acti", "mvm", "mat_mul", "kfm_im2col", "kfm_im2col_ns",
   "group_kfm_im2col", "avgpool_conv", "concat_array", "split_array",
   "split_vertical_array", "conv_text"}

\* Call j of a query: arg[i] is 0 for the column and h for the result of call h;
\* off is <<>> or the first and last row of a slice; k, p and s are kernel size
\* (for split_array: which piece), padding and stride; n is the number of groups
\* or pieces.  kfm and avgpool_conv do not ask whether get_weight found w.
IsCall(c, j) ==
  /\ c.op \in Names
  /\ c.arg \in Seq(0 .. (j - 1))
  /\ Len(c.arg) >= IF c.op = "madd" THEN 2 ELSE 1
  /\ c.off = <<>> \/ c.off \in Int \X Int
  /\ c.k \in Nat /\ c.p \in Nat /\ c.s \in Nat \ {0} /\ c.n \in Nat \ {0}
  /\ c.op \in {"kfm", "avgpool_conv"} => c.w \in DOMAIN Weights

ASSUME CallAssumption ==
  \A s \in Sessions : \A q \in Queries[s] :
    /\ q \in Seq({q[j] : j \in DOMAIN q}) /\ Len(q) > 0
    /\ \A j \in 1 .. Len(q) : IsCall(q[j], j)

ASSUME TableAssumption ==
  /\ Storages \subseteq {"plain", "extended"}
  /\ Stored = [data |-> Stored.data, rows |-> Len(Stored.data), cols |-> Stored.cols]
  /\ Len(Stored.data) \in Nat /\ Stored.cols \in Nat
  /\ \A w \in DOMAIN Weights : Weights[w].rows \in Nat /\ Weights[w].cols \in Nat

VARIABLES
  storage,  \* of the column
  disk,     \* the array on disk
  page,     \* the array in shared buffers, NULL when the page is not there
  dirty,    \* whether the page will be written back
  query,    \* each session's query
  heap,     \* the results of its calls so far
  status,   \* "idle", "run", "done" or "error"
  saw,      \* history: whether its query has read a column value that was not
            \* the stored array
  overrun   \* history: whether concat_array was given rows that are not there, or
            \* wrote more than it had allocated

vars == <<storage, disk, page, dirty, query, heap, status, saw, overrun>>

----------------------------------------------------------------------------
(* What the operators compute.                                             *)

Garbage == <<"garbage">>

ISqrt(n) == CHOOSE w \in 0 .. n : w * w <= n /\ (w + 1) * (w + 1) > n

\* Division rounds towards zero: a kernel may be larger than the image.
Quotient(m, n) == IF m >= 0 THEN m \div n ELSE -((-m) \div n)

\* (width + 2 * padding - kernel) / stride + 1
Side(c, a, k, p) == Quotient(ISqrt(a.cols) + 2 * p - k, c.s) + 1

\* In both directions.
OutNelems(c, a) == Side(c, a, c.k, c.p) * Side(c, a, c.k, c.p)

\* The same for the kernel of kfm_im2col_ns, k by 1 and padded along k alone.
OutNelemsNs(c, a) == Side(c, a, c.k, c.p) * Side(c, a, 1, 0)

\* (width + 2 * padding - kernel + 1) / stride, squared
OutNelemsShort(c, a) ==
  LET side == Quotient(ISqrt(a.cols) + 2 * c.p - c.k + 1, c.s) IN side * side

\* The rows an operator reads: what the header says, from the data there is.
Rows(a) == [i \in 1 .. a.rows |->
              IF i <= Len(a.data) THEN a.data[i] ELSE Garbage]

Array(data, cols) == [data |-> data, rows |-> Len(data), cols |-> cols]

Rectify(t) == IF t[1] = "relu" THEN t ELSE <<"relu", t>>

\* cblas_sgemm of a weight and some rows, then bias and fmax(0, .) where the
\* bias has an element for each output row.
Gemm(c, rows, cols) ==
  LET w == Weights[c.w]
      Product(k) == <<"gemm", c.w, k, rows, c.k, c.p, c.s>>
  IN Array([k \in 1 .. w.rows |->
              IF w.bias = w.rows THEN <<"relu", <<"bias", c.w, k, Product(k)>>>>
              ELSE Product(k)], cols)

\* The same without fmax.
GemmLinear(c, rows, cols) ==
  LET w == Weights[c.w]
      Product(k) == <<"gemm", c.w, k, rows, c.k, c.p, c.s>>
  IN Array([k \in 1 .. w.rows |->
              IF w.bias = w.rows THEN <<"bias", c.w, k, Product(k)>>
              ELSE Product(k)], cols)

\* get_weight finds nothing under name_val or name_bias.
Missing(c) == c.w \notin DOMAIN Weights

relu(a) == Array([i \in 1 .. a.rows |-> Rectify(Rows(a)[i])], a.cols)

\* matrix1_data[i] += matrix2_data[i] for the size of matrix1
madd(a, b) ==
  Array([i \in 1 .. a.rows |->
           IF a.cols = b.cols /\ i <= Len(b.data)
           THEN <<"sum", Rows(a)[i], b.data[i]>> ELSE Garbage], a.cols)

im2col(c, a) ==
  Array([i \in 1 .. OutNelemsShort(c, a) |->
           <<"window", i, Rows(a), c.k, c.p, c.s>>], a.rows * c.k * c.k)

\* maxpool and avgpool keep the channels
pool(c, a) ==
  Array([i \in 1 .. a.rows |-> <<c.op, Rows(a)[i], c.k, c.p, c.s>>],
        OutNelems(c, a))

batchnorm(c, a) == Array([i \in 1 .. a.rows |-> <<"norm", i, Rows(a)[i]>>], a.cols)

\* The rows an offset selects.
Slice(c, a) ==
  IF c.off = <<>> THEN a
  ELSE [a EXCEPT !.rows = c.off[2] - c.off[1] + 1,
                 !.data = [i \in 1 .. (Len(@) - c.off[1] + 1) |->
                             IF i + c.off[1] > 1 THEN @[i + c.off[1] - 1] ELSE Garbage]]

\* Mutant: the end of the slice is not checked.
InvalidOffsetStart(c, a) ==
  c.off # <<>> /\ (c.off[1] - 1 < 0 \/ c.off[1] - 1 >= c.off[2])

InvalidOffset(c, a) ==
  /\ c.off # <<>>
  /\ c.off[1] - 1 < 0 \/ c.off[2] > a.rows \/ c.off[1] - 1 >= c.off[2]

kfm_im2col(c, a) == Gemm(c, Rows(Slice(c, a)), OutNelems(c, a))
kfm_im2col_ns(c, a) == Gemm(c, Rows(Slice(c, a)), OutNelemsNs(c, a))

\* Each group of rows with its part of the weight.
group_kfm_im2col(c, a) ==
  LET sub == a.rows \div c.n
      w == Weights[c.w]
      group(k) == (k - 1) \div w.rows
      Product(k) == <<"gemm", c.w, k, SubSeq(Rows(a), group(k) * sub + 1,
                                             (group(k) + 1) * sub), c.k, c.p, c.s>>
  IN Array([k \in 1 .. (w.rows * c.n) |->
              IF w.bias = w.rows * c.n
              THEN <<"relu", <<"bias", c.w, k, Product(k)>>>> ELSE Product(k)],
           OutNelemsShort(c, a))

\* Input 1 may be sliced, by an offset that nothing tests; nor does anything test
\* that the inputs are as wide as input 1, whose width sizes the result.
Overruns(c, args) ==
  /\ c.op = "concat_array"
  /\ \/ /\ c.off # <<>>
        /\ \/ c.off[1] - 1 < 0
           \/ c.off[2] > Len(args[1].data)
           \/ c.off[1] - 1 > c.off[2]
     \/ \E i \in DOMAIN args : args[i].cols > args[1].cols

\* memcpy of one part after the other
Joined(parts) ==
  LET upto[i \in 0 .. Len(parts)] == IF i = 0 THEN <<>> ELSE upto[i - 1] \o parts[i]
  IN upto[Len(parts)]

\* Behind an input of another width no row is where it belongs.
Part(c, args, i) ==
  IF \E h \in 1 .. i : args[h].cols # args[1].cols
  THEN [k \in 1 .. args[i].rows |-> Garbage]
  ELSE Rows(IF i = 1 THEN Slice(c, args[1]) ELSE args[i])

concat_array(c, args) ==
  Array(Joined([i \in 1 .. Len(args) |-> Part(c, args, i)]), args[1].cols)

\* Piece k of n.
split_array(c, a) ==
  LET sub == a.rows \div c.n
  IN Array(SubSeq(Rows(a), (c.k - 1) * sub + 1, c.k * sub), a.cols)

\* Every piece is a copy of the whole array.
split_vertical_array(a) == a

\* The input of kfm is the output of im2col, a window for each row.
kfm(c, a) == Gemm(c, Rows(a), a.rows)

\* kfm_nt with and without the activation; mvm has none.
kfm_nt(c, a) ==
  IF c.op = "kfm_nt_acti" THEN Gemm(c, Rows(a), a.cols)
  ELSE GemmLinear(c, Rows(a), a.cols)
mvm(c, a) == GemmLinear(c, Rows(a), 1)

avgpool_conv(c, a) == Gemm(c, pool(c, a).data, OutNelems(c, a))

\* No bias: the rows of the input times the weight.
mat_mul(c, a) ==
  Array([i \in 1 .. a.rows |-> <<"gemm", c.w, 0, <<Rows(a)[i]>>, c.k, c.p, c.s>>],
        Weights[c.w].cols)

conv_text(c, a) ==
  LET conv == Gemm(c, Rows(a), 1)
  IN Array([i \in 1 .. conv.rows |-> <<"max", conv.data[i]>>], 1)

----------------------------------------------------------------------------
(* A call: the error it raises, its result, what it leaves in argument 1.  *)

Convolutions == {"kfm_im2col", "kfm_im2col_ns"}
Slicing == Convolutions \cup {"concat_array"}

KernelArea(c) == IF c.op = "kfm_im2col_ns" THEN c.k ELSE c.k * c.k

\* The error comes before anything is written.
RaisesFirst(c, args) ==
  CASE c.op \in Convolutions -> InvalidOffset(c, args[1])
    [] c.op \in {"group_kfm_im2col", "split_array"} -> args[1].rows % c.n # 0
    [] OTHER -> FALSE

\* The weight is not in the pool, or its columns are not what the input has;
\* palloc refuses a negative size.
RaisesLast(c, args) ==
  LET a == args[1]
      w == Weights[c.w]
  IN CASE c.op = "kfm" -> w.cols # a.cols
       [] c.op \in {"kfm_nt", "kfm_nt_acti", "mvm"} -> Missing(c) \/ w.cols # a.rows
       [] c.op = "mat_mul" -> Missing(c) \/ a.cols # w.rows
       [] c.op \in Convolutions ->
            \/ c.op = "kfm_im2col_ns" /\ OutNelemsNs(c, a) < 0
            \/ Missing(c) \/ w.cols # Slice(c, a).rows * KernelArea(c)
       [] c.op = "group_kfm_im2col" ->
            Missing(c) \/ w.cols # (a.rows \div c.n) * c.k * c.k
       [] c.op = "avgpool_conv" -> w.cols # a.rows
       [] c.op = "conv_text" -> Missing(c) \/ w.cols # c.k * c.k
       [] OTHER -> FALSE

Raises(c, args) == RaisesFirst(c, args) \/ RaisesLast(c, args)

Out(c, args) ==
  LET a == args[1]
  IN CASE c.op = "relu" -> relu(a)
       [] c.op = "madd" -> madd(a, args[2])
       [] c.op = "im2col" -> im2col(c, a)
       [] c.op \in {"maxpool", "avgpool"} -> pool(c, a)
       [] c.op = "batchnorm" -> batchnorm(c, a)
       [] c.op = "kfm" -> kfm(c, a)
       [] c.op \in {"kfm_nt", "kfm_nt_acti"} -> kfm_nt(c, a)
       [] c.op = "mvm" -> mvm(c, a)
       [] c.op = "mat_mul" -> mat_mul(c, a)
       [] c.op = "kfm_im2col" -> kfm_im2col(c, a)
       [] c.op = "kfm_im2col_ns" -> kfm_im2col_ns(c, a)
       [] c.op = "group_kfm_im2col" -> group_kfm_im2col(c, a)
       [] c.op = "avgpool_conv" -> avgpool_conv(c, a)
       [] c.op = "concat_array" -> concat_array(c, args)
       [] c.op = "split_array" -> split_array(c, a)
       [] c.op = "split_vertical_array" -> split_vertical_array(a)
       [] c.op = "conv_text" -> conv_text(c, a)

\* Mutant: maxpool writes its output size over the argument's header.
AfterPool(c, args) ==
  LET a == args[1]
      Over(rows) == [i \in 1 .. Len(a.data) |->
                       IF i <= Len(rows) THEN rows[i] ELSE a.data[i]]
  IN IF RaisesFirst(c, args) THEN a ELSE
     CASE c.op = "relu" -> [a EXCEPT !.data = Over(relu(a).data)]
       [] c.op = "madd" -> [a EXCEPT !.data = Over(madd(a, args[2]).data)]
       [] c.op = "maxpool" -> [a EXCEPT !.cols = OutNelems(c, a)]
       [] c.op \in Slicing -> [a EXCEPT !.rows = Slice(c, a).rows]
       [] OTHER -> a

\* relu and madd compute in the argument's own data; an offset, or groups,
\* are written over its dims[0].
After(c, args) ==
  LET a == args[1]
      Over(rows) == [i \in 1 .. Len(a.data) |->
                       IF i <= Len(rows) THEN rows[i] ELSE a.data[i]]
  IN IF RaisesFirst(c, args) THEN a ELSE
     CASE c.op = "relu" -> [a EXCEPT !.data = Over(relu(a).data)]
       [] c.op = "madd" -> [a EXCEPT !.data = Over(madd(a, args[2]).data)]
       [] c.op \in Slicing -> [a EXCEPT !.rows = Slice(c, a).rows]
       [] c.op = "group_kfm_im2col" -> [a EXCEPT !.rows = @ \div c.n]
       [] OTHER -> a

----------------------------------------------------------------------------
(* The sessions and the buffer the row is in.                              *)

Init ==
  /\ storage \in Storages
  /\ disk = Stored
  /\ page = NULL
  /\ dirty = FALSE
  /\ query = [s \in Sessions |-> <<>>]
  /\ heap = [s \in Sessions |-> <<>>]
  /\ status = [s \in Sessions |-> "idle"]
  /\ saw = [s \in Sessions |-> FALSE]
  /\ overrun = FALSE

\* A query starts: the row's page is read in, if need be, and pinned.
Fetch(s) ==
  /\ status[s] # "run"
  /\ \E q \in Queries[s] : query' = [query EXCEPT ![s] = q]
  /\ page' = IF page = NULL THEN disk ELSE page
  /\ heap' = [heap EXCEPT ![s] = <<>>]
  /\ status' = [status EXCEPT ![s] = "run"]
  /\ saw' = [saw EXCEPT ![s] = FALSE]
  /\ UNCHANGED <<storage, disk, dirty, overrun>>

Call(s) == query[s][Len(heap[s]) + 1]

\* PG_GETARG_ARRAYTYPE_P
Arg(s, i) == IF i = 0 THEN page ELSE heap[s][i]
Args(s) == [i \in DOMAIN Call(s).arg |-> Arg(s, Call(s).arg[i])]

\* What the call leaves, if its argument was not a detoasted copy.
Left(s) ==
  LET i == Call(s).arg[1]
      a == After(Call(s), Args(s))
  IN /\ page' = IF i = 0 /\ storage = "plain" THEN a ELSE page
     /\ heap' = [heap EXCEPT ![s] =
                   LET old == IF i = 0 THEN @ ELSE [@ EXCEPT ![i] = a]
                   IN IF Raises(Call(s), Args(s)) THEN old
                      ELSE Append(old, Out(Call(s), Args(s)))]

Evaluate(s) ==
  /\ status[s] = "run"
  /\ Left(s)
  /\ status' = [status EXCEPT ![s] =
       IF Raises(Call(s), Args(s)) THEN "error"
       ELSE IF Len(heap[s]) + 1 = Len(query[s]) THEN "done" ELSE "run"]
  /\ saw' = [saw EXCEPT ![s] =
       @ \/ (page # Stored /\ \E i \in DOMAIN Call(s).arg : Call(s).arg[i] = 0)]
  /\ overrun' = (overrun \/ Overruns(Call(s), Args(s)))
  /\ UNCHANGED <<storage, disk, dirty, query>>

\* A hint bit is set, or another row of the page is updated.
MarkDirty ==
  /\ page # NULL /\ ~dirty
  /\ dirty' = TRUE
  /\ UNCHANGED <<storage, disk, page, query, heap, status, saw, overrun>>

\* Only a page nobody has pinned is replaced.
Evict ==
  /\ page # NULL
  /\ \A s \in Sessions : status[s] # "run"
  /\ disk' = IF dirty THEN page ELSE disk
  /\ page' = NULL
  /\ dirty' = FALSE
  /\ UNCHANGED <<storage, query, heap, status, saw, overrun>>

Next == (\E s \in Sessions : Fetch(s) \/ Evaluate(s)) \/ MarkDirty \/ Evict

Spec == Init /\ [][Next]_vars

----------------------------------------------------------------------------

\* The arguments of call j of q, and its result as a sequence of one, if every
\* operator were a function of the stored array and f were the results before j;
\* empty for an error and for a call that is not reached.
PureArgs(q, f, j) ==
  [i \in DOMAIN q[j].arg |-> IF q[j].arg[i] = 0 THEN Stored ELSE f[q[j].arg[i]][1]]
PureCall(q, f, j) ==
  IF (j > 1 /\ f[j - 1] = <<>>) \/ Raises(q[j], PureArgs(q, f, j)) THEN <<>>
  ELSE <<Out(q[j], PureArgs(q, f, j))>>

Pure(q) == LET f[j \in 1 .. Len(q)] == PureCall(q, f, j) IN f

\* The calls that write in their argument.
Modifies(c) ==
  \/ c.op \in {"relu", "madd", "group_kfm_im2col"}
  \/ c.off # <<>>

\* Some call reads an intermediate array after another has written in it.
Reuses(q) ==
  \E j \in 1 .. Len(q) : \E k \in 1 .. (j - 1) :
    /\ Modifies(q[k]) /\ q[k].arg[1] # 0
    /\ \E i \in DOMAIN q[j].arg : q[j].arg[i] = q[k].arg[1]

\* The variables have their types.
TypeOK ==
  /\ storage \in {"plain", "extended"} /\ dirty \in BOOLEAN
  /\ \A s \in Sessions :
       /\ status[s] \in {"idle", "run", "done", "error"}
       /\ status[s] = "done" => Len(heap[s]) = Len(query[s])
       /\ status[s] \in {"run", "error"} => Len(heap[s]) < Len(query[s])

\* However often kfm_im2col, group_kfm_im2col and concat_array have written over
\* dims[0], no header claims more rows than there is data, neither in the shared
\* buffer nor in the results of any session: until concat_array is called with an
\* offset outside its input, which it alone of the four does not test, or with an
\* input wider than the first.
HeaderWithinData ==
  /\ TypeOK
  /\ ~ overrun =>
       /\ page # NULL => page.rows <= Len(page.data)
       /\ \A s \in Sessions :
            \A i \in DOMAIN heap[s] : heap[s][i].rows <= Len(heap[s][i].data)

\* A query gives another result, or another error, than its operators applied
\* to the stored array would, only if it reads an intermediate array again that
\* relu, madd, an offset or groups were written over, or if it has read a column
\* that was.  A column that is toasted or short is never written over, whatever
\* the offsets.
PureUnlessShared ==
  \A s \in Sessions :
    /\ storage = "extended" => ~ saw[s]
    /\ Reuses(query[s]) \/ saw[s] \/ overrun \/
         (/\ status[s] = "done" =>
              Pure(query[s])[Len(query[s])] = <<heap[s][Len(query[s])]>>
          /\ status[s] = "error" => Pure(query[s])[Len(query[s])] = <<>>)

\* "Never modify the contents of a pass-by-reference input value": the array in
\* the buffer stays the array of the table.
StoredArrayUnchanged == page # NULL => page = Stored

=============================================================================
