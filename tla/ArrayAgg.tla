------------------------------ MODULE ArrayAgg ------------------------------
(***************************************************************************)
(* The aggregate array_2d_agg (extended_op.c) in a parallel plan.  Each    *)
(* process of the plan scans some of the rows with array_2d_agg_transfn;   *)
(* its ArrayBuildStateArr is serialized, sent to the leader, deserialized  *)
(* there and merged with array_2d_agg_combine; array_2d_agg_finalfn makes  *)
(* the array.                                                              *)
(*                                                                         *)
(* The data area of a state is the sequence of rows whose bytes were       *)
(* copied into it.  A null element takes a bit of the null bitmap and no   *)
(* bytes.                                                                  *)
(***************************************************************************)
EXTENDS Integers, FiniteSets, Sequences

CONSTANTS
  Rows,             \* the rows the aggregate runs over
  Workers,          \* the processes of the parallel plan, leader included
  Arrays,           \* the arrays a row may hold: shape, bytes and null bits
  NullArray,        \* SQL NULL in place of an array
  NULL,             \* no transition state yet
  MAXDIM,
  MinBytes,         \* 1024, the smallest data area
  MinItems          \* 256, the smallest null bitmap

Undefined == 2  \* a bit nobody has written
Bits == {0, 1, Undefined}
Max2(a, b) == IF a >= b THEN a ELSE b

\* bits is the array's null bitmap, 1 for an element that is not null, and
\* <<>> for an array without one.  Only an array without dimensions is empty,
\* and the aggregate is declared for real[][]: no array has three.
ASSUME ArraysAssumption ==
  /\ NullArray \notin Arrays
  /\ \A a \in Arrays :
       /\ a.shape \in Seq(Nat) /\ a.items \in Nat /\ a.nbytes \in Nat
       /\ a.bits \in Seq({0, 1}) /\ Len(a.bits) \in {0, a.items}
       /\ a.shape # <<>> => a.items > 0
       /\ Len(a.shape) <= 2

\* The number of elements of a one- or two-dimensional array.
Places(dims) == IF Len(dims) = 1 THEN dims[1] ELSE dims[1] * dims[2]

\* Every dimension of an array counts, and PostgreSQL allows for six of them.
ASSUME ShapeAssumption ==
  /\ MAXDIM \in Nat /\ MAXDIM >= 3
  /\ \A a \in Arrays : a.shape # <<>> => a.items = Places(a.shape)

ASSUME SizeAssumption == MinBytes \in Nat \ {0} /\ MinItems \in Nat \ {0}

ASSUME ProcessAssumption == IsFiniteSet(Rows) /\ Workers # {}

\* ArrayBuildStateArr; cap is the size of the chunk data points to.
States ==
  [dims : Seq(Nat), data : Seq(Rows), nbytes : Nat, abytes : Nat, cap : Nat,
   nitems : Nat, aitems : Nat, nullbitmap : Seq(Bits)]
Results == [dims : Seq(Nat), data : Seq(Rows), nitems : Nat, bits : Seq(Bits)]

ASSUME NullAssumption == NULL \notin States /\ NULL \notin Results

VARIABLES
  table,      \* the array each row holds
  grouped,    \* whether the query has a GROUP BY
  unclaimed,  \* rows no process has fetched yet
  state,      \* each process's ArrayBuildStateArr
  pc,         \* "scan", "sent" (to the leader) or "done" (merged there)
  agg,        \* the leader's combined state
  phase,      \* of the query: "run", "done", "error", "crash"
  result      \* the array, once there is one

vars == <<table, grouped, unclaimed, state, pc, agg, phase, result>>

Init ==
  /\ table \in [Rows -> Arrays \cup {NullArray}]
  /\ grouped \in BOOLEAN
  /\ unclaimed = Rows
  /\ state = [w \in Workers |-> NULL]
  /\ pc = [w \in Workers |-> "scan"]
  /\ agg = NULL
  /\ phase = "run"
  /\ result = NULL

-----------------------------------------------------------------------------
(* pg_nextpower2_32, array_bitmap_copy and the growth of a bitmap *)

\* There is one power of two from n to 2n - 1.
PowersFrom(n) == {p \in n .. 2 * n - 1 : \E k \in 0 .. n : p = 2 ^ k}
NextPower2(n) == IF PowersFrom(n) = {} THEN n ELSE CHOOSE p \in PowersFrom(n) : TRUE

\* The first n bits of src (all set when src is <<>>, the null pointer)
\* written to dst behind its first off bits.
BitmapCopy(dst, off, src, n) ==
  [i \in 1 .. Len(dst) |->
     IF i \in off + 1 .. off + n
     THEN IF src = <<>> THEN 1 ELSE src[i - off]
     ELSE dst[i]]

Palloc(n) == [i \in 1 .. n |-> Undefined]
Repalloc(b, n) == [i \in 1 .. n |-> IF i <= Len(b) THEN b[i] ELSE Undefined]

-----------------------------------------------------------------------------
(* array_2d_agg_transfn, that is accumArrayResultArr *)

\* The checks that raise no ERROR.
Accepts(s, r) ==
  /\ table[r] # NullArray
  /\ IF s = NULL
     THEN table[r].shape # <<>> /\ Len(table[r].shape) + 1 <= MAXDIM
     ELSE Tail(s.dims) = table[r].shape

AllocItems(s, a) ==
  LET new == s.nitems + a.items
  IN  IF a.bits = <<>> /\ s.nullbitmap = <<>> THEN s.aitems
      ELSE IF s.nullbitmap = <<>> THEN NextPower2(Max2(MinItems, new + 1))
      ELSE IF new > s.aitems THEN Max2(2 * s.aitems, new) ELSE s.aitems

\* Mutant: the items seen before the first null are not marked.
AllocBitmapUnmarked(s, n) ==
  IF s.nullbitmap = <<>> THEN Palloc(n) ELSE Repalloc(s.nullbitmap, n)

\* The bitmap grown to n bits; a new one marks all previous items non-null.
AllocBitmap(s, n) ==
  IF s.nullbitmap = <<>>
  THEN BitmapCopy(Palloc(n), 0, <<>>, s.nitems)
  ELSE Repalloc(s.nullbitmap, n)

\* The first input: initArrayResultArr and the "ndims == 0" branch.
FirstState(a) ==
  LET n == NextPower2(Max2(MinBytes, a.nbytes + 1))
  IN  [dims |-> <<0>> \o a.shape, data |-> <<>>, nbytes |-> 0, abytes |-> n,
       cap |-> n, nitems |-> 0, aitems |-> 0, nullbitmap |-> <<>>]

GrownBytes(s, n) ==
  IF s.nbytes + n > s.abytes THEN Max2(2 * s.abytes, s.nbytes + n) ELSE s.abytes

\* Mutant: a new row goes before the others.
Append1Front(s, r) ==
  LET a == table[r]
      n == AllocItems(s, a)
      bytes == GrownBytes(s, a.nbytes)
  IN  [dims |-> [s.dims EXCEPT ![1] = @ + 1],
       data |-> <<r>> \o s.data,
       nbytes |-> s.nbytes + a.nbytes,
       abytes |-> bytes,
       cap |-> IF bytes # s.abytes THEN bytes ELSE s.cap,
       nitems |-> s.nitems + a.items,
       aitems |-> n,
       nullbitmap |-> IF a.bits = <<>> /\ s.nullbitmap = <<>> THEN <<>>
                      ELSE BitmapCopy(AllocBitmap(s, n), s.nitems, a.bits, a.items)]

Append1(s, r) ==
  LET a == table[r]
      n == AllocItems(s, a)
      bytes == GrownBytes(s, a.nbytes)
  IN  [dims |-> [s.dims EXCEPT ![1] = @ + 1],
       data |-> Append(s.data, r),
       nbytes |-> s.nbytes + a.nbytes,
       abytes |-> bytes,
       cap |-> IF bytes # s.abytes THEN bytes ELSE s.cap,
       nitems |-> s.nitems + a.items,
       aitems |-> n,
       nullbitmap |-> IF a.bits = <<>> /\ s.nullbitmap = <<>> THEN <<>>
                      ELSE BitmapCopy(AllocBitmap(s, n), s.nitems, a.bits, a.items)]

Accumulate(s, r) == Append1(IF s = NULL THEN FirstState(table[r]) ELSE s, r)

-----------------------------------------------------------------------------
(* array_agg_array_deserialize and array_2d_agg_combine *)

\* The data area is allocated from nbytes (doubling 1024 until it fits);
\* abytes is then set to the sender's value.
Deserialize(s) == [s EXCEPT !.cap = Max2(MinBytes, NextPower2(s.nbytes))]

\* "state1 == NULL": a copy in the aggregate's memory context.
CombineCopy(s2) == [s2 EXCEPT !.cap = s2.abytes]

\* Mutant: only the number of dimensions is compared.
CompatibleNdims(s1, s2) == Len(s1.dims) = Len(s2.dims)
Compatible(s1, s2) == Tail(s1.dims) = Tail(s2.dims)

\* Mutant: the requested size leaves out what is there already.
CombineBytesNew(s1, s2) ==
  IF s1.abytes < s2.nbytes THEN NextPower2(s2.nbytes) ELSE s1.abytes
CombineBytes(s1, s2) ==
  IF s1.abytes < s1.nbytes + s2.nbytes
  THEN NextPower2(s1.nbytes + s2.nbytes) ELSE s1.abytes

\* Mutant: the bitmap of state2 is never looked at.
CombineItemsNever(s1, s2) == s1.aitems

\* The branches under "if (state2->nullbitmap)".
CombineItems(s1, s2) ==
  LET new == s1.nitems + s2.nitems
  IN  IF s2.nullbitmap = <<>> THEN s1.aitems
      ELSE IF s1.nullbitmap = <<>> THEN NextPower2(Max2(MinItems, new + 1))
      ELSE IF new > s1.aitems THEN NextPower2(s1.aitems + s2.aitems)
      ELSE s1.aitems

CombineBitmap(s1, s2) ==
  IF s2.nullbitmap = <<>> THEN s1.nullbitmap
  ELSE BitmapCopy(AllocBitmap(s1, CombineItems(s1, s2)), s1.nitems,
                  s2.nullbitmap, s2.nitems)

CombineAppend(s1, s2) ==
  [dims |-> [s1.dims EXCEPT ![1] = @ + s2.dims[1]],
   data |-> s1.data \o s2.data,
   nbytes |-> s1.nbytes + s2.nbytes,
   abytes |-> CombineBytes(s1, s2),
   cap |-> IF CombineBytes(s1, s2) # s1.abytes THEN CombineBytes(s1, s2) ELSE s1.cap,
   nitems |-> s1.nitems + s2.nitems,
   aitems |-> CombineItems(s1, s2),
   nullbitmap |-> CombineBitmap(s1, s2)]

CombineStates(s1, s2) ==
  IF s1 = NULL THEN CombineCopy(s2)
  ELSE IF s2.nitems > 0 THEN CombineAppend(s1, s2) ELSE s1

-----------------------------------------------------------------------------
(* The parallel plan *)

\* A process fetches a row that no other process fetched.
Transfn(w, r) ==
  /\ phase = "run" /\ pc[w] = "scan" /\ r \in unclaimed
  /\ Accepts(state[w], r)
  /\ unclaimed' = unclaimed \ {r}
  /\ state' = [state EXCEPT ![w] = Accumulate(@, r)]
  /\ UNCHANGED <<table, grouped, pc, agg, phase, result>>

TransfnError(w, r) ==
  /\ phase = "run" /\ pc[w] = "scan" /\ r \in unclaimed
  /\ ~Accepts(state[w], r)
  /\ phase' = "error"
  /\ UNCHANGED <<table, grouped, unclaimed, state, pc, agg, result>>

\* The scan is exhausted: array_agg_array_serialize.
Serialize(w) ==
  /\ phase = "run" /\ pc[w] = "scan" /\ unclaimed = {}
  /\ state[w] # NULL
  /\ pc' = [pc EXCEPT ![w] = "sent"]
  /\ UNCHANGED <<table, grouped, unclaimed, state, agg, phase, result>>

\* Without GROUP BY a process that saw no row has a partial result all the
\* same, the null state.  The serialization function is not declared STRICT,
\* so it is called and reads through the null pointer.
SerializeNull(w) ==
  /\ phase = "run" /\ pc[w] = "scan" /\ unclaimed = {}
  /\ state[w] = NULL /\ ~grouped
  /\ phase' = "crash"
  /\ UNCHANGED <<table, grouped, unclaimed, state, pc, agg, result>>

\* With GROUP BY a process that saw no row of the group reports no group.
NoGroup(w) ==
  /\ phase = "run" /\ pc[w] = "scan" /\ unclaimed = {}
  /\ state[w] = NULL /\ grouped
  /\ pc' = [pc EXCEPT ![w] = "done"]
  /\ UNCHANGED <<table, grouped, unclaimed, state, agg, phase, result>>

\* Mutant: the partial state stays, to be merged again.
CombineAgain(w) ==
  /\ phase = "run" /\ pc[w] = "sent"
  /\ agg # NULL => Compatible(agg, state[w])
  /\ agg' = CombineStates(agg, Deserialize(state[w]))
  /\ pc' = [pc EXCEPT ![w] = IF agg = NULL THEN "sent" ELSE "done"]
  /\ state' = [state EXCEPT ![w] = IF agg = NULL THEN @ ELSE NULL]
  /\ UNCHANGED <<table, grouped, unclaimed, phase, result>>

\* Mutant: the case of no state1, in which state2 is copied, is missing.
CombineNoCopy(w) ==
  /\ phase = "run" /\ pc[w] = "sent"
  /\ agg # NULL /\ Compatible(agg, state[w])
  /\ agg' = CombineStates(agg, Deserialize(state[w]))
  /\ pc' = [pc EXCEPT ![w] = "done"]
  /\ state' = [state EXCEPT ![w] = NULL]
  /\ UNCHANGED <<table, grouped, unclaimed, phase, result>>

\* The leader gets the partial states in any order.
Combine(w) ==
  /\ phase = "run" /\ pc[w] = "sent"
  /\ agg # NULL => Compatible(agg, state[w])
  /\ agg' = CombineStates(agg, Deserialize(state[w]))
  /\ pc' = [pc EXCEPT ![w] = "done"]
  /\ state' = [state EXCEPT ![w] = NULL]
  /\ UNCHANGED <<table, grouped, unclaimed, phase, result>>

CombineError(w) ==
  /\ phase = "run" /\ pc[w] = "sent"
  /\ agg # NULL /\ ~Compatible(agg, state[w])
  /\ phase' = "error"
  /\ UNCHANGED <<table, grouped, unclaimed, state, pc, agg, result>>

\* Mutant: the number of accumulated arrays is taken for the first dimension.
ResultDimsUnscaled(s) ==
  SubSeq(<<s.dims[1], IF Len(s.dims) > 2 THEN s.dims[3] ELSE 0>>, 1, Len(s.dims) - 1)

\* Mutant: new_dims[0] keeps what was on the stack, here a negative number.
ResultDimsUnset(s) ==
  SubSeq(<<-1, IF Len(s.dims) > 2 THEN s.dims[3] ELSE 0>>, 1, Len(s.dims) - 1)

\* new_dims in makeAgg2dResultArr, which has room for two.
ResultDims(s) ==
  SubSeq(<<s.dims[1] * s.dims[2], IF Len(s.dims) > 2 THEN s.dims[3] ELSE 0>>,
         1, Len(s.dims) - 1)

\* makeAgg2dResultArr: the array, with as much of the bitmap as there are
\* items.
Finalfn ==
  /\ phase = "run" /\ \A w \in Workers : pc[w] = "done"
  /\ phase' = "done"
  /\ result' = IF agg = NULL THEN NULL
               ELSE [dims |-> ResultDims(agg), data |-> agg.data,
                     nitems |-> agg.nitems,
                     bits |-> IF agg.nullbitmap = <<>> THEN <<>>
                              ELSE Repalloc(agg.nullbitmap, agg.nitems)]
  /\ UNCHANGED <<table, grouped, unclaimed, state, pc, agg>>

Next ==
  \/ \E w \in Workers :
       \/ \E r \in Rows : Transfn(w, r) \/ TransfnError(w, r)
       \/ Serialize(w) \/ SerializeNull(w) \/ NoGroup(w)
       \/ Combine(w) \/ CombineError(w)
  \/ Finalfn

\* The executor runs a plan to its end.
Spec == Init /\ [][Next]_vars /\ WF_vars(Next)

-----------------------------------------------------------------------------
(* Properties *)

\* The variables have their types; the dimensions of the result are numbers
\* that makeAgg2dResultArr has set.
TypeOK ==
  /\ table \in [Rows -> Arrays \cup {NullArray}]
  /\ grouped \in BOOLEAN
  /\ unclaimed \in SUBSET Rows
  /\ state \in [Workers -> States \cup {NULL}]
  /\ pc \in [Workers -> {"scan", "sent", "done"}]
  /\ agg \in States \cup {NULL}
  /\ phase \in {"run", "done", "error", "crash"}
  /\ result \in Results \cup {NULL}

\* The bytes copied into a data area fit into what was allocated for it, and
\* into abytes, from which the next growth is computed.
DataInBounds(s) == s # NULL => s.nbytes <= s.cap /\ s.nbytes <= s.abytes
\* A null bitmap has room for every item; serialize and deserialize agree on
\* whether there is one, though one looks at the pointer, the other at aitems.
BitmapInBounds(s) ==
  s # NULL =>
    /\ s.aitems = Len(s.nullbitmap)
    /\ s.nullbitmap # <<>> => s.nitems <= s.aitems

\* Growing by accumArrayResultArr, by the doubling loop of deserialize and by
\* array_2d_agg_combine always leaves room for what is copied next.
StatesInBounds ==
  /\ \A w \in Workers : DataInBounds(state[w]) /\ BitmapInBounds(state[w])
  /\ DataInBounds(agg)

\* Whichever process fetches which row, and in whatever order the partial
\* states reach the leader, the result holds each row's array exactly once.
EveryRowOnce ==
  phase = "done" =>
    IF result = NULL THEN Rows = {}
    ELSE /\ {result.data[i] : i \in DOMAIN result.data} = Rows
         /\ \A i, j \in DOMAIN result.data : result.data[i] = result.data[j] => i = j

\* Stacking along the first dimension gives a shape with as many places as
\* there are items, for one- and two-dimensional inputs.
ShapeMatchesItems ==
  result # NULL => result.nitems = Places(result.dims)

\* The rows a serial aggregation fails on: a null or empty array, two shapes.
Incompatible ==
  \/ \E r \in Rows : table[r] = NullArray
  \/ \E r \in Rows : table[r].shape = <<>>
  \/ \E r, q \in Rows : table[r].shape # table[q].shape

\* Splitting the rows over processes changes no error of accumArrayResultArr or
\* array_2d_agg_combine: the query fails exactly when a serial one would.
ErrorsAsInSerial ==
  /\ phase = "error" => Incompatible
  /\ phase = "done" => ~Incompatible

\* An element for each item of an array, with or without a null bitmap.
ItemBits(a) == IF a.bits = <<>> THEN [i \in 1 .. a.items |-> 1] ELSE a.bits

\* Those of the arrays that the rows in data have in table T, one after the other.
RowBits(T, data) ==
  LET upto[i \in 0 .. Len(data)] ==
        IF i = 0 THEN <<>> ELSE upto[i - 1] \o ItemBits(T[data[i]])
  IN  upto[Len(data)]

NullsExact(T, s) ==
  \/ s = NULL
  \/ s.nullbitmap = <<>> /\ \A i \in DOMAIN s.data : T[s.data[i]].bits = <<>>
  \/ /\ s.nullbitmap # <<>> /\ s.nitems <= Len(s.nullbitmap)
     /\ SubSeq(s.nullbitmap, 1, s.nitems) = RowBits(T, s.data)

\* In a process's own state the bitmap tells, for every item, whether it was
\* null in its row, although the bitmap is only created at the first null.
WorkerNullsExact == \A w \in Workers : NullsExact(table, state[w])

\* A merge keeps the bitmap exact unless it appends a state without bitmap to
\* one that has a bitmap: array_2d_agg_combine only looks at state2's bitmap.
CombineKeepsNulls ==
  [][\A w \in Workers :
       /\ pc[w] = "sent" /\ pc'[w] = "done"
       /\ NullsExact(table, agg)
       /\ agg = NULL \/ agg.nullbitmap = <<>> \/ state[w].nullbitmap # <<>>
       => NullsExact(table, agg')]_vars

\* The query ends.
QueryEnds == <>(phase # "run")

\* A process that saw no row takes part in the aggregation like any other: the
\* combine function's comment says "NULL state2 is easy".
NullStateCombined == phase # "crash"
=============================================================================
