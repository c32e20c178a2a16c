--------------------------- MODULE InferenceProofs ---------------------------
(***************************************************************************)
(* Theorems about what a backend does for a prediction.  The weight pool,  *)
(* for every set of tables, all name lengths, every pool size, and whether *)
(* or not memory runs out; and the window loops of the kernels, for        *)
(* images, kernels, strides and teams of any size.                         *)
(***************************************************************************)
EXTENDS WeightPool, Windows, FiniteSetTheorems, TLAPS

----------------------------------------------------------------------------
(* WeightPool: types *)

\* What load_model has established about the table it works on: the row was
\* read and has both arrays.
CallOK ==
  /\ call.pc \in {"val", "bias"} =>
       /\ call.todo # <<>>
       /\ Table \in Tables
       /\ Row \in RowKinds

TypeInv == TypeOK /\ CallOK

\* load_model only uses keys of the hash table.
LEMMA KeyInKeys == \A t \in Tables, part \in Parts : Key(t, part) \in Keys
  BY DEF Keys

\* The array sizes insert_weight is called with are natural numbers.
LEMMA RowSize ==
  ASSUME TypeInv, NEW part \in Parts, call.pc = part
  PROVE  /\ Row[part] \in Nat
         /\ Table \in Tables
         /\ Key(Table, part) \in Keys
         /\ Content(part) \in Contents
  <1>1. Table \in Tables /\ Row \in RowKinds
    BY DEF TypeInv, CallOK, Parts
  <1>2. call.snap[Table] \in Rows
    BY <1>1 DEF TypeInv, TypeOK
  <1>3. QED
    BY <1>1, <1>2, KeyInKeys, TablesAssumption DEF Contents, Content, Rows

\* The record load_model's state is reset to.
LEMMA NoCallType ==
  ASSUME NEW pc \in {"idle", "failed"}
  PROVE  /\ NoCall(pc) \in [pc : {"idle", "read", "val", "bias", "done", "failed"},
                              todo : Seq(Tables \cup {NullName}),
                              snap : [Tables -> Rows],
                              loaded : SUBSET Tables]
         /\ NoCall(pc).pc = pc
  <1>1. [ver |-> 0, arrays |-> NoRow] \in Rows
    BY MemoryAssumption DEF Rows, Versions
  <1>2. <<>> \in Seq(Tables \cup {NullName})
    OBVIOUS
  <1>3. QED
    BY <1>1, <1>2 DEF NoCall

\* The tables still to load after the current one.
LEMMA TailType ==
  ASSUME TypeOK, call.todo # <<>>
  PROVE  /\ Tail(call.todo) \in Seq(Tables \cup {NullName})
         /\ Head(call.todo) \in Tables \cup {NullName}
  <1>1. call.todo \in Seq(Tables \cup {NullName})
    BY DEF TypeOK
  <1>2. QED
    BY <1>1

\* insert_weight keeps the pool well typed, in each of its outcomes.
LEMMA InsertTypes ==
  ASSUME TypeOK, NEW k \in Keys, NEW c \in Contents, NEW n \in Nat,
         \/ InsertSucceeds(k, c, n)
         \/ InsertRefused(k, n)
         \/ InsertBreaks(k, n)
         \/ UNCHANGED pool
  PROVE  /\ ptr' \in [Keys -> {"absent", "null", "ok", "dangling", "garbage"}]
         /\ data' \in [Keys -> SUBSET Units]
         /\ data_size' \in [Keys -> Nat]
         /\ content' \in [Keys -> Contents]
         /\ usage' \in Int
  <1>1. CASE InsertSucceeds(k, c, n)
    <2>1. Palloc(Free(k), n) \in SUBSET Units
      BY <1>1 DEF InsertSucceeds, Free
    <2>2. QED
      BY <1>1, <2>1 DEF InsertSucceeds, OldSize, TypeOK
  <1>2. CASE InsertBreaks(k, n)
    <2>1. ptr' \in [Keys -> {"absent", "null", "ok", "dangling", "garbage"}]
      <3>1. PICK p \in {"dangling", "null", "garbage"} : ptr' = [ptr EXCEPT ![k] = p]
        BY <1>2 DEF InsertBreaks
      <3>2. ptr \in [Keys -> {"absent", "null", "ok", "dangling", "garbage"}]
        BY DEF TypeOK
      <3>3. QED
        BY <3>1, <3>2
    <2>2. QED
      BY <1>2, <2>1 DEF InsertBreaks, OldSize, TypeOK, Contents
  <1>3. CASE InsertRefused(k, n) \/ UNCHANGED pool
    BY <1>3 DEF InsertRefused, pool, TypeOK
  <1>4. QED
    BY <1>1, <1>2, <1>3

\* Every step of load_model and of the database keeps the pool well typed.
LEMMA TypeStep == TypeInv /\ [Next]_vars => TypeInv'
  <1> SUFFICES ASSUME TypeInv, [Next]_vars PROVE TypeInv'
    OBVIOUS
  <1>1. ASSUME NEW arg \in Arguments, CallLoadModel(arg) PROVE TypeInv'
    <2>1. arg \in Seq(Tables \cup {NullName})
      BY DEF Arguments
    <2>2. QED
      BY <1>1, <2>1 DEF CallLoadModel, TypeInv, TypeOK, CallOK, pool
  <1>2. CASE SkipNull
    BY <1>2, TailType, Zenon DEF SkipNull, TypeInv, TypeOK, CallOK, pool
  <1>3. CASE ReadRow
    BY <1>3, TailType, Zenon DEF ReadRow, TypeInv, TypeOK, CallOK, pool, Table, Row, Rows
  <1>4. CASE ReadFails
    BY <1>4, NoCallType DEF ReadFails, TypeInv, TypeOK, CallOK, pool
  <1>5. CASE InsertVal
    BY <1>5, RowSize, InsertTypes, Zenon
       DEF InsertVal, TypeInv, TypeOK, CallOK, Parts, Table, Row
  <1>6. CASE InsertBias
    BY <1>6, RowSize, InsertTypes, TailType, Zenon
       DEF InsertBias, TypeInv, TypeOK, CallOK, Parts, Table
  <1>7. CASE LoadDone
    BY <1>7, Zenon DEF LoadDone, TypeInv, TypeOK, CallOK, pool
  <1>8. ASSUME NEW part \in Parts, InsertError(part) PROVE TypeInv'
    <2>1. TypeOK /\ CallOK
      BY DEF TypeInv
    <2>2. /\ ptr' \in [Keys -> {"absent", "null", "ok", "dangling", "garbage"}]
          /\ data' \in [Keys -> SUBSET Units]
          /\ data_size' \in [Keys -> Nat]
          /\ content' \in [Keys -> Contents]
          /\ usage' \in Int
      BY <1>8, <2>1, RowSize, InsertTypes DEF InsertError, CallOK
    <2>3. QED
      BY <1>8, <2>1, <2>2, NoCallType DEF InsertError, TypeInv, TypeOK, CallOK
  <1>9. ASSUME NEW part \in Parts, Undefined(part) PROVE TypeInv'
    BY <1>9, NoCallType DEF Undefined, TypeInv, TypeOK, CallOK, pool
  <1>10. ASSUME NEW t \in Tables, UpdateTable(t) PROVE TypeInv'
    <2>1. rows' \in [Tables -> Rows]
      BY <1>10, MemoryAssumption DEF UpdateTable, TypeInv, TypeOK, Rows, Versions
    <2>2. QED
      BY <1>10, <2>1 DEF UpdateTable, TypeInv, TypeOK, CallOK, pool, Table, Row
  <1>11. CASE Reconnect
    BY <1>11, NoCallType, MemoryAssumption
       DEF Reconnect, TypeInv, TypeOK, CallOK,
           NoEntry, NoData, NoSize, NoContent, Contents
  <1>12. CASE UNCHANGED vars
    BY <1>12 DEF vars, TypeInv, TypeOK, CallOK, Table, Row
  <1>13. QED
    BY <1>1, <1>2, <1>3, <1>4, <1>5, <1>6, <1>7, <1>8, <1>9, <1>10, <1>11, <1>12
       DEF Next, LoadModel

\* Every reachable state of the pool and of load_model is well typed.
THEOREM TypeCorrect == Spec => []TypeInv
  <1>1. Init => TypeInv
    BY NoCallType, MemoryAssumption
       DEF Init, TypeInv, TypeOK, CallOK,
           NoEntry, NoData, NoSize, NoContent, Contents
  <1>2. QED
    BY <1>1, TypeStep, PTL DEF Spec

\* In every state, between any two steps of a load and of the database, the pool,
\* its sizes and the state of load_model have their types.
THEOREM WellTyped == Spec => []TypeOK
  BY TypeCorrect, PTL DEF TypeInv

-----------------------------------------------------------------------------
(* The limit *)

\* The pool never grows beyond POOL_SIZE: the limit check is made with the old
\* copy still counted, so replacing a weight can only stay further below it.
THEOREM PoolBounded == Spec => []UsageBounded
  <1>1. Init => UsageBounded
    BY MemoryAssumption DEF Init, UsageBounded
  <1>2. TypeInv /\ UsageBounded /\ [Next]_vars => UsageBounded'
    <2> SUFFICES ASSUME TypeInv, UsageBounded, [Next]_vars PROVE UsageBounded'
      OBVIOUS
    <2>1. ASSUME NEW k \in Keys, NEW n \in Nat, NEW c,
                 \/ InsertSucceeds(k, c, n)
                 \/ InsertRefused(k, n)
                 \/ InsertBreaks(k, n)
          PROVE  UsageBounded'
      BY <2>1, MemoryAssumption
         DEF InsertSucceeds, InsertRefused, InsertBreaks, LimitExceeded, OldSize,
             pool, UsageBounded, TypeInv, TypeOK
    <2>2. CASE InsertVal
      BY <2>1, <2>2, RowSize DEF InsertVal, Parts
    <2>3. CASE InsertBias
      BY <2>1, <2>3, RowSize DEF InsertBias, Parts
    <2>4. ASSUME NEW part \in Parts, InsertError(part) PROVE UsageBounded'
      BY <2>1, <2>4, RowSize DEF InsertError
    <2>5. CASE Reconnect
      BY <2>5, MemoryAssumption DEF Reconnect, UsageBounded
    <2>6. CASE UNCHANGED usage
      BY <2>6 DEF UsageBounded
    <2>7. QED
      BY <2>2, <2>3, <2>4, <2>5, <2>6
         DEF Next, LoadModel, CallLoadModel, SkipNull, ReadRow, ReadFails,
             LoadDone, Undefined, UpdateTable, vars, pool
  <1>3. QED
    BY <1>1, <1>2, TypeCorrect, PTL DEF Spec

-----------------------------------------------------------------------------
(* The accounting *)

\* Sizes of separate chunks add up.
LEMMA DisjointCardinality ==
  ASSUME NEW A \in SUBSET Units, NEW B \in SUBSET Units, A \cap B = {}
  PROVE  /\ Cardinality(A \cup B) = Cardinality(A) + Cardinality(B)
         /\ Cardinality(A) \in Nat
         /\ Cardinality(B) \in Nat
  <1>1. IsFiniteSet(A) /\ IsFiniteSet(B)
    BY MemoryAssumption, FS_Subset
  <1>2. /\ Cardinality(A) \in Nat
        /\ Cardinality(B) \in Nat
        /\ Cardinality({}) = 0
    BY <1>1, FS_CardinalityType, FS_EmptySet
  <1>3. Cardinality(A \cup B)
          = Cardinality(A) + Cardinality(B) - Cardinality(A \cap B)
    BY <1>1, FS_Union
  <1>4. Cardinality(A \cap B) = 0
    BY <1>2, Zenon
  <1>5. QED
    BY <1>2, <1>3, <1>4

\* What all entries but k hold.
Rest(k) == UNION {data[j] : j \in Live \ {k}}

\* The pool's counter, split into what k holds and what the others hold.
LEMMA UsageSplit ==
  ASSUME TypeInv, AccountingExact, backend = "up", NEW k \in Keys
  PROVE  /\ usage = LRU_CACHE_SIZE + Cardinality(Rest(k)) + OldSize(k)
         /\ Rest(k) \in SUBSET Units
         /\ Cardinality(Rest(k)) \in Nat
  <1>1. Rest(k) \in SUBSET Units /\ data[k] \in SUBSET Units
    BY DEF Rest, Live, TypeInv, TypeOK
  <1>2. CASE k \in Live
    <2>1. Rest(k) \cap data[k] = {}
      BY <1>2 DEF Rest, AccountingExact
    <2>2. Heap = Rest(k) \cup data[k]
      BY <1>2 DEF Rest, Heap
    <2>3. Cardinality(Heap) = Cardinality(Rest(k)) + Cardinality(data[k])
      BY <1>1, <2>1, <2>2, DisjointCardinality, Zenon
    <2>4. OldSize(k) = Cardinality(data[k])
      BY <1>2 DEF OldSize, Live, AccountingExact
    <2>5. Cardinality(Rest(k)) \in Nat /\ Cardinality(data[k]) \in Nat
      BY <1>1, <2>1, DisjointCardinality, Zenon
    <2>6. QED
      BY <1>1, <2>3, <2>4, <2>5, MemoryAssumption DEF AccountingExact
  <1>3. CASE k \notin Live
    <2>1. Heap = Rest(k)
      BY <1>3 DEF Rest, Heap
    <2>2. OldSize(k) = 0
      BY <1>3 DEF OldSize, Live
    <2>3. Cardinality(Rest(k)) \in Nat
      BY <1>1, MemoryAssumption, FS_Subset, FS_CardinalityType
    <2>4. QED
      BY <1>1, <2>1, <2>2, <2>3, MemoryAssumption DEF AccountingExact
  <1>4. QED
    BY <1>2, <1>3

\* A completed insert_weight: the new chunk is disjoint from what the other
\* entries hold, and the counter changes by the difference of the two sizes.
LEMMA InsertSucceedsAccounting ==
  ASSUME TypeInv, AccountingExact, backend = "up",
         NEW k \in Keys, NEW c \in Contents, NEW n \in Nat, InsertSucceeds(k, c, n)
  PROVE  AccountingExact'
  <1> DEFINE u == Palloc(Free(k), n)
  <1>1. /\ u \in SUBSET Units
        /\ u \cap Rest(k) = {}
        /\ Cardinality(u) = n
        /\ data' = [data EXCEPT ![k] = u]
    BY DEF InsertSucceeds, Free, Rest
  <1> HIDE DEF u
  <1>2. Live' = Live \cup {k}
    BY DEF InsertSucceeds, Live, TypeInv, TypeOK
  <1>3. \A j \in Live \ {k} : data'[j] = data[j] /\ data_size'[j] = data_size[j]
    BY <1>1 DEF Live, InsertSucceeds, TypeInv, TypeOK
  <1>4. data'[k] = u /\ data_size'[k] = n
    BY <1>1 DEF InsertSucceeds, TypeInv, TypeOK
  <1>5. Heap' = Rest(k) \cup u
    BY <1>2, <1>3, <1>4 DEF Heap, Rest
  <1>6. usage' = LRU_CACHE_SIZE + Cardinality(Heap')
    <2>1. Cardinality(Heap') = Cardinality(Rest(k)) + n
      BY <1>1, <1>5, UsageSplit, DisjointCardinality
    <2>2. usage' = usage - OldSize(k) + n
      BY DEF InsertSucceeds
    <2>3. OldSize(k) \in Nat
      BY DEF OldSize, TypeInv, TypeOK
    <2>4. QED
      BY <2>1, <2>2, <2>3, UsageSplit, MemoryAssumption
  <1>7. ASSUME NEW i \in Live', NEW j \in Live', i # j
        PROVE  data'[i] \cap data'[j] = {}
    BY <1>1, <1>2, <1>3, <1>4, <1>7 DEF Rest, AccountingExact
  <1>8. \A j \in Live' : data_size'[j] = Cardinality(data'[j])
    BY <1>1, <1>2, <1>3, <1>4 DEF AccountingExact
  <1>9. QED
    BY <1>6, <1>7, <1>8 DEF AccountingExact

\* palloc fails: the old copy is gone from the heap and from the counter.
LEMMA InsertBreaksAccounting ==
  ASSUME TypeInv, AccountingExact, backend = "up",
         NEW k \in Keys, NEW n \in Nat, InsertBreaks(k, n)
  PROVE  AccountingExact'
  <1>1. Live' = Live \ {k}
    BY DEF InsertBreaks, Live, TypeInv, TypeOK
  <1>2. \A j \in Live \ {k} : data'[j] = data[j] /\ data_size'[j] = data_size[j]
    BY DEF Live, InsertBreaks, TypeInv, TypeOK
  <1>3. Heap' = Rest(k)
    BY <1>1, <1>2 DEF Heap, Rest
  <1>4. usage' = LRU_CACHE_SIZE + Cardinality(Heap')
    <2>1. usage' = usage - OldSize(k) /\ OldSize(k) \in Nat
      BY DEF InsertBreaks, OldSize, TypeInv, TypeOK
    <2>2. QED
      BY <1>3, <2>1, UsageSplit, MemoryAssumption
  <1>5. QED
    BY <1>1, <1>2, <1>4 DEF AccountingExact

\* current_memory_usage is at all times the LRU reserve plus the memory the
\* entries hold, and no memory belongs to two entries: for every size of pool
\* and arrays, all colliding names and every pattern of failures, as long as
\* the process has not freed an invalid pointer.
THEOREM Accounting == Spec => []AccountingExact
  <1>1. Init => AccountingExact
    <2> SUFFICES ASSUME Init PROVE AccountingExact
      OBVIOUS
    <2>1. Live = {} /\ Heap = {}
      BY DEF Init, Live, Heap, NoEntry
    <2>2. QED
      BY <2>1, FS_EmptySet, MemoryAssumption DEF Init, AccountingExact
  <1>2. TypeInv /\ AccountingExact /\ [Next]_vars => AccountingExact'
    <2> SUFFICES ASSUME TypeInv, AccountingExact, [Next]_vars, backend' = "up"
                 PROVE  AccountingExact'
      BY DEF AccountingExact
    <2>1. CASE Reconnect
      <3>1. Live' = {} /\ Heap' = {}
        BY <2>1 DEF Reconnect, Live, Heap, NoEntry
      <3>2. QED
        BY <2>1, <3>1, FS_EmptySet, MemoryAssumption DEF Reconnect, AccountingExact
    <2>2. CASE UNCHANGED <<pool, backend>>
      BY <2>2 DEF pool, AccountingExact, Heap, Live
    <2>3. CASE InsertVal
      BY <2>3, RowSize, InsertSucceedsAccounting DEF InsertVal, Parts
    <2>4. CASE InsertBias
      BY <2>4, RowSize, InsertSucceedsAccounting DEF InsertBias, Parts
    <2>5. ASSUME NEW part \in Parts, InsertError(part) PROVE AccountingExact'
      <3>1. CASE InsertRefused(Key(Table, part), Row[part])
        BY <2>2, <2>5, <3>1 DEF InsertError, InsertRefused
      <3>2. CASE InsertBreaks(Key(Table, part), Row[part])
        BY <2>5, <3>2, RowSize, InsertBreaksAccounting DEF InsertError
      <3>3. QED
        BY <2>5, <3>1, <3>2 DEF InsertError
    <2>6. QED
      BY <2>1, <2>2, <2>3, <2>4, <2>5
         DEF Next, LoadModel, CallLoadModel, SkipNull, ReadRow, ReadFails,
             LoadDone, Undefined, UpdateTable, vars, pool
  <1>3. QED
    BY <1>1, <1>2, TypeCorrect, PTL DEF Spec

-----------------------------------------------------------------------------
(* What the entries contain *)

\* The key of a column of a table with a short enough name is nobody else's.
LEMMA KeyDistinct ==
  ASSUME NEW t \in Tables, NEW u \in Tables, NEW p \in Parts, NEW q \in Parts,
         Distinguished(t), Key(t, p) = Key(u, q)
  PROVE  t = u /\ p = q
  <1>1. NameLen[t] \in Nat /\ NAMEDATALEN \in Nat
    BY TablesAssumption
  <1>2. NameLen[t] <= NAMEDATALEN - 3
    BY <1>1 DEF Distinguished
  <1>3. Prefix[t] = Prefix[u]
    BY DEF Key
  <1>4. t = u
    BY <1>1, <1>2, <1>3, PrefixAssumption
  <1>5. QED
    BY <1>2, <1>4 DEF Key

\* The two outcomes of insert_weight that change what an entry contains.
LEMMA InsertContent ==
  ASSUME TypeInv, NEW k \in Keys, NEW c, NEW n,
         InsertSucceeds(k, c, n) \/ InsertBreaks(k, n)
  PROVE  /\ \A j \in Keys \ {k} : ptr'[j] = ptr[j] /\ content'[j] = content[j]
         /\ InsertSucceeds(k, c, n) => ptr'[k] = "ok" /\ content'[k] = c
         /\ InsertBreaks(k, n) => ptr'[k] # "ok" /\ content'[k] = Nothing
  <1>1. ASSUME InsertSucceeds(k, c, n)
        PROVE  /\ \A j \in Keys \ {k} : ptr'[j] = ptr[j] /\ content'[j] = content[j]
               /\ ptr'[k] = "ok" /\ content'[k] = c
    BY <1>1 DEF InsertSucceeds, TypeInv, TypeOK
  <1>2. ASSUME InsertBreaks(k, n)
        PROVE  /\ \A j \in Keys \ {k} : ptr'[j] = ptr[j] /\ content'[j] = content[j]
               /\ ptr'[k] # "ok" /\ content'[k] = Nothing
    <2>1. PICK p \in {"dangling", "null", "garbage"} : ptr' = [ptr EXCEPT ![k] = p]
      BY <1>2 DEF InsertBreaks
    <2>2. content' = [content EXCEPT ![k] = Nothing]
      BY <1>2 DEF InsertBreaks
    <2>3. QED
      BY <2>1, <2>2 DEF TypeInv, TypeOK
  <1>3. QED
    BY <1>1, <1>2

\* For every table whose two keys stay apart, a lookup returns only what was
\* read from the column it names, whatever the other tables are called.
THEOREM LookupsReturnOwnWeights == Spec => []OwnWeights
  <1>1. Init => OwnWeights
    <2>1. Init => \A k \in Keys : content[k] = Nothing
      BY DEF Init, NoContent
    <2>2. QED
      BY <2>1, KeyInKeys DEF OwnWeights
  <1>2. TypeInv /\ OwnWeights /\ [Next]_vars => OwnWeights'
    <2> SUFFICES ASSUME TypeInv, OwnWeights, [Next]_vars,
                        NEW t \in Tables, NEW p \in Parts, Distinguished(t),
                        content'[Key(t, p)] # Nothing
                 PROVE  /\ content'[Key(t, p)].table = t
                        /\ content'[Key(t, p)].part = p
      BY DEF OwnWeights
    <2>1. CASE content'[Key(t, p)] = content[Key(t, p)]
      BY <2>1 DEF OwnWeights
    <2>2. ASSUME NEW q \in Parts, call.pc = q, NEW n,
                 \/ InsertSucceeds(Key(Table, q), Content(q), n)
                 \/ InsertBreaks(Key(Table, q), n)
          PROVE  /\ content'[Key(t, p)].table = t
                 /\ content'[Key(t, p)].part = p
      <3>1. Table \in Tables /\ Key(Table, q) \in Keys /\ Key(t, p) \in Keys
        BY <2>2, RowSize, KeyInKeys
      <3>2. CASE Key(t, p) = Key(Table, q)
        <4>1. t = Table /\ p = q
          BY <3>1, <3>2, KeyDistinct
        <4>2. content'[Key(t, p)] = Content(q)
          BY <2>2, <3>1, <3>2, InsertContent
        <4>3. QED
          BY <4>1, <4>2 DEF Content
      <3>3. CASE Key(t, p) # Key(Table, q)
        BY <2>1, <2>2, <3>1, <3>3, InsertContent
      <3>4. QED
        BY <3>2, <3>3
    <2>3. CASE InsertVal
      BY <2>2, <2>3 DEF InsertVal, Parts
    <2>4. CASE InsertBias
      BY <2>2, <2>4, SMTT(30) DEF InsertBias, Parts
    <2>5. ASSUME NEW q \in Parts, InsertError(q)
          PROVE  /\ content'[Key(t, p)].table = t
                 /\ content'[Key(t, p)].part = p
      BY <2>1, <2>2, <2>5 DEF InsertError, InsertRefused, pool
    <2>6. CASE Reconnect
      BY <2>6, KeyInKeys DEF Reconnect, NoContent
    <2>7. CASE UNCHANGED content
      BY <2>1, <2>7
    <2>8. QED
      BY <2>3, <2>4, <2>5, <2>6, <2>7
         DEF Next, LoadModel, CallLoadModel, SkipNull, ReadRow, ReadFails,
             LoadDone, Undefined, UpdateTable, vars, pool
  <1>3. QED
    BY <1>1, <1>2, TypeCorrect, PTL DEF Spec

\* Both weights of t are the ones of the snapshot load_model reads.
Holds(t, part) ==
  /\ ptr[Key(t, part)] = "ok"
  /\ content[Key(t, part)]
       = [table |-> t, part |-> part, ver |-> call.snap[t].ver]

\* LoadedIsSnapshot is not inductive: while the call runs, every table already
\* loaded is complete, and between the two inserts the kernel is in place.
SnapInv ==
  /\ call.pc \in {"read", "val", "bias", "done"} =>
       \A t \in call.loaded : \A part \in Parts :
         Distinguished(t) => Holds(t, part)
  /\ call.pc = "bias" /\ Distinguished(Table) => Holds(Table, "val")

\* Every step keeps the strengthening SnapInv.
LEMMA SnapStep == TypeInv /\ SnapInv /\ [Next]_vars => SnapInv'
  <1> SUFFICES ASSUME TypeInv, SnapInv, [Next]_vars PROVE SnapInv'
    OBVIOUS
  <1>1. ASSUME NEW q \in Parts, call.pc = q, NEW n, call'.snap = call.snap,
               NEW T, T = Table,
               InsertSucceeds(Key(T, q), Content(q), n)
        PROVE  /\ \A t \in Tables : \A part \in Parts :
                    Distinguished(t) /\ Holds(t, part) => Holds(t, part)'
               /\ Holds(T, q)'
    <2>1. T \in Tables /\ Key(T, q) \in Keys
      BY <1>1, RowSize
    <2>2. ptr'[Key(T, q)] = "ok" /\ content'[Key(T, q)] = Content(q)
      BY <1>1, <2>1, InsertContent, Zenon
    <2>3. Holds(T, q)'
      BY <1>1, <2>2 DEF Holds, Key, Content
    <2>4. ASSUME NEW t \in Tables, NEW part \in Parts, Distinguished(t), Holds(t, part)
          PROVE  Holds(t, part)'
      <3>1. CASE Key(t, part) = Key(T, q)
        BY <2>1, <2>3, <2>4, <3>1, KeyDistinct, Zenon
      <3>2. CASE Key(t, part) # Key(T, q)
        <4>1. /\ ptr'[Key(t, part)] = ptr[Key(t, part)]
              /\ content'[Key(t, part)] = content[Key(t, part)]
          BY <1>1, <2>1, <2>4, <3>2, KeyInKeys, InsertContent, Zenon
        <4>2. QED
          BY <1>1, <2>4, <4>1, Zenon DEF Holds, Key
      <3>3. QED
        BY <3>1, <3>2
    <2>5. QED
      BY <2>3, <2>4
  <1>2. CASE InsertVal
    <2>1. call' = [call EXCEPT !.pc = "bias"]
      BY <1>2 DEF InsertVal
    <2>2. /\ call'.snap = call.snap /\ call'.loaded = call.loaded
          /\ call'.todo = call.todo /\ call'.pc = "bias"
      BY <2>1 DEF TypeInv, TypeOK
    <2>3. InsertSucceeds(Key(Table, "val"), Content("val"), Row.val) /\ call.pc = "val"
      BY <1>2 DEF InsertVal
    <2>4. /\ \A t \in Tables : \A part \in Parts :
               Distinguished(t) /\ Holds(t, part) => Holds(t, part)'
          /\ \A T : T = Table => Holds(T, "val")'
      BY <1>1, <2>2, <2>3 DEF Parts
    <2>5. call.loaded \subseteq Tables
      BY DEF TypeInv, TypeOK
    <2>6. QED
      BY <2>2, <2>3, <2>4, <2>5 DEF SnapInv, Table
  <1>3. CASE InsertBias
    <2>1. call' = [call EXCEPT !.pc = "read", !.todo = Tail(@),
                               !.loaded = @ \cup {Table}]
      BY <1>3 DEF InsertBias
    <2>2. /\ call'.snap = call.snap /\ call'.loaded = call.loaded \cup {Table}
          /\ call'.pc = "read"
      BY <2>1 DEF TypeInv, TypeOK
    <2>3. /\ InsertSucceeds(Key(Table, "bias"), Content("bias"), Row.bias)
          /\ call.pc = "bias"
      BY <1>3 DEF InsertBias
    <2>4. /\ \A t \in Tables : \A part \in Parts :
               Distinguished(t) /\ Holds(t, part) => Holds(t, part)'
          /\ \A T : T = Table => Holds(T, "bias")'
      BY <1>1, <2>2, <2>3 DEF Parts
    <2>5. call.loaded \subseteq Tables /\ Table \in Tables
      BY <2>3, RowSize, SMTT(30) DEF TypeInv, TypeOK, Parts
    <2>6. QED
      BY <2>2, <2>3, <2>4, <2>5 DEF SnapInv, Parts
  <1>4. CASE UNCHANGED pool /\ call'.snap = call.snap
             /\ call'.loaded = call.loaded /\ call'.pc # "bias"
             /\ call.pc \in {"read", "val", "bias", "done"}
    BY <1>4 DEF SnapInv, Holds, pool, Key
  <1>5. CASE call'.pc \in {"read", "failed", "idle"} /\ call'.loaded = {}
    BY <1>5, SMTT(30) DEF SnapInv
  <1>6. CASE UNCHANGED <<pool, call>>
    BY <1>6, Zenon DEF SnapInv, Holds, pool, Key, Table
  <1>7. ASSUME NEW arg \in Arguments, CallLoadModel(arg) PROVE SnapInv'
    BY <1>5, <1>7 DEF CallLoadModel
  <1>8. CASE SkipNull \/ ReadRow \/ LoadDone
    BY <1>4, <1>8, Zenon DEF SkipNull, ReadRow, LoadDone, TypeInv, TypeOK
  <1>9. CASE ReadFails \/ Reconnect
             \/ \E part \in Parts : InsertError(part) \/ Undefined(part)
    BY <1>5, <1>9, SMTT(30) DEF ReadFails, Reconnect, InsertError, Undefined, NoCall
  <1>10. QED
    BY <1>2, <1>3, <1>6, <1>7, <1>8, <1>9 DEF Next, LoadModel, UpdateTable, vars, pool

\* A load_model call that returns leaves both weights of all its tables at the
\* snapshot of its statement.
THEOREM LoadIsAtomicWhenItReturns == Spec => []LoadedIsSnapshot
  <1>1. Init => SnapInv
    BY DEF Init, SnapInv, NoCall
  <1>2. SnapInv => LoadedIsSnapshot
    BY DEF SnapInv, LoadedIsSnapshot, Holds
  <1>3. QED
    BY <1>1, <1>2, SnapStep, TypeCorrect, PTL DEF Spec
-----------------------------------------------------------------------------
(* The two weights of a table *)

\* A lookup of both weights of t finds them, and in two versions.
Mixed(t) ==
  /\ Distinguished(t)
  /\ \A part \in Parts : ptr[Key(t, part)] = "ok"
  /\ content[Key(t, "val")].ver # content[Key(t, "bias")].ver

\* MixedPairNeedsFailedLoad is not inductive: the table a call is between the
\* two inserts of is the other one that may be mixed.
PairInv ==
  \A t \in Tables : Mixed(t) => t \in failedAt \/ (call.pc = "bias" /\ Table = t)

\* Whether t is mixed depends on nothing but its own two entries.
LEMMA MixedDepends ==
  ASSUME NEW t \in Tables, Mixed(t)',
         \A part \in Parts : /\ ptr'[Key(t, part)] = ptr[Key(t, part)]
                             /\ content'[Key(t, part)] = content[Key(t, part)]
  PROVE  Mixed(t)
  BY Zenon DEF Mixed, Parts, Key, Distinguished

\* An insert for another table does not touch the entries of t.
LEMMA OtherTable ==
  ASSUME TypeInv, NEW q \in Parts, call.pc = q, NEW c, NEW n,
         InsertSucceeds(Key(Table, q), c, n) \/ InsertBreaks(Key(Table, q), n),
         NEW t \in Tables, Mixed(t)', t # Table
  PROVE  Mixed(t)
  <1>1. Table \in Tables /\ Key(Table, q) \in Keys
    BY RowSize
  <1>2. Distinguished(t)
    BY DEF Mixed, Distinguished
  <1>3. ASSUME NEW part \in Parts
        PROVE  Key(t, part) \in Keys \ {Key(Table, q)}
    BY <1>1, <1>2, KeyDistinct, KeyInKeys, Zenon
  <1>4. \A part \in Parts : /\ ptr'[Key(t, part)] = ptr[Key(t, part)]
                            /\ content'[Key(t, part)] = content[Key(t, part)]
    BY <1>1, <1>3, InsertContent, Zenon
  <1>5. QED
    BY <1>4, MixedDepends, Zenon

\* Every step keeps PairInv.  That a completed load leaves no mixed pair needs
\* SnapInv: the kernel of the same snapshot is in place when the bias comes.
LEMMA PairStep == TypeInv /\ SnapInv /\ PairInv /\ [Next]_vars => PairInv'
  <1> SUFFICES ASSUME TypeInv, SnapInv, PairInv, [Next]_vars,
                      NEW t \in Tables, Mixed(t)'
               PROVE  t \in failedAt' \/ (call'.pc = "bias" /\ Table' = t)
    BY Zenon DEF PairInv
  <1>1. CASE UNCHANGED pool /\ ~InsertVal /\ ~InsertBias /\ ~Reconnect
    <2>1. Mixed(t)
      BY <1>1, Zenon DEF Mixed, pool, Key, Distinguished
    <2>2. t \in failedAt \/ (call.pc = "bias" /\ Table = t)
      BY <2>1 DEF PairInv
    <2>3. ASSUME NEW part \in Parts, InsertError(part)
          PROVE  t \in failedAt'
      BY <2>2, <2>3, Zenon DEF InsertError
    <2>4. ASSUME NEW part \in Parts, Undefined(part)
          PROVE  t \in failedAt'
      <3>1. part = "bias" /\ Table = t => ptr[Key(t, "bias")] # "ok"
        BY <2>4 DEF Undefined, InsertUndefined
      <3>2. ptr[Key(t, "bias")] = "ok"
        BY <2>1 DEF Mixed, Parts
      <3>3. QED
        BY <2>2, <2>4, <3>1, <3>2, Zenon DEF Undefined
    <2>5. CASE UNCHANGED failedAt /\ call.pc # "bias"
      BY <2>2, <2>5
    <2>6. CASE UNCHANGED <<failedAt, call>>
      BY <2>2, <2>6 DEF Table
    <2>7. CASE SkipNull \/ ReadRow \/ ReadFails \/ LoadDone
      BY <2>5, <2>7 DEF SkipNull, ReadRow, ReadFails, LoadDone
    <2>8. CASE \E arg \in Arguments : CallLoadModel(arg)
      BY <2>5, <2>8 DEF CallLoadModel, AtRest
    <2>9. CASE (\E u \in Tables : UpdateTable(u)) \/ UNCHANGED vars
      BY <2>6, <2>9 DEF UpdateTable, vars
    <2>10. QED
      BY <1>1, <2>3, <2>4, <2>7, <2>8, <2>9, Zenon DEF Next, LoadModel
  <1>2. CASE InsertVal
    <2>1. call' = [call EXCEPT !.pc = "bias"] /\ failedAt' = failedAt /\ call.pc = "val"
      BY <1>2 DEF InsertVal
    <2>2. call'.pc = "bias" /\ Table' = Table
      BY <2>1 DEF TypeInv, TypeOK, Table
    <2>3. CASE t # Table
      <3>1. Mixed(t)
        BY <1>2, <2>1, <2>3, OtherTable, Zenon DEF InsertVal, Parts
      <3>2. QED
        BY <2>1, <3>1 DEF PairInv
    <2>4. QED
      BY <2>2, <2>3
  <1>3. CASE InsertBias
    <2>1. failedAt' = failedAt \ {Table} /\ call.pc = "bias"
      BY <1>3 DEF InsertBias
    <2>2. CASE t # Table
      <3>1. Mixed(t)
        BY <1>3, <2>1, <2>2, OtherTable, Zenon DEF InsertBias, Parts
      <3>2. QED
        BY <2>1, <2>2, <3>1 DEF PairInv
    <2>3. CASE t = Table
      <3>1. Distinguished(t)
        BY DEF Mixed, Distinguished
      <3>2. Holds(t, "val")
        BY <2>1, <2>3, <3>1 DEF SnapInv
      <3>3. Key(t, "val") \in Keys /\ Key(t, "bias") \in Keys
        BY KeyInKeys DEF Parts
      <3>4. Key(t, "val") # Key(t, "bias")
        BY <3>1, KeyDistinct, "val" # "bias", Zenon DEF Parts
      <3>5. InsertSucceeds(Key(t, "bias"), Content("bias"), Row.bias)
        BY <1>3, <2>3 DEF InsertBias
      <3>6. /\ content'[Key(t, "bias")] = Content("bias")
            /\ content'[Key(t, "val")] = content[Key(t, "val")]
        BY <3>3, <3>4, <3>5, InsertContent, Zenon
      <3>7. content'[Key(t, "val")].ver = content'[Key(t, "bias")].ver
        BY <2>3, <3>2, <3>6 DEF Holds, Content
      <3>8. QED
        BY <3>7, Zenon DEF Mixed, Key
    <2>4. QED
      BY <2>2, <2>3
  <1>4. ASSUME NEW part \in Parts, InsertError(part),
               InsertBreaks(Key(Table, part), Row[part])
        PROVE  t \in failedAt'
    <2>1. call.pc = part
      BY <1>4 DEF InsertError
    <2>2. t # Table
      <3>1. Key(Table, part) \in Keys
        BY <2>1, RowSize
      <3>2. ptr'[Key(Table, part)] # "ok"
        BY <1>4, <3>1, InsertContent, Zenon
      <3>3. ptr'[Key(t, part)] = "ok"
        BY Zenon DEF Mixed, Key
      <3>4. QED
        BY <3>2, <3>3
    <2>3. Mixed(t)
      BY <1>4, <2>1, <2>2, OtherTable, Zenon
    <2>4. t \in failedAt
      BY <2>2, <2>3 DEF PairInv
    <2>5. QED
      BY <1>4, <2>4, Zenon DEF InsertError
  <1>5. CASE Reconnect
    <2>1. ptr'[Key(t, "val")] = "absent"
      BY <1>5, KeyInKeys DEF Reconnect, NoEntry, Parts
    <2>2. ptr'[Key(t, "val")] = "ok"
      BY Zenon DEF Mixed, Key, Parts
    <2>3. QED
      BY <2>1, <2>2
  <1>6. QED
    BY <1>1, <1>2, <1>3, <1>4, <1>5
       DEF Next, LoadModel, CallLoadModel, SkipNull, ReadRow, ReadFails, LoadDone,
           InsertError, InsertRefused, Undefined, UpdateTable, vars, pool

\* Between load_model calls a kernel and a bias of different versions of one
\* table are found together only after a load of that table broke off between
\* its two inserts, and until it is loaded again.
THEOREM MixedPairsComeFromFailures == Spec => []MixedPairNeedsFailedLoad
  <1>1. Init => SnapInv /\ PairInv
    <2>1. Init => SnapInv
      BY DEF Init, SnapInv, NoCall
    <2>2. Init => \A k \in Keys : ptr[k] = "absent"
      BY DEF Init, NoEntry
    <2>3. Init => PairInv
      BY <2>2, KeyInKeys DEF PairInv, Mixed, Parts
    <2>4. QED
      BY <2>1, <2>3
  <1>2. PairInv => MixedPairNeedsFailedLoad
    BY DEF PairInv, MixedPairNeedsFailedLoad, Mixed, AtRest
  <1>3. QED
    BY <1>1, <1>2, SnapStep, PairStep, TypeCorrect, PTL DEF Spec

----------------------------------------------------------------------------
(* Windows: arithmetic *)

\* Every set of natural numbers that is not empty has a least element.
LEMMA Least ==
  ASSUME NEW S, S \subseteq Nat, S # {}
  PROVE  \E n \in S : \A m \in S : n <= m
  <1>1. PICK n \in S : \A m \in S : ~ (<<m, n>> \in OpToRel(<, Nat))
    BY NatLessThanWellFounded, WFMin, Zenon
  <1>2. \A m \in S : n \in Nat /\ m \in Nat /\ ~ (m < n)
    BY <1>1, Zenon DEF OpToRel
  <1> QED BY <1>2

\* Multiplication by a natural number keeps the order.
LEMMA Monotone ==
  ASSUME NEW k \in Nat, NEW a \in Int, NEW b \in Int, a <= b
  PROVE  k * a <= k * b /\ k * a \in Int /\ k * b \in Int
  OBVIOUS

\* Quotient and remainder are determined by the number.
LEMMA Quotient ==
  ASSUME NEW n \in Nat \ {0}, NEW q \in Int, NEW r \in 0 .. n - 1
  PROVE  (q * n + r) \div n = q /\ (q * n + r) % n = r
  OBVIOUS

\* A number has a quotient and a remainder.
LEMMA Divided ==
  ASSUME NEW n \in Nat \ {0}, NEW a \in Int
  PROVE  a \div n \in Int /\ a % n \in 0 .. n - 1 /\ a = (a \div n) * n + (a % n)
  OBVIOUS

\* A position in c blocks of n is in one of the blocks.
LEMMA Block ==
  ASSUME NEW n \in Nat \ {0}, NEW c \in Nat, NEW a \in 0 .. c * n - 1
  PROVE  a \div n \in 0 .. c - 1
  OBVIOUS

\* A position in one of c blocks of n is a position in all of them.
LEMMA InBlocks ==
  ASSUME NEW n \in Nat, NEW c \in Nat, NEW q \in 0 .. c - 1, NEW r \in 0 .. n - 1
  PROVE  q * n + r \in 0 .. c * n - 1
  OBVIOUS

\* sqrt has the value that Root describes: the least r with n < (r + 1)^2.
LEMMA RootBounds ==
  ASSUME NEW n \in Nat
  PROVE  Root(n) \in Nat /\ Root(n) * Root(n) <= n
  <1> DEFINE S == {r \in Nat : n < (r + 1) * (r + 1)}
  <1>1. n \in S
    <2>1. (n + 1) * (n + 1) = n * n + n + n + 1 /\ n * n \in Nat
      OBVIOUS
    <2> QED BY <2>1
  <1>2. PICK r \in S : \A m \in S : r <= m
    <2>1. S \subseteq Nat
      OBVIOUS
    <2> HIDE DEF S
    <2> QED BY <1>1, <2>1, Least, Zenon
  <1>3. r * r <= n
    <2>1. CASE r = 0
      BY <2>1
    <2>2. CASE r # 0
      <3>1. r - 1 \in Nat
        BY <2>2
      <3>2. r - 1 \notin S
        BY <1>2, <3>1
      <3>3. ~ (n < (r - 1 + 1) * (r - 1 + 1))
        BY <3>1, <3>2
      <3>4. r - 1 + 1 = r
        OBVIOUS
      <3> QED BY <3>3, <3>4
    <2> QED BY <2>1, <2>2
  <1>4. r <= n
    BY <1>1, <1>2
  <1>5. \E q \in 0 .. n : q * q <= n /\ n < (q + 1) * (q + 1)
    BY <1>3, <1>4
  <1>6. Root(n) \in 0 .. n /\ Root(n) * Root(n) <= n
    BY <1>5, Zenon DEF Root
  <1> QED BY <1>6

----------------------------------------------------------------------------
(* The geometry *)

\* The numbers of a call.
LEMMA GeoType ==
  ASSUME NEW g \in Geometries
  PROVE  /\ g.loop \in Loops
         /\ g.h \in Nat \ {0} /\ g.w \in Nat \ {0} /\ g.c \in Nat \ {0}
         /\ g.kh \in Nat \ {0} /\ g.kw \in Nat \ {0} /\ g.s \in Nat \ {0}
         /\ g.ph \in Nat /\ g.pw \in Nat
  BY GeometryAssumption

\* The sides that are computed are those of an image no larger than the one given.
LEMMA SidesWithin ==
  ASSUME NEW g \in Geometries
  PROVE  /\ Height(g) \in Nat /\ Width(g) \in Nat
         /\ Height(g) * Width(g) <= g.h * g.w /\ g.h * g.w \in Nat
  <1>1. g.h * g.w \in Nat
    BY GeoType
  <1>2. Root(g.h * g.w) \in Nat /\ Root(g.h * g.w) * Root(g.h * g.w) <= g.h * g.w
    BY <1>1, RootBounds
  <1> QED BY <1>1, <1>2, GeoType DEF Height, Width

\* The spans and paddings of the loops.
LEMMA LoopType ==
  ASSUME NEW g \in Geometries
  PROVE  /\ PadH(g) \in Nat /\ PadW(g) \in Nat
         /\ SpanH(g) \in Nat \ {0} /\ SpanW(g) \in Nat \ {0}
         /\ SpanH(g) * SpanW(g) \in Nat \ {0}
         /\ WindowLen(g) = g.c * (SpanH(g) * SpanW(g))
         /\ WindowLen(g) \in Nat \ {0}
  <1>1. /\ PadH(g) \in Nat /\ PadW(g) \in Nat
        /\ SpanH(g) \in Nat \ {0} /\ SpanW(g) \in Nat \ {0}
    BY GeoType DEF PadH, PadW, SpanH, SpanW
  <1>2. SpanH(g) * SpanW(g) \in Nat \ {0}
    BY <1>1
  <1>3. g.c \in Nat \ {0}
    BY GeoType
  <1>4. WindowLen(g) = g.c * (SpanH(g) * SpanW(g))
    BY <1>1, <1>3 DEF WindowLen
  <1>5. g.c * (SpanH(g) * SpanW(g)) \in Nat \ {0}
    BY <1>2, <1>3
  <1> QED BY <1>1, <1>2, <1>4, <1>5

\* A position inside the computed sides is a position of the image.
LEMMA AtWithin ==
  ASSUME NEW g \in Geometries, NEW c \in 0 .. g.c - 1, NEW y, NEW x, Inside(g, y, x)
  PROVE  At(g, c, y, x) \in 0 .. (g.c * g.h * g.w - 1)
  <1> DEFINE H == Height(g)
             W == Width(g)
             P == g.h * g.w
             area == IF g.loop = "avgpool" THEN H * W ELSE P
  <1>1. H \in Nat /\ W \in Nat /\ P \in Nat /\ H * W <= P
    BY SidesWithin
  <1>2. y \in 0 .. H - 1 /\ x \in 0 .. W - 1
    BY DEF Inside
  <1>3. y * W + x \in 0 .. H * W - 1
    BY <1>1, <1>2, InBlocks
  <1>4. H * W \in Nat
    BY <1>1
  <1>5. area \in Nat /\ area <= P /\ H * W <= area
    BY <1>1, <1>4
  <1>6. At(g, c, y, x) = c * area + (y * W + x)
    <2>1. At(g, c, y, x) = c * area + y * W + x
      BY DEF At
    <2>2. c * area \in Int /\ y * W \in Int /\ x \in Int
      BY <1>1, <1>2, <1>5, GeoType
    <2> QED BY <2>1, <2>2
  <1>7. g.c \in Nat /\ g.c * g.h * g.w = g.c * P
    BY GeoType
  <1> HIDE DEF H, W, P, area
  <1>8. y * W + x \in 0 .. area - 1
    BY <1>3, <1>4, <1>5
  <1>9. c * area + (y * W + x) \in 0 .. g.c * area - 1
    BY <1>5, <1>7, <1>8, InBlocks
  <1>10. g.c * area <= g.c * P /\ g.c * area \in Int /\ g.c * P \in Int
    BY <1>1, <1>5, <1>7, Monotone
  <1> QED BY <1>6, <1>7, <1>9, <1>10

\* The k-th position of a window.
LEMMA StartOf ==
  ASSUME NEW size \in Nat, NEW pad \in Nat, NEW span \in Nat \ {0},
         NEW stride \in Nat \ {0}, span <= size + 2 * pad,
         NEW k \in 0 .. Out(size, pad, span, stride) - 1
  PROVE  k * stride - pad \in Starts(size, pad, span, stride)
  <1> DEFINE room == size + 2 * pad - span
  <1>1. room \in Nat
    OBVIOUS
  <1>2. k \in Nat /\ k <= room \div stride
    BY <1>1 DEF Out
  <1>3. room \div stride \in Int /\ (room \div stride) * stride <= room
    BY <1>1, Divided
  <1>4. stride * k <= stride * (room \div stride)
    BY <1>2, <1>3, Monotone
  <1>5. k * stride \in Nat /\ k * stride <= room
    BY <1>2, <1>3, <1>4
  <1>6. (k * stride + 0) % stride = 0
    <2>1. k \in Int /\ 0 \in 0 .. stride - 1
      BY <1>2
    <2> QED BY <2>1, Quotient, Zenon
  <1>7. k * stride - pad + pad = k * stride + 0
    BY <1>5
  <1>8. k * stride - pad \in -pad .. (size + pad - span)
    BY <1>5
  <1> QED BY <1>6, <1>7, <1>8 DEF Starts

\* The index of a position.
LEMMA IndexOf ==
  ASSUME NEW size \in Nat, NEW pad \in Nat, NEW span \in Nat \ {0},
         NEW stride \in Nat \ {0},
         NEW x \in Starts(size, pad, span, stride)
  PROVE  /\ x \in Int
         /\ (x + pad) \div stride \in 0 .. Out(size, pad, span, stride) - 1
         /\ x = ((x + pad) \div stride) * stride - pad
  <1> DEFINE room == size + 2 * pad - span
             q == (x + pad) \div stride
  <1>1. x \in Int /\ x + pad \in 0 .. room /\ (x + pad) % stride = 0
    BY DEF Starts
  <1>2. room \in Nat
    BY <1>1
  <1>3. q \in Int /\ x + pad = q * stride
    <2>1. x + pad \in Int
      BY <1>1
    <2>2. q \in Int /\ x + pad = q * stride + ((x + pad) % stride)
      BY <2>1, Divided, Zenon
    <2> QED BY <1>1, <2>2
  <1>4. room \div stride \in Int /\ room % stride \in 0 .. stride - 1
        /\ room = (room \div stride) * stride + (room % stride)
    <2>1. room \in Int
      BY <1>2
    <2> QED BY <2>1, Divided, Zenon
  <1>5. q <= room \div stride
    <2>1. SUFFICES ASSUME q >= room \div stride + 1 PROVE FALSE
      BY <1>3, <1>4
    <2>2. stride * (room \div stride + 1) <= stride * q
      BY <1>3, <1>4, <2>1, Monotone
    <2> QED BY <1>1, <1>2, <1>3, <1>4, <2>2
  <1>6. q >= 0
    <2>1. SUFFICES ASSUME q <= -1 PROVE FALSE
      BY <1>3
    <2>2. stride * q <= stride * (-1)
      BY <1>3, <2>1, Monotone
    <2> QED BY <1>1, <1>3, <2>2
  <1> QED BY <1>1, <1>3, <1>4, <1>5, <1>6 DEF Out

\* There are as many positions as Out says.
LEMMA StartsCount ==
  ASSUME NEW size \in Nat, NEW pad \in Nat, NEW span \in Nat \ {0},
         NEW stride \in Nat \ {0}, span <= size + 2 * pad
  PROVE  /\ Cardinality(Starts(size, pad, span, stride)) = Out(size, pad, span, stride)
         /\ Out(size, pad, span, stride) \in Nat \ {0}
  <1> DEFINE n == Out(size, pad, span, stride)
             S == Starts(size, pad, span, stride)
             f == [k \in 0 .. n - 1 |-> k * stride - pad]
  <1>1. n \in Nat \ {0}
    BY Divided DEF Out
  <1>2. \A k \in 0 .. n - 1 : k * stride - pad \in S
    BY StartOf
  <1>3. \A x \in S : /\ (x + pad) \div stride \in 0 .. n - 1
                     /\ x = ((x + pad) \div stride) * stride - pad
    BY IndexOf
  <1>4. ASSUME NEW j \in 0 .. n - 1, NEW k \in 0 .. n - 1, f[j] = f[k]
        PROVE  j = k
    <2>1. j \in Int /\ k \in Int /\ j * stride + 0 = k * stride + 0
      BY <1>1, <1>4
    <2> QED BY <2>1, Quotient
  <1> HIDE DEF n, S
  <1>5. f \in [0 .. n - 1 -> S]
    BY <1>2
  <1>6. \A x \in S : \E k \in 0 .. n - 1 : f[k] = x
    BY <1>3
  <1> HIDE DEF f
  <1>7. f \in Bijection(0 .. n - 1, S)
    BY <1>4, <1>5, <1>6 DEF Bijection, Injection, Surjection, IsInjective
  <1>8. IsFiniteSet(0 .. n - 1) /\ Cardinality(0 .. n - 1) = n
    BY <1>1, FS_Interval
  <1>9. ExistsBijection(0 .. n - 1, S)
    BY <1>7 DEF ExistsBijection
  <1>10. Cardinality(S) = n
    BY <1>8, <1>9, FS_Bijection
  <1> QED BY <1>1, <1>10 DEF n, S

\* The rows and columns of windows in a loop that has its padding and its span.
LEMMA StartsOfLoop ==
  ASSUME NEW g \in Geometries
  PROVE  /\ OutHeight(g) \in Nat \ {0} /\ OutWidth(g) \in Nat \ {0}
         /\ SpanH(g) = g.kh /\ PadH(g) = g.ph => Cardinality(RowStarts(g)) = OutHeight(g)
         /\ SpanW(g) = g.kw /\ PadW(g) = g.pw => Cardinality(ColStarts(g)) = OutWidth(g)
  <1>1. /\ Height(g) \in Nat /\ g.ph \in Nat /\ g.kh \in Nat \ {0} /\ g.s \in Nat \ {0}
        /\ g.kh <= Height(g) + 2 * g.ph
    BY GeoType, SidesWithin, GeometryAssumption
  <1>2. /\ Width(g) \in Nat /\ g.pw \in Nat /\ g.kw \in Nat \ {0}
        /\ g.kw <= Width(g) + 2 * g.pw
    BY GeoType, SidesWithin, GeometryAssumption
  <1>3. /\ Cardinality(Starts(Height(g), g.ph, g.kh, g.s)) = OutHeight(g)
        /\ OutHeight(g) \in Nat \ {0}
    BY <1>1, StartsCount, Zenon DEF OutHeight
  <1>4. /\ Cardinality(Starts(Width(g), g.pw, g.kw, g.s)) = OutWidth(g)
        /\ OutWidth(g) \in Nat \ {0}
    BY <1>1, <1>2, StartsCount, Zenon DEF OutWidth
  <1> QED BY <1>3, <1>4, Zenon DEF RowStarts, ColStarts

\* A pooling has the padding and the span of its call.
LEMMA PoolingShape ==
  ASSUME NEW g \in Geometries, g.loop \in Poolings
  PROVE  /\ SpanH(g) = g.kh /\ PadH(g) = g.ph /\ SpanW(g) = g.kw /\ PadW(g) = g.pw
         /\ Pitch(g) = OutWidth(g)
         /\ Steps(g) = OutHeight(g) * OutWidth(g)
         /\ Allocated(g) = OutWidth(g) * OutHeight(g)
  <1>1. SpanH(g) = g.kh /\ PadH(g) = g.ph /\ SpanW(g) = g.kw /\ PadW(g) = g.pw
    BY DEF SpanH, PadH, SpanW, PadW, Poolings
  <1>2. Pitch(g) = OutWidth(g)
    BY <1>1, StartsOfLoop DEF Pitch, Poolings
  <1>3. Steps(g) = OutHeight(g) * OutWidth(g)
    BY <1>1, <1>2, StartsOfLoop DEF Steps
  <1>4. Allocated(g) = OutWidth(g) * OutHeight(g)
    BY DEF Allocated, Poolings
  <1> QED BY <1>1, <1>2, <1>3, <1>4

\* An iteration writes at least one element.
LEMMA StepsPositive ==
  ASSUME NEW g \in Geometries
  PROVE  Steps(g) \in Nat \ {0}
  <1>1. CASE g.loop \in Poolings
    <2>1. OutHeight(g) \in Nat \ {0} /\ OutWidth(g) \in Nat \ {0}
      BY StartsOfLoop
    <2>2. OutHeight(g) * OutWidth(g) \in Nat \ {0}
      BY <2>1
    <2> QED BY <1>1, <2>2, PoolingShape
  <1>2. CASE g.loop \notin Poolings
    BY <1>2, LoopType DEF Steps
  <1> QED BY <1>1, <1>2

\* What an iteration reads is in the image.
LEMMA ValueWithin ==
  ASSUME NEW g \in Geometries, NEW i \in Iterations(g), NEW off \in 0 .. (Steps(g) - 1)
  PROVE  Value(g, i, off) \subseteq 0 .. (g.c * g.h * g.w - 1)
  <1>1. CASE g.loop \in Poolings
    <2>1. i \in 0 .. (g.c - 1)
      BY <1>1 DEF Iterations
    <2>2. ASSUME NEW rn, NEW cn, NEW v \in Pooled(g, i, rn, cn)
          PROVE  v \in 0 .. (g.c * g.h * g.w - 1)
      BY <2>1, AtWithin DEF Pooled
    <2> QED BY <1>1, <2>2 DEF Value
  <1>2. CASE g.loop \notin Poolings
    <2> DEFINE area == SpanH(g) * SpanW(g)
               c == off \div area
    <2>1. area \in Nat \ {0} /\ g.c \in Nat /\ Steps(g) = g.c * area
      BY <1>2, LoopType, GeoType DEF Steps
    <2>2. c \in 0 .. g.c - 1
      BY <2>1, Block, Zenon
    <2>3. ASSUME NEW v \in Copied(g, i[1], i[2], off)
          PROVE  v \in 0 .. (g.c * g.h * g.w - 1)
      BY <2>2, AtWithin DEF Copied
    <2> QED BY <1>2, <2>3 DEF Value
  <1> QED BY <1>1, <1>2

----------------------------------------------------------------------------
(* Calls that fit *)

\* The rows of windows.
RightHeight(g) == Out(g.h, g.ph, g.kh, g.s)

\* In a call that fits, the loop has the sides, the padding and the kernel of
\* the call; and if its rows are not as long as they should be, there is one.
LEMMA FitsShape ==
  ASSUME NEW g \in Geometries, Fits(g)
  PROVE  /\ Height(g) = g.h /\ Width(g) = g.w
         /\ PadH(g) = g.ph /\ PadW(g) = g.pw
         /\ SpanH(g) = g.kh /\ SpanW(g) = g.kw
         /\ OutHeight(g) = RightHeight(g) /\ OutWidth(g) = RightWidth(g)
         /\ RightHeight(g) \in Nat \ {0} /\ RightWidth(g) \in Nat \ {0}
         /\ Pitch(g) = RightWidth(g) \/ (Pitch(g) \in Nat /\ RightHeight(g) = 1)
  <1>1. Height(g) = g.h /\ Width(g) = g.w
    BY DEF Fits, Square
  <1>2. PadH(g) = g.ph /\ PadW(g) = g.pw /\ SpanH(g) = g.kh /\ SpanW(g) = g.kw
    <2>1. CASE g.loop = "ns_W"
      BY <2>1, GeometryAssumption DEF Fits, PadH, PadW, SpanH, SpanW
    <2>2. CASE g.loop = "ns_H"
      BY <2>2 DEF Fits, PadH, PadW, SpanH, SpanW
    <2>3. CASE g.loop = "conv_text"
      BY <2>3 DEF Fits, PadH, PadW, SpanH, SpanW
    <2>4. CASE g.loop \notin {"ns_W", "ns_H", "conv_text"}
      BY <2>4 DEF PadH, PadW, SpanH, SpanW
    <2> QED BY <2>1, <2>2, <2>3, <2>4
  <1>3. OutHeight(g) = RightHeight(g) /\ OutWidth(g) = RightWidth(g)
    BY <1>1, Zenon DEF OutHeight, OutWidth, RightHeight, RightWidth
  <1>4. OutHeight(g) \in Nat \ {0} /\ OutWidth(g) \in Nat \ {0}
    BY StartsOfLoop
  <1>5. Pitch(g) = OutWidth(g) \/ (Pitch(g) \in Nat /\ OutHeight(g) = 1)
    <2>1. CASE g.loop = "ns_H"
      <3>1. OutHeight(g) = OutWidth(g) \/ OutHeight(g) = 1
        BY <2>1 DEF Fits
      <3>2. Pitch(g) = OutHeight(g)
        BY <2>1 DEF Pitch, Poolings
      <3> QED BY <1>4, <3>1, <3>2
    <2>2. CASE g.loop \in {"im2col"} \cup Poolings
      BY <1>2, <2>2, StartsOfLoop DEF Pitch, Poolings
    <2>3. CASE g.loop \notin {"ns_H", "im2col"} \cup Poolings
      BY <2>3 DEF Pitch
    <2> QED BY <2>1, <2>2, <2>3
  <1> QED BY <1>1, <1>2, <1>3, <1>4, <1>5

\* The index of a window is its row and its column.
LEMMA WindowIndex ==
  ASSUME NEW g \in Geometries, Fits(g), g.loop \notin Poolings,
         NEW i \in Iterations(g)
  PROVE  \E r \in 0 .. RightHeight(g) - 1, q \in 0 .. RightWidth(g) - 1 :
           /\ i = <<r * g.s - g.ph, q * g.s - g.pw>>
           /\ r = (i[1] + g.ph) \div g.s /\ q = (i[2] + g.pw) \div g.s
  <1>1. PICK rn \in RowStarts(g), cn \in ColStarts(g) : i = <<rn, cn>>
    BY DEF Iterations
  <1>2. /\ rn \in Starts(g.h, g.ph, g.kh, g.s)
        /\ cn \in Starts(g.w, g.pw, g.kw, g.s)
    BY FitsShape, Zenon DEF RowStarts, ColStarts
  <1>3. /\ (rn + g.ph) \div g.s \in 0 .. RightHeight(g) - 1
        /\ rn = ((rn + g.ph) \div g.s) * g.s - g.ph
    BY <1>2, GeoType, IndexOf DEF RightHeight
  <1>4. /\ (cn + g.pw) \div g.s \in 0 .. RightWidth(g) - 1
        /\ cn = ((cn + g.pw) \div g.s) * g.s - g.pw
    BY <1>2, GeoType, IndexOf DEF RightWidth
  <1> QED BY <1>1, <1>3, <1>4

\* Every row and column has a window.
LEMMA WindowAt ==
  ASSUME NEW g \in Geometries, Fits(g), g.loop \notin Poolings,
         NEW r \in 0 .. RightHeight(g) - 1, NEW q \in 0 .. RightWidth(g) - 1
  PROVE  <<r * g.s - g.ph, q * g.s - g.pw>> \in Iterations(g)
  <1>1. /\ g.h \in Nat /\ g.ph \in Nat /\ g.kh \in Nat \ {0} /\ g.s \in Nat \ {0}
        /\ g.w \in Nat /\ g.pw \in Nat /\ g.kw \in Nat \ {0}
    BY GeoType
  <1>2. g.kh <= g.h + 2 * g.ph /\ g.kw <= g.w + 2 * g.pw
    BY FitsShape, GeometryAssumption
  <1>3. r * g.s - g.ph \in Starts(g.h, g.ph, g.kh, g.s)
    BY <1>1, <1>2, StartOf, Zenon DEF RightHeight
  <1>4. q * g.s - g.pw \in Starts(g.w, g.pw, g.kw, g.s)
    BY <1>1, <1>2, StartOf, Zenon DEF RightWidth
  <1>5. r * g.s - g.ph \in RowStarts(g) /\ q * g.s - g.pw \in ColStarts(g)
    BY <1>3, <1>4, FitsShape, Zenon DEF RowStarts, ColStarts
  <1> QED BY <1>5 DEF Iterations

\* The length of a window is that of the kernel.
LEMMA FitsKernel ==
  ASSUME NEW g \in Geometries, Fits(g)
  PROVE  /\ Kernel(g) \in Nat \ {0} /\ WindowLen(g) = Kernel(g)
         /\ Windows(g) \in Nat \ {0} /\ Windows(g) = RightHeight(g) * RightWidth(g)
         /\ g.loop \notin Poolings => Steps(g) = Kernel(g)
         /\ g.loop \in Poolings => Steps(g) = Windows(g) /\ Allocated(g) = Windows(g)
  <1>1. WindowLen(g) = Kernel(g)
    BY FitsShape DEF WindowLen, Kernel
  <1>2. WindowLen(g) \in Nat \ {0}
    BY LoopType
  <1>3. RightHeight(g) \in Nat \ {0} /\ RightWidth(g) \in Nat \ {0}
    BY FitsShape
  <1>4. Windows(g) = RightWidth(g) * RightHeight(g)
    BY DEF Windows, RightHeight
  <1>5. Windows(g) \in Nat \ {0} /\ Windows(g) = RightHeight(g) * RightWidth(g)
    BY <1>3, <1>4
  <1>6. g.loop \notin Poolings => Steps(g) = WindowLen(g)
    BY DEF Steps
  <1>7. g.loop \in Poolings => Steps(g) = Windows(g) /\ Allocated(g) = Windows(g)
    BY <1>4, <1>5, PoolingShape, FitsShape
  <1> QED BY <1>1, <1>2, <1>5, <1>6, <1>7

\* The place of element off of the window at row r and column q.
LEMMA WindowDest ==
  ASSUME NEW g \in Geometries, Fits(g), g.loop \notin Poolings,
         NEW i \in Iterations(g), NEW off,
         NEW r \in 0 .. RightHeight(g) - 1, NEW q \in 0 .. RightWidth(g) - 1,
         r = (i[1] + g.ph) \div g.s, q = (i[2] + g.pw) \div g.s
  PROVE  Dest(g, i, off) = (r * RightWidth(g) + q) * Kernel(g) + off
  <1>1. Dest(g, i, off) = (r * Pitch(g) + q) * Kernel(g) + off
    BY FitsShape, FitsKernel, Zenon DEF Dest
  <1>2. r * Pitch(g) = r * RightWidth(g)
    BY FitsShape
  <1> QED BY <1>1, <1>2

\* No two elements of a call that fits have the same place.
LEMMA DestInjective ==
  ASSUME NEW g \in Geometries, Fits(g),
         NEW i \in Iterations(g), NEW j \in Iterations(g),
         NEW a \in 0 .. (Steps(g) - 1), NEW b \in 0 .. (Steps(g) - 1),
         Dest(g, i, a) = Dest(g, j, b)
  PROVE  i = j /\ a = b
  <1>1. CASE g.loop \in Poolings
    <2>1. i \in Int /\ j \in Int
      BY <1>1, GeoType DEF Iterations
    <2>2. Windows(g) \in Nat \ {0} /\ a \in 0 .. Windows(g) - 1 /\ b \in 0 .. Windows(g) - 1
      BY <1>1, FitsKernel
    <2>3. i * Windows(g) + a = j * Windows(g) + b
      BY <1>1, FitsKernel DEF Dest
    <2>4. /\ (i * Windows(g) + a) \div Windows(g) = i /\ (i * Windows(g) + a) % Windows(g) = a
          /\ (j * Windows(g) + b) \div Windows(g) = j /\ (j * Windows(g) + b) % Windows(g) = b
      BY <2>1, <2>2, Quotient, Zenon
    <2> QED BY <2>3, <2>4, Zenon
  <1>2. CASE g.loop \notin Poolings
    <2> DEFINE K == Kernel(g)
               C == RightWidth(g)
    <2>1. K \in Nat \ {0} /\ C \in Nat \ {0} /\ RightHeight(g) \in Nat
      BY FitsKernel, FitsShape
    <2>2. a \in 0 .. K - 1 /\ b \in 0 .. K - 1
      BY <1>2, FitsKernel
    <2>3. PICK r \in 0 .. RightHeight(g) - 1, q \in 0 .. C - 1 :
            /\ i = <<r * g.s - g.ph, q * g.s - g.pw>>
            /\ r = (i[1] + g.ph) \div g.s /\ q = (i[2] + g.pw) \div g.s
      BY <1>2, WindowIndex
    <2>4. PICK y \in 0 .. RightHeight(g) - 1, x \in 0 .. C - 1 :
            /\ j = <<y * g.s - g.ph, x * g.s - g.pw>>
            /\ y = (j[1] + g.ph) \div g.s /\ x = (j[2] + g.pw) \div g.s
      BY <1>2, WindowIndex
    <2>5. Dest(g, i, a) = (r * C + q) * K + a /\ Dest(g, j, b) = (y * C + x) * K + b
      <3>1. Dest(g, i, a) = (r * C + q) * K + a
        BY <1>2, <2>3, WindowDest, Zenon
      <3>2. Dest(g, j, b) = (y * C + x) * K + b
        BY <1>2, <2>4, WindowDest, Zenon
      <3> QED BY <3>1, <3>2, Zenon
    <2> HIDE DEF K, C
    <2>6. r \in Int /\ y \in Int /\ r * C + q \in Int /\ y * C + x \in Int
      BY <2>1
    <2>7. /\ ((r * C + q) * K + a) \div K = r * C + q /\ ((r * C + q) * K + a) % K = a
          /\ ((y * C + x) * K + b) \div K = y * C + x /\ ((y * C + x) * K + b) % K = b
      BY <2>1, <2>2, <2>6, Quotient, Zenon
    <2>8. a = b /\ r * C + q = y * C + x
      BY <2>5, <2>7, Zenon
    <2>9. /\ (r * C + q) \div C = r /\ (r * C + q) % C = q
          /\ (y * C + x) \div C = y /\ (y * C + x) % C = x
      BY <2>1, <2>6, Quotient, Zenon
    <2> QED BY <2>3, <2>4, <2>8, <2>9, Zenon
  <1> QED BY <1>1, <1>2

\* An im2col loop that fits copies what im2col is defined to have in that place.
LEMMA CopiedAsExpected ==
  ASSUME NEW g \in Geometries, Fits(g), g.loop \notin Poolings,
         NEW i \in Iterations(g), NEW off \in 0 .. (Steps(g) - 1)
  PROVE  /\ Dest(g, i, off) \in 0 .. (Windows(g) * Kernel(g) - 1)
         /\ Value(g, i, off) = Expected(g, Dest(g, i, off))
  <1> DEFINE K == Kernel(g)
             C == RightWidth(g)
             R == RightHeight(g)
             p == Dest(g, i, off)
  <1>1. K \in Nat \ {0} /\ C \in Nat \ {0} /\ R \in Nat \ {0}
    BY FitsKernel, FitsShape
  <1>2. off \in 0 .. K - 1
    BY FitsKernel
  <1>3. PICK r \in 0 .. R - 1, q \in 0 .. C - 1 :
          /\ i = <<r * g.s - g.ph, q * g.s - g.pw>>
          /\ r = (i[1] + g.ph) \div g.s /\ q = (i[2] + g.pw) \div g.s
    BY WindowIndex
  <1>4. p = (r * C + q) * K + off
    BY <1>3, WindowDest, Zenon
  <1>5. Windows(g) = R * C /\ Windows(g) \in Nat
    BY FitsKernel
  <1>6. r * C + q \in 0 .. R * C - 1
    <2> HIDE DEF K, C, R, p
    <2> QED BY <1>1, InBlocks
  <1>7. p \in 0 .. Windows(g) * K - 1
    <2>1. r * C + q \in 0 .. Windows(g) - 1
      BY <1>5, <1>6
    <2> HIDE DEF K, C, R, p
    <2> QED BY <1>1, <1>2, <1>4, <1>5, <2>1, InBlocks
  <1>8. p \div K = r * C + q /\ p % K = off
    <2>1. r * C + q \in Int
      BY <1>6
    <2> HIDE DEF K, C, R, p
    <2> QED BY <1>1, <1>2, <1>4, <2>1, Quotient, Zenon
  <1>9. (p \div K) \div C = r /\ (p \div K) % C = q
    <2>1. r \in Int
      BY <1>1
    <2> HIDE DEF K, C, R, p
    <2> QED BY <1>1, <1>8, <2>1, Quotient, Zenon
  <1>10. SpanH(g) = g.kh /\ SpanW(g) = g.kw /\ Height(g) = g.h /\ Width(g) = g.w
    BY FitsShape
  <1> DEFINE ky == (off \div g.kw) % g.kh
             kx == off % g.kw
             c == off \div (g.kh * g.kw)
             y == r * g.s - g.ph + ky
             x == q * g.s - g.pw + kx
  <1>11. Expected(g, p) = IF y \in 0 .. (g.h - 1) /\ x \in 0 .. (g.w - 1)
                          THEN {Pixel(g, c, y, x)} ELSE {}
    <2> HIDE DEF p
    <2> QED BY <1>8, <1>9, Zenon DEF Expected
  <1>12. i[1] = r * g.s - g.ph /\ i[2] = q * g.s - g.pw
    BY <1>3
  <1>13. Value(g, i, off) = IF y \in 0 .. (g.h - 1) /\ x \in 0 .. (g.w - 1)
                            THEN {At(g, c, y, x)} ELSE {}
    BY <1>10, <1>12, Zenon DEF Value, Copied, Inside
  <1>14. c \in Int /\ y \in Int /\ x \in Int => At(g, c, y, x) = Pixel(g, c, y, x)
    <2>1. At(g, c, y, x) = c * (g.h * g.w) + y * g.w + x
      <3>1. g.loop # "avgpool"
        BY DEF Poolings
      <3> QED BY <1>10, <3>1, Zenon DEF At
    <2> HIDE DEF c, y, x
    <2>2. Pixel(g, c, y, x) = c * g.h * g.w + y * g.w + x
      BY DEF Pixel
    <2> QED BY <2>1, <2>2, GeoType
  <1>15. c \in Int
    <2>1. g.kh * g.kw \in Nat \ {0} /\ off \in Int
      BY GeoType, <1>1, <1>2
    <2> QED BY <2>1, Divided, Zenon
  <1>16. y \in 0 .. (g.h - 1) /\ x \in 0 .. (g.w - 1) => y \in Int /\ x \in Int
    OBVIOUS
  <1> HIDE DEF c, y, x
  <1> QED BY <1>7, <1>11, <1>13, <1>14, <1>15, <1>16, Zenon

\* A pooling that fits reads the part of the window that is inside the image.
LEMMA PooledAsExpected ==
  ASSUME NEW g \in Geometries, Fits(g), g.loop \in Poolings,
         NEW i \in Iterations(g), NEW off \in 0 .. (Steps(g) - 1)
  PROVE  /\ Dest(g, i, off) \in 0 .. (Windows(g) * g.c - 1)
         /\ Value(g, i, off) = ExpectedPool(g, Dest(g, i, off))
  <1> DEFINE n == Windows(g)
             C == RightWidth(g)
             p == Dest(g, i, off)
             top == (off \div C) * g.s - g.ph
             side == (off % C) * g.s - g.pw
  <1>1. n \in Nat \ {0} /\ C \in Nat \ {0} /\ g.c \in Nat /\ off \in 0 .. n - 1
    BY FitsKernel, FitsShape, GeoType
  <1>2. i \in 0 .. g.c - 1
    BY DEF Iterations
  <1>3. p = i * n + off
    BY FitsKernel DEF Dest
  <1>4. p \in 0 .. n * g.c - 1
    <2> HIDE DEF n, C, p
    <2>1. p \in 0 .. g.c * n - 1
      BY <1>1, <1>2, <1>3, InBlocks
    <2> QED BY <1>1, <2>1
  <1>5. p \div n = i /\ p % n = off
    <2>1. i \in Int
      BY <1>2, GeoType
    <2> HIDE DEF n, C, p
    <2> QED BY <1>1, <1>3, <2>1, Quotient, Zenon
  <1>6. ExpectedPool(g, p) =
          {Pixel(g, i, y, x) : y \in (0 .. (g.h - 1)) \cap (top .. (top + g.kh - 1)),
                               x \in (0 .. (g.w - 1)) \cap (side .. (side + g.kw - 1))}
    <2> HIDE DEF p
    <2> QED BY <1>5 DEF ExpectedPool
  <1>7. Value(g, i, off) = Pooled(g, i, top, side)
    BY FitsShape, PoolingShape, Zenon DEF Value
  <1>8. top \in Int /\ side \in Int
    <2>1. off \div C \in Int /\ off % C \in 0 .. C - 1
      <3>1. off \in Int
        BY <1>1
      <3> QED BY <1>1, <3>1, Divided, Zenon
    <2> QED BY <1>1, <2>1, GeoType
  <1>9. Pooled(g, i, top, side) =
          {At(g, i, top + k[1], side + k[2]) :
             k \in {k \in (0 .. (g.kh - 1)) \X (0 .. (g.kw - 1)) :
                      top + k[1] \in 0 .. (g.h - 1) /\ side + k[2] \in 0 .. (g.w - 1)}}
    BY FitsShape, Zenon DEF Pooled, Inside
  <1>10. ASSUME NEW y \in Int, NEW x \in Int
         PROVE  At(g, i, y, x) = Pixel(g, i, y, x)
    <2>1. Height(g) = g.h /\ Width(g) = g.w
      BY FitsShape
    <2>2. At(g, i, y, x) = i * (g.h * g.w) + y * g.w + x
      BY <2>1 DEF At
    <2>3. Pixel(g, i, y, x) = i * g.h * g.w + y * g.w + x
      BY DEF Pixel
    <2> QED BY <1>2, <2>2, <2>3, GeoType
  <1> HIDE DEF top, side
  <1>11. ASSUME NEW v \in Pooled(g, i, top, side)
         PROVE  v \in ExpectedPool(g, p)
    <2>1. PICK k \in (0 .. (g.kh - 1)) \X (0 .. (g.kw - 1)) :
            /\ top + k[1] \in 0 .. (g.h - 1) /\ side + k[2] \in 0 .. (g.w - 1)
            /\ v = At(g, i, top + k[1], side + k[2])
      BY <1>9
    <2>2. k[1] \in 0 .. (g.kh - 1) /\ k[2] \in 0 .. (g.kw - 1)
      OBVIOUS
    <2>3. /\ top + k[1] \in top .. (top + g.kh - 1)
          /\ side + k[2] \in side .. (side + g.kw - 1)
      BY <1>8, <2>2, GeoType
    <2>4. v = Pixel(g, i, top + k[1], side + k[2])
      BY <1>8, <1>10, <2>1, <2>2
    <2> QED BY <1>6, <2>1, <2>3, <2>4
  <1>12. ASSUME NEW v \in ExpectedPool(g, p)
         PROVE  v \in Pooled(g, i, top, side)
    <2>1. PICK y \in (0 .. (g.h - 1)) \cap (top .. (top + g.kh - 1)),
               x \in (0 .. (g.w - 1)) \cap (side .. (side + g.kw - 1)) :
            v = Pixel(g, i, y, x)
      BY <1>6
    <2>2. /\ y - top \in 0 .. (g.kh - 1) /\ x - side \in 0 .. (g.kw - 1)
          /\ top + (y - top) = y /\ side + (x - side) = x /\ y \in Int /\ x \in Int
      BY <1>8, GeoType
    <2>3. v = At(g, i, top + (y - top), side + (x - side))
      BY <1>10, <2>1, <2>2
    <2> DEFINE k == <<y - top, x - side>>
    <2>4. /\ k \in (0 .. (g.kh - 1)) \X (0 .. (g.kw - 1)) /\ k[1] = y - top /\ k[2] = x - side
          /\ top + k[1] \in 0 .. (g.h - 1) /\ side + k[2] \in 0 .. (g.w - 1)
      BY <2>2
    <2> HIDE DEF k
    <2> QED BY <1>9, <2>3, <2>4
  <1> QED BY <1>4, <1>7, <1>11, <1>12, Zenon

\* What the definition has in a place is there when the element is written.
LEMMA ValueAsWanted ==
  ASSUME NEW g \in Geometries, Fits(g),
         NEW i \in Iterations(g), NEW off \in 0 .. (Steps(g) - 1)
  PROVE  /\ Dest(g, i, off) \in DOMAIN Wanted(g)
         /\ Value(g, i, off) = Wanted(g)[Dest(g, i, off)]
  <1>1. CASE g.loop \in Poolings
    <2>1. Wanted(g) = [p \in 0 .. (Windows(g) * g.c - 1) |-> ExpectedPool(g, p)]
      BY <1>1 DEF Wanted
    <2> QED BY <1>1, <2>1, PooledAsExpected
  <1>2. CASE g.loop \notin Poolings
    <2>1. Wanted(g) = [p \in 0 .. (Windows(g) * Kernel(g) - 1) |-> Expected(g, p)]
      BY <1>2 DEF Wanted
    <2> QED BY <1>2, <2>1, CopiedAsExpected
  <1> QED BY <1>1, <1>2

\* Every place of the definition is that of some element.
LEMMA DestOnto ==
  ASSUME NEW g \in Geometries, Fits(g), NEW p \in DOMAIN Wanted(g)
  PROVE  \E i \in Iterations(g), off \in 0 .. (Steps(g) - 1) : Dest(g, i, off) = p
  <1>1. CASE g.loop \in Poolings
    <2> DEFINE n == Windows(g)
    <2>1. n \in Nat \ {0} /\ g.c \in Nat /\ Steps(g) = n /\ Allocated(g) = n
      BY <1>1, FitsKernel, GeoType
    <2>2. p \in 0 .. g.c * n - 1
      <3>1. p \in 0 .. (n * g.c - 1)
        BY <1>1 DEF Wanted
      <3> QED BY <2>1, <3>1
    <2> HIDE DEF n
    <2>3. p \div n \in 0 .. g.c - 1
      BY <2>1, <2>2, Block
    <2>4. p \in Int
      BY <2>1, <2>2
    <2>5. p % n \in 0 .. n - 1 /\ p = (p \div n) * n + (p % n)
      BY <2>1, <2>4, Divided, Zenon
    <2>6. p \div n \in Iterations(g)
      BY <1>1, <2>3 DEF Iterations
    <2>7. Dest(g, p \div n, p % n) = p
      BY <1>1, <2>1, <2>5 DEF Dest
    <2> QED BY <2>1, <2>5, <2>6, <2>7
  <1>2. CASE g.loop \notin Poolings
    <2> DEFINE K == Kernel(g)
               C == RightWidth(g)
               R == RightHeight(g)
               v == p \div K
               r == v \div C
               q == v % C
               i == <<r * g.s - g.ph, q * g.s - g.pw>>
    <2>1. /\ K \in Nat \ {0} /\ C \in Nat \ {0} /\ R \in Nat
          /\ Steps(g) = K /\ Windows(g) = R * C /\ Windows(g) \in Nat
      BY <1>2, FitsKernel, FitsShape
    <2>2. p \in 0 .. (Windows(g) * K - 1)
      BY <1>2 DEF Wanted
    <2>3. v \in 0 .. Windows(g) - 1
      <3> HIDE DEF K
      <3> QED BY <2>1, <2>2, Block
    <2>4. p % K \in 0 .. K - 1 /\ p = v * K + (p % K)
      <3>1. p \in Int
        BY <2>1, <2>2
      <3> QED BY <2>1, <3>1, Divided, Zenon
    <2>5. r \in 0 .. R - 1
      <3>1. v \in 0 .. R * C - 1
        BY <2>1, <2>3
      <3> HIDE DEF v, C, R
      <3> QED BY <2>1, <3>1, Block, Zenon
    <2>6. q \in 0 .. C - 1 /\ v = r * C + q
      <3>1. v \in Int
        BY <2>1, <2>3
      <3> HIDE DEF v, C
      <3> QED BY <2>1, <3>1, Divided, Zenon
    <2>7. i \in Iterations(g)
      BY <1>2, <2>5, <2>6, WindowAt
    <2>8. r = (i[1] + g.ph) \div g.s /\ q = (i[2] + g.pw) \div g.s
      <3>1. r \in Int /\ q \in Int /\ g.s \in Nat \ {0} /\ 0 \in 0 .. g.s - 1
            /\ g.ph \in Nat /\ g.pw \in Nat
        BY <2>1, <2>5, <2>6, GeoType
      <3>2. (r * g.s + 0) \div g.s = r /\ (q * g.s + 0) \div g.s = q
        BY <3>1, Quotient, Zenon
      <3> HIDE DEF r, q
      <3>3. i[1] + g.ph = r * g.s + 0 /\ i[2] + g.pw = q * g.s + 0
        BY <3>1
      <3> QED BY <3>2, <3>3
    <2> HIDE DEF r, q, v, K, C, R, i
    <2>9. Dest(g, i, p % K) = (r * C + q) * K + (p % K)
      BY <1>2, <2>5, <2>6, <2>7, <2>8, WindowDest DEF K, C, R
    <2> QED BY <2>1, <2>4, <2>6, <2>7, <2>9
  <1> QED BY <1>1, <1>2

\* The caller of a loop that fits has allocated what the definition fills.
LEMMA SizeAsWanted ==
  ASSUME NEW g \in Geometries, Fits(g)
  PROVE  Size(g) = Cardinality(DOMAIN Wanted(g))
  <1> DEFINE n == Windows(g)
             len == IF g.loop \in Poolings THEN g.c ELSE Kernel(g)
  <1>1. n \in Nat \ {0} /\ len \in Nat \ {0} /\ n = RightHeight(g) * RightWidth(g)
    BY FitsKernel, GeoType
  <1>2. DOMAIN Wanted(g) = 0 .. (n * len - 1)
    BY DEF Wanted
  <1>3. n * len \in Nat \ {0}
    <2> HIDE DEF n, len
    <2> QED BY <1>1
  <1>4. Cardinality(0 .. (n * len - 1)) = n * len
    <2> DEFINE m == n * len
    <2>1. m \in Nat \ {0}
      BY <1>3
    <2> HIDE DEF m
    <2>2. Cardinality(0 .. (m - 1)) = m
      BY <2>1, FS_Interval
    <2> QED BY <2>2 DEF m
  <1>5. Allocated(g) = n
    <2>1. CASE g.loop \in {"im2col", "group_kfm_im2col"}
      <3> DEFINE room == g.w + 2 * g.pw - g.kw
                 a == room \div g.s
                 b == (room + 1) \div g.s
      <3>1. Width(g) = g.w /\ Height(g) = g.h
        BY FitsShape
      <3>2. g.h = g.w /\ g.kh = g.kw /\ g.ph = g.pw
        <4>1. Height(g) = Width(g)
          BY <2>1 DEF Height, Width
        <4>2. g.kh = g.kw /\ g.ph = g.pw
          BY <2>1, GeometryAssumption
        <4> QED BY <3>1, <4>1, <4>2
      <3>3. room \in Nat /\ g.s \in Nat \ {0}
        <4>1. g.kw <= g.w + 2 * g.pw
          BY <3>1, GeometryAssumption
        <4> QED BY <4>1, GeoType
      <3>4. (room + 1) % g.s = 0
        BY <2>1, <3>1 DEF Fits
      <3>5. OutShort(g) = b /\ RightWidth(g) = a + 1 /\ RightHeight(g) = a + 1
        BY <3>1, <3>2 DEF OutShort, RightWidth, RightHeight, Out
      <3>6. b = a + 1
        <4> HIDE DEF room
        <4>1. room + 1 \in Int /\ room \in Int
          BY <3>3
        <4>2. b \in Int /\ room + 1 = b * g.s + ((room + 1) % g.s)
          BY <3>3, <4>1, Divided, Zenon
        <4>3. room + 1 = b * g.s
          BY <3>4, <4>2, <3>3
        <4>4. room = (b - 1) * g.s + (g.s - 1) /\ g.s - 1 \in 0 .. g.s - 1 /\ b - 1 \in Int
          <5>1. ASSUME NEW B \in Int, NEW s \in Nat \ {0}, NEW r \in Nat, r + 1 = B * s
                PROVE  r = (B - 1) * s + (s - 1) /\ s - 1 \in 0 .. s - 1 /\ B - 1 \in Int
            BY <5>1
          <5> HIDE DEF b
          <5> QED BY <3>3, <4>2, <4>3, <5>1, Zenon
        <4>5. ((b - 1) * g.s + (g.s - 1)) \div g.s = b - 1
          BY <3>3, <4>4, Quotient, Zenon
        <4>6. a = b - 1
          BY <4>4, <4>5
        <4> QED BY <4>2, <4>6
      <3>7. Allocated(g) = OutShort(g) * OutShort(g)
        BY <2>1 DEF Allocated
      <3> HIDE DEF a, b, n
      <3> QED BY <1>1, <3>5, <3>6, <3>7
    <2>2. CASE g.loop \notin {"im2col", "group_kfm_im2col"}
      <3>1. Allocated(g) = RightWidth(g) * RightHeight(g)
        BY <2>2, FitsShape DEF Allocated
      <3>2. RightHeight(g) \in Nat /\ RightWidth(g) \in Nat
        BY FitsShape
      <3> QED BY <1>1, <3>1, <3>2
    <2> QED BY <2>1, <2>2
  <1>6. Size(g) = n * len
    BY <1>5 DEF Size
  <1> QED BY <1>2, <1>4, <1>6

----------------------------------------------------------------------------
(* The inductive invariant *)

\* The elements that have been written: those of the iterations that are done,
\* and of one that a thread is at, those before the next.
Done ==
  {p \in (Iterations(geo) \ todo) \X (0 .. (Steps(geo) - 1)) :
     \A t \in Threads : busy[t] # IDLE /\ busy[t].it = p[1] => p[2] < busy[t].off}

\* No two threads are at one iteration.
Apart ==
  \A t, u \in Threads :
    busy[t] # IDLE /\ busy[u] # IDLE /\ busy[t].it = busy[u].it => t = u

\* The buffer has those elements, each with the value that was written.
Filled ==
  /\ mem = [x \in {Dest(geo, p[1], p[2]) : p \in Done} |-> mem[x]]
  /\ \A x \in {Dest(geo, p[1], p[2]) : p \in Done} :
       \E p \in Done : x = Dest(geo, p[1], p[2]) /\ mem[x] = Value(geo, p[1], p[2])

Inv == geo \in Geometries /\ LoopTypeOK /\ Apart /\ Filled

\* Nothing is written at first.
LEMMA InitInv == LoopInit => Inv
  <1> SUFFICES ASSUME LoopInit PROVE Inv
    OBVIOUS
  <1>1. Done = {}
    BY DEF LoopInit, Done
  <1>2. DOMAIN mem = {} /\ mem = [x \in {} |-> mem[x]]
    BY DEF LoopInit
  <1>3. Filled
    BY <1>1, <1>2 DEF Filled
  <1> QED BY <1>3 DEF LoopInit, Inv, LoopTypeOK, Apart

\* Taking an iteration writes nothing.
LEMMA TakeInv ==
  ASSUME Inv, NEW t \in Threads, Take(t)
  PROVE  Inv'
  <1>1. PICK i \in todo : /\ todo' = todo \ {i}
                         /\ busy' = [busy EXCEPT ![t] = [it |-> i, off |-> 0]]
    BY Zenon DEF Take
  <1>2. busy[t] = IDLE /\ geo' = geo /\ mem' = mem
    BY DEF Take
  <1>3. geo \in Geometries /\ todo \subseteq Iterations(geo)
        /\ busy \in [Threads -> Job(geo) \cup {IDLE}]
        /\ \A u \in Threads : busy[u] # IDLE => busy[u].it \notin todo
    BY DEF Inv, LoopTypeOK
  <1>4. [it |-> i, off |-> 0] \in Job(geo)
    BY <1>3, StepsPositive DEF Job
  <1>5. LoopTypeOK'
    BY <1>1, <1>2, <1>3, <1>4 DEF LoopTypeOK
  <1>6. Apart'
    BY <1>1, <1>3 DEF Inv, Apart
  <1>7. Done' = Done
    <2>1. ASSUME NEW p \in Done
          PROVE  p \in Done'
      BY <1>1, <1>2, <1>3 DEF Done
    <2>2. ASSUME NEW p \in Done'
          PROVE  p \in Done
      <3>1. p[1] \in Iterations(geo) \ (todo \ {i}) /\ p[2] \in 0 .. (Steps(geo) - 1)
        BY <1>1, <1>2 DEF Done
      <3>2. p[1] # i
        <4>1. busy'[t] = [it |-> i, off |-> 0]
          BY <1>1, <1>3
        <4>2. busy'[t] # IDLE /\ busy'[t].it = i /\ busy'[t].off = 0
          BY <1>3, <1>4, <4>1, IdleAssumption
        <4>3. busy'[t].it = p[1] => p[2] < busy'[t].off
          BY <4>2, Zenon DEF Done
        <4> QED BY <3>1, <4>2, <4>3
      <3> QED BY <1>1, <1>2, <1>3, <3>1, <3>2 DEF Done
    <2> QED BY <2>1, <2>2
  <1>8. Filled'
    BY <1>2, <1>7 DEF Inv, Filled
  <1> QED BY <1>2, <1>3, <1>5, <1>6, <1>8 DEF Inv

\* Writing adds one element, and it is the one the thread was at.
LEMMA WriteDone ==
  ASSUME Inv, NEW t \in Threads, Write(t)
  PROVE  Done' = Done \cup {<<busy[t].it, busy[t].off>>}
  <1> DEFINE i == busy[t].it
             off == busy[t].off
             next == IF off + 1 = Steps(geo) THEN IDLE ELSE [busy[t] EXCEPT !.off = @ + 1]
             n == Steps(geo)
  <1>1. busy[t] # IDLE /\ geo' = geo /\ todo' = todo /\ busy' = [busy EXCEPT ![t] = next]
    BY DEF Write, WriteThen
  <1>2. geo \in Geometries /\ todo \subseteq Iterations(geo)
        /\ busy \in [Threads -> Job(geo) \cup {IDLE}]
        /\ \A u \in Threads : busy[u] # IDLE => busy[u].it \notin todo
    BY DEF Inv, LoopTypeOK
  <1>3. busy[t] \in Job(geo)
    BY <1>1, <1>2
  <1>4. i \in Iterations(geo) \ todo /\ off \in 0 .. (n - 1) /\ n \in Nat \ {0}
    BY <1>1, <1>2, <1>3, StepsPositive DEF Job
  <1>5. next # IDLE => next.it = i /\ next.off = off + 1
    BY <1>3 DEF Job
  <1>6. next = IDLE <=> off + 1 = n
    <2>1. off + 1 # n => next \in Job(geo)
      BY <1>3, <1>4 DEF Job
    <2> QED BY <1>2, <2>1, IdleAssumption
  <1>7. busy'[t] = next /\ \A u \in Threads \ {t} : busy'[u] = busy[u]
    BY <1>1, <1>2
  <1>8. \A u \in Threads \ {t} : busy[u] # IDLE => busy[u].it # i
    BY <1>1 DEF Inv, Apart
  <1> HIDE DEF i, off, next, n
  <1> DEFINE P == (Iterations(geo) \ todo) \X (0 .. (n - 1))
  <1>9. Done = {p \in P : \A u \in Threads : busy[u] # IDLE /\ busy[u].it = p[1] => p[2] < busy[u].off}
    BY DEF Done, n
  <1>10. Done' = {p \in P : \A u \in Threads : busy'[u] # IDLE /\ busy'[u].it = p[1] => p[2] < busy'[u].off}
    BY <1>1 DEF Done, n
  <1>11. <<i, off>> \in P
    BY <1>4
  <1>12. ASSUME NEW p \in P
         PROVE  p \in Done' <=> p \in Done \/ p = <<i, off>>
    <2>1. p[2] \in 0 .. (n - 1) /\ p = <<p[1], p[2]>>
      OBVIOUS
    <2> HIDE DEF P
    <2>2. CASE p[1] # i
      <3>1. p # <<i, off>>
        BY <2>2
      <3>2. (\A u \in Threads : busy'[u] # IDLE /\ busy'[u].it = p[1] => p[2] < busy'[u].off)
            <=> (\A u \in Threads : busy[u] # IDLE /\ busy[u].it = p[1] => p[2] < busy[u].off)
        BY <1>1, <1>5, <1>7, <2>2 DEF i
      <3> QED BY <1>9, <1>10, <3>1, <3>2
    <2>3. CASE p[1] = i
      <3>1. p \in Done <=> p[2] < off
        BY <1>1, <1>8, <1>9, <2>3 DEF i, off
      <3>2. p \in Done' <=> (next # IDLE => p[2] < off + 1)
        BY <1>5, <1>7, <1>8, <1>10, <2>3
      <3>3. p = <<i, off>> <=> p[2] = off
        BY <2>1, <2>3
      <3>4. p \in Done' <=> p[2] <= off
        BY <1>4, <1>6, <2>1, <3>2
      <3> QED BY <1>4, <2>1, <3>1, <3>3, <3>4
    <2> QED BY <2>2, <2>3
  <1>13. Done' \subseteq P /\ Done \subseteq P
    BY <1>9, <1>10
  <1>14. Done' = Done \cup {<<i, off>>}
    <2> HIDE DEF P
    <2> QED BY <1>11, <1>12, <1>13
  <1> QED BY <1>14 DEF i, off

\* Writing an element keeps the invariant.
LEMMA WriteInv ==
  ASSUME Inv, NEW t \in Threads, Write(t)
  PROVE  Inv'
  <1> DEFINE i == busy[t].it
             off == busy[t].off
             d == Dest(geo, i, off)
             next == IF off + 1 = Steps(geo) THEN IDLE ELSE [busy[t] EXCEPT !.off = @ + 1]
  <1>1. /\ busy[t] # IDLE /\ geo' = geo /\ todo' = todo /\ busy' = [busy EXCEPT ![t] = next]
        /\ mem' = [x \in DOMAIN mem \cup {d} |-> IF x = d THEN Value(geo, i, off) ELSE mem[x]]
    BY DEF Write, WriteThen
  <1>2. geo \in Geometries /\ todo \subseteq Iterations(geo)
        /\ busy \in [Threads -> Job(geo) \cup {IDLE}]
        /\ \A u \in Threads : busy[u] # IDLE => busy[u].it \notin todo
    BY DEF Inv, LoopTypeOK
  <1>3. busy[t] \in Job(geo)
    BY <1>1, <1>2
  <1>4. next = IDLE \/ (next \in Job(geo) /\ next.it = i)
    BY <1>2, <1>3, StepsPositive DEF Job
  <1>5. LoopTypeOK'
    <2> HIDE DEF next
    <2> QED BY <1>1, <1>2, <1>4 DEF LoopTypeOK
  <1>6. Apart'
    <2> HIDE DEF next
    <2> QED BY <1>1, <1>2, <1>4 DEF Inv, Apart
  <1>7. Done' = Done \cup {<<i, off>>}
    BY WriteDone
  <1>8. Filled'
    <2> DEFINE D == Done
               D2 == Done'
               g == geo
               v == Value(g, i, off)
    <2>1. /\ mem = [x \in {Dest(g, p[1], p[2]) : p \in D} |-> mem[x]]
          /\ \A x \in {Dest(g, p[1], p[2]) : p \in D} :
               \E p \in D : x = Dest(g, p[1], p[2]) /\ mem[x] = Value(g, p[1], p[2])
      BY DEF Inv, Filled
    <2>2. D2 = D \cup {<<i, off>>}
      BY <1>7
    <2>3. mem' = [x \in DOMAIN mem \cup {d} |-> IF x = d THEN v ELSE mem[x]]
      BY <1>1
    <2>4. d = Dest(g, i, off)
      OBVIOUS
    <2> HIDE DEF D, D2, d, i, off, next
    <2>5. {Dest(g, p[1], p[2]) : p \in D2} = {Dest(g, p[1], p[2]) : p \in D} \cup {d}
      <3>1. <<i, off>>[1] = i /\ <<i, off>>[2] = off
        OBVIOUS
      <3> DEFINE q == <<i, off>>
      <3>2. D2 = D \cup {q} /\ d = Dest(g, q[1], q[2])
        BY <2>2, <2>4, <3>1
      <3> HIDE DEF q
      <3> QED BY <3>2, Zenon
    <2>6. DOMAIN mem = {Dest(g, p[1], p[2]) : p \in D}
      BY <2>1
    <2>7. mem' = [x \in {Dest(g, p[1], p[2]) : p \in D2} |-> mem'[x]]
      BY <2>3, <2>5, <2>6, Zenon
    <2>8. ASSUME NEW x \in {Dest(g, p[1], p[2]) : p \in D2}
          PROVE  \E p \in D2 : x = Dest(g, p[1], p[2]) /\ mem'[x] = Value(g, p[1], p[2])
      <3>1. CASE x = d
        <4>1. mem'[x] = v
          BY <2>3, <3>1
        <4>2. <<i, off>> \in D2 /\ <<i, off>>[1] = i /\ <<i, off>>[2] = off
          BY <2>2
        <4> QED BY <2>4, <3>1, <4>1, <4>2
      <3>2. CASE x # d
        <4>1. x \in DOMAIN mem /\ mem'[x] = mem[x]
          BY <2>3, <2>5, <2>6, <3>2, Zenon
        <4> QED BY <2>1, <2>2, <2>6, <4>1, Zenon
      <3> QED BY <3>1, <3>2
    <2>9. geo' = g
      BY <1>1
    <2> QED BY <2>7, <2>8, <2>9 DEF Filled, D2
  <1> QED BY <1>1, <1>2, <1>5, <1>6, <1>8 DEF Inv

\* Every step keeps the invariant.
LEMMA StepInv == Inv /\ [LoopNext]_loopVars => Inv'
  <1> SUFFICES ASSUME Inv, [LoopNext]_loopVars PROVE Inv'
    OBVIOUS
  <1>1. ASSUME NEW t \in Threads, Take(t) PROVE Inv'
    BY <1>1, TakeInv
  <1>2. ASSUME NEW t \in Threads, Write(t) PROVE Inv'
    BY <1>2, WriteInv
  <1>3. CASE UNCHANGED loopVars
    <2>1. geo' = geo /\ todo' = todo /\ busy' = busy /\ mem' = mem
      BY <1>3 DEF loopVars
    <2>2. Done' = Done
      BY <2>1 DEF Done
    <2> QED BY <2>1, <2>2 DEF Inv, LoopTypeOK, Apart, Filled
  <1> QED BY <1>1, <1>2, <1>3 DEF LoopNext

\* The invariant holds in every state of a loop.
THEOREM Invariant == LoopSpec => []Inv
  <1> QED BY InitInv, StepInv, PTL DEF LoopSpec

----------------------------------------------------------------------------

\* What has been written is within what the loop writes.
LEMMA DoneWithin ==
  ASSUME Inv, NEW p \in Done
  PROVE  p[1] \in Iterations(geo) /\ p[2] \in 0 .. (Steps(geo) - 1)
  BY DEF Done

\* Every pixel that a loop of conv.c or pool.c has copied into the matrix is one
\* of the image, for every image, kernel, padding, stride and number of threads.
THEOREM ReadsAlwaysInBounds == LoopSpec => []ReadsInBounds
  <1>1. Inv => ReadsInBounds
    <2> SUFFICES ASSUME Inv, NEW x \in DOMAIN mem
                 PROVE  mem[x] \subseteq 0 .. (geo.c * geo.h * geo.w - 1)
      BY DEF ReadsInBounds, Inv
    <2>1. x \in {Dest(geo, p[1], p[2]) : p \in Done}
      BY DEF Inv, Filled
    <2>2. PICK p \in Done : mem[x] = Value(geo, p[1], p[2])
      BY <2>1 DEF Inv, Filled
    <2>3. geo \in Geometries
      BY DEF Inv
    <2> QED BY <2>2, <2>3, DoneWithin, ValueWithin
  <1> QED BY <1>1, Invariant, PTL

\* No two iterations of a parallel loop write one element of the matrix, in any
\* call whose sizes fit, with any number of threads.
THEOREM NeverRaces == LoopSpec => []NoRace
  <1>1. Inv => NoRace
    <2> SUFFICES ASSUME Inv, Fits(geo), NEW t \in Threads, busy[t] # IDLE,
                        Dest(geo, busy[t].it, busy[t].off) \in DOMAIN mem
                 PROVE  FALSE
      BY DEF NoRace
    <2>1. PICK p \in Done : Dest(geo, busy[t].it, busy[t].off) = Dest(geo, p[1], p[2])
      BY DEF Inv, Filled
    <2>2. geo \in Geometries /\ busy[t] \in Job(geo)
      BY DEF Inv, LoopTypeOK
    <2>3. busy[t].it \in Iterations(geo) /\ busy[t].off \in 0 .. (Steps(geo) - 1)
      BY <2>2 DEF Job
    <2>4. p[1] \in Iterations(geo) /\ p[2] \in 0 .. (Steps(geo) - 1)
      BY DoneWithin, Zenon
    <2>5. busy[t].it = p[1] /\ busy[t].off = p[2]
      <3>1. \A i, j \in Iterations(geo) : \A a, b \in 0 .. (Steps(geo) - 1) :
              Dest(geo, i, a) = Dest(geo, j, b) => i = j /\ a = b
        BY <2>2, DestInjective, Zenon
      <3>2. \A a, b \in 0 .. (Steps(geo) - 1) :
              Dest(geo, busy[t].it, a) = Dest(geo, p[1], b) => busy[t].it = p[1] /\ a = b
        BY <2>3, <2>4, <3>1, Zenon
      <3> QED BY <2>1, <2>3, <2>4, <3>2, Zenon
    <2>6. p[2] < busy[t].off
      BY <2>5, Zenon DEF Done
    <2> QED BY <2>3, <2>5, <2>6
  <1> QED BY <1>1, Invariant, PTL

\* When the loop of a call that fits is finished, the matrix is the one that the
\* definition of the convolution or the pool gives, and all of it is written.
THEOREM FitsIsRight == LoopSpec => [](Finished /\ Fits(geo) => Right)
  <1>1. Inv => (Finished /\ Fits(geo) => Right)
    <2> SUFFICES ASSUME Inv, Finished, Fits(geo) PROVE Right
      OBVIOUS
    <2> DEFINE g == geo
               W == Wanted(g)
               N == Windows(g) * (IF g.loop \in Poolings THEN g.c ELSE Kernel(g))
    <2>1. g \in Geometries
      BY DEF Inv
    <2>2. Done = Iterations(g) \X (0 .. (Steps(g) - 1))
      BY DEF Finished, Done
    <2>3. mem = [x \in DOMAIN mem |-> mem[x]]
          /\ DOMAIN mem = {Dest(g, p[1], p[2]) : p \in Done}
      BY DEF Inv, Filled
    <2>4. ASSUME NEW x \in DOMAIN mem
          PROVE  x \in DOMAIN W /\ mem[x] = W[x]
      <3>1. PICK p \in Done : x = Dest(g, p[1], p[2]) /\ mem[x] = Value(g, p[1], p[2])
        BY <2>3 DEF Inv, Filled
      <3> QED BY <2>1, <3>1, DoneWithin, ValueAsWanted
    <2>5. ASSUME NEW x \in DOMAIN W
          PROVE  x \in DOMAIN mem
      <3>1. PICK i \in Iterations(g), off \in 0 .. (Steps(g) - 1) : Dest(g, i, off) = x
        BY <2>1, DestOnto
      <3>2. <<i, off>> \in Done
        BY <2>2
      <3> QED BY <2>3, <3>1, <3>2
    <2>6. W = [x \in DOMAIN W |-> W[x]]
      BY Zenon DEF Wanted
    <2>7. DOMAIN mem = DOMAIN W
      <3> HIDE DEF W
      <3> QED BY <2>4, <2>5
    <2>8. mem = W
      <3> HIDE DEF W
      <3> QED BY <2>3, <2>4, <2>6, <2>7
    <2> QED BY <2>1, <2>7, <2>8, SizeAsWanted DEF Right
  <1> QED BY <1>1, Invariant, PTL

\* Rounding down after adding one, as im2col and group_kfm_im2col do, loses the last
\* window of a row unless the division has no remainder.
LEMMA RoundedDown ==
  ASSUME NEW r \in Nat, NEW s \in Nat \ {0}, (r + 1) % s # 0
  PROVE  (r + 1) \div s = r \div s
  <1> DEFINE q == (r + 1) \div s
             m == (r + 1) % s
  <1>1. q \in Int /\ m \in 0 .. s - 1 /\ r + 1 = q * s + m
    BY Divided
  <1> HIDE DEF q, m
  <1>2. m - 1 \in 0 .. s - 1 /\ r = q * s + (m - 1)
    <2>1. m # 0
      BY DEF m
    <2> QED BY <1>1, <2>1
  <1>3. (q * s + (m - 1)) \div s = q
    BY <1>1, <1>2, Quotient, Zenon
  <1> QED BY <1>2, <1>3 DEF q

\* The caller has then allocated less than the definition fills.
LEMMA ShortIsTooSmall ==
  ASSUME NEW g \in Geometries, Square(g), g.loop \in {"im2col", "group_kfm_im2col"}, ~ Fits(g)
  PROVE  Size(g) # Cardinality(DOMAIN Wanted(g))
  <1> DEFINE room == g.w + 2 * g.pw - g.kw
             a == room \div g.s
             len == Kernel(g)
  <1>1. Width(g) = g.w /\ Height(g) = g.h /\ g.h = g.w /\ g.kh = g.kw /\ g.ph = g.pw
    <2>1. Width(g) = g.w /\ Height(g) = g.h
      BY DEF Square
    <2>2. Height(g) = Width(g)
      BY DEF Height, Width
    <2>3. g.kh = g.kw /\ g.ph = g.pw
      BY GeometryAssumption
    <2> QED BY <2>1, <2>2, <2>3
  <1>2. room \in Nat /\ g.s \in Nat \ {0}
    <2>1. g.kw <= g.w + 2 * g.pw
      BY <1>1, GeometryAssumption
    <2> QED BY <2>1, GeoType
  <1>3. (room + 1) % g.s # 0
    BY <1>1 DEF Fits
  <1>4. OutShort(g) = (room + 1) \div g.s /\ Windows(g) = (a + 1) * (a + 1)
    BY <1>1 DEF OutShort, Windows, RightWidth, Out
  <1>5. OutShort(g) = a
    <2> HIDE DEF room
    <2> QED BY <1>2, <1>3, <1>4, RoundedDown
  <1>6. a \in Nat
    <2> HIDE DEF room
    <2> QED BY <1>2
  <1>7. len \in Nat \ {0}
    <2>1. g.c \in Nat \ {0} /\ g.kh * g.kw \in Nat \ {0}
      BY GeoType
    <2>2. g.c * g.kh * g.kw = g.c * (g.kh * g.kw)
      BY GeoType
    <2>3. g.c * (g.kh * g.kw) \in Nat \ {0}
      BY <2>1
    <2> QED BY <2>2, <2>3 DEF Kernel
  <1>8. Size(g) = (a * a) * len
    <2>1. g.loop \notin Poolings
      BY DEF Poolings
    <2> HIDE DEF a, len
    <2> QED BY <1>5, <2>1 DEF Size, Allocated, len
  <1>9. DOMAIN Wanted(g) = 0 .. (((a + 1) * (a + 1)) * len - 1)
    <2>1. g.loop \notin Poolings
      BY DEF Poolings
    <2>2. DOMAIN Wanted(g) = 0 .. (Windows(g) * Kernel(g) - 1)
      BY <2>1 DEF Wanted
    <2> QED BY <1>4, <2>2, Zenon
  <1> HIDE DEF a, len
  <1>10. ((a + 1) * (a + 1)) * len \in Nat \ {0} /\ ((a + 1) * (a + 1)) * len # (a * a) * len
    <2>1. (a + 1) * (a + 1) = a * a + (a + a + 1) /\ a * a \in Nat
      BY <1>6
    <2>2. ((a + 1) * (a + 1)) * len = (a * a) * len + (a + a + 1) * len
      BY <1>6, <1>7, <2>1
    <2>3. (a * a) * len \in Nat /\ (a + a + 1) * len \in Nat \ {0}
      BY <1>6, <1>7, <2>1
    <2> QED BY <2>2, <2>3
  <1>11. Cardinality(0 .. (((a + 1) * (a + 1)) * len - 1)) = ((a + 1) * (a + 1)) * len
    <2> DEFINE m == ((a + 1) * (a + 1)) * len
    <2>1. m \in Nat \ {0}
      BY <1>10
    <2> HIDE DEF m
    <2>2. Cardinality(0 .. (m - 1)) = m
      BY <2>1, FS_Interval
    <2> QED BY <2>2 DEF m
  <1> QED BY <1>8, <1>9, <1>10, <1>11

\* For square images the loops that pad on all sides are right exactly when the call
\* fits: im2col and group_kfm_im2col when the stride divides, kfm_im2col and the
\* poolings always.
THEOREM RightOnlyIfFits ==
  LoopSpec => [](Finished /\ Square(geo) /\ geo.loop \notin {"ns_W", "ns_H", "conv_text"}
             => (Right <=> Fits(geo)))
  <1>1. ASSUME Inv, Square(geo), geo.loop \notin {"ns_W", "ns_H", "conv_text"}, Right
        PROVE  Fits(geo)
    <2> SUFFICES ASSUME ~ Fits(geo) PROVE FALSE
      OBVIOUS
    <2>1. geo \in Geometries
      BY <1>1 DEF Inv
    <2>2. geo.loop \in {"im2col", "group_kfm_im2col"}
      BY <1>1 DEF Fits
    <2>3. Size(geo) = Cardinality(DOMAIN Wanted(geo))
      BY <1>1 DEF Right
    <2> QED BY <1>1, <2>1, <2>2, <2>3, ShortIsTooSmall
  <1>2. Inv /\ Finished /\ Square(geo) /\ geo.loop \notin {"ns_W", "ns_H", "conv_text"}
        => (Right => Fits(geo))
    BY <1>1
  <1> QED BY <1>2, Invariant, FitsIsRight, PTL
=============================================================================
