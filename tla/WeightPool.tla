----------------------------- MODULE WeightPool -----------------------------
(***************************************************************************)
(* The weight pool of one backend (model_buffer.c) and load_model (aqua.c) *)
(* which fills it from the weight tables.                                  *)
(*                                                                         *)
(* WEIGHT_POOL is a process-local hash table from "<table>_val" and        *)
(* "<table>_bias" to palloc'ed copies of the two array columns of a weight *)
(* table.  It is not transactional: an ERROR raised half way through       *)
(* load_model aborts the SQL transaction, and leaves in the pool whatever  *)
(* was inserted before.                                                    *)
(*                                                                         *)
(* Memory is modelled as a set of units; a chunk returned by palloc is a   *)
(* set of as many units as bytes were asked for.                           *)
(***************************************************************************)
EXTENDS Integers, FiniteSets, Sequences

CONSTANTS
  Tables,         \* the weight tables
  NullName,       \* a NULL element of load_model's array argument
  Prefix,         \* Prefix[t]: the first NAMEDATALEN - 1 characters of t's name
  NameLen,        \* NameLen[t]: the number of characters of t's name
  NAMEDATALEN,    \* key size of the hash table, terminating zero included
  Units,          \* units of memory palloc can hand out
  POOL_SIZE, LRU_CACHE_SIZE,
  RowKinds,       \* sizes of the arrays a weight table may hold
  NoRow,          \* a table load_model cannot read: missing, empty, or NULLs
  MaxVersion,     \* bound on the number of updates of the weight tables
  MaxTables       \* bound on the number of elements of load_model's argument

Parts == {"val", "bias"}
Versions == 0 .. MaxVersion
Rows == [ver : Versions, arrays : RowKinds \cup {NoRow}]

ASSUME TablesAssumption ==
  /\ NameLen \in [Tables -> Nat]
  /\ NAMEDATALEN \in Nat
  /\ NoRow \notin RowKinds
  /\ NullName \notin Tables
  /\ \A r \in RowKinds : \A p \in Parts : r[p] \in Nat

\* Two different names agree on the characters the key keeps only when both
\* fill the key.
ASSUME PrefixAssumption ==
  \A t, u \in Tables :
    Prefix[t] = Prefix[u] /\ t # u => NameLen[t] >= NAMEDATALEN - 1

ASSUME MemoryAssumption ==
  /\ IsFiniteSet(Units)
  /\ POOL_SIZE \in Nat /\ LRU_CACHE_SIZE \in Nat
  /\ LRU_CACHE_SIZE <= POOL_SIZE
  /\ MaxVersion \in Nat

\* Mutant: one character too few is kept.
KeyShort(t, part) ==
  <<Prefix[t], IF NameLen[t] <= NAMEDATALEN - 4 THEN part ELSE "cut">>

\* The hash key of "<t>_val" or "<t>_bias": string_hash, strncmp and strlcpy
\* look at NAMEDATALEN - 1 characters, and the two suffixes only differ from
\* their second character on.
Key(t, part) ==
  <<Prefix[t], IF NameLen[t] <= NAMEDATALEN - 3 THEN part ELSE "cut">>

Keys == {Key(t, part) : t \in Tables, part \in Parts}

VARIABLES
  rows,     \* the committed row of every weight table
  ptr,      \* state of WeightEntry.data, or "absent" when there is no entry
  data,     \* the units WeightEntry.data points to
  data_size, \* of WeightEntry
  content,  \* what was copied into the entry: table, part and row version
  usage,    \* WeightPool.current_memory_usage
  call,     \* the load_model call that is running
  failedAt, \* tables whose last load broke off between the two inserts
  backend   \* "undefined" once the process freed an invalid pointer

pool == <<ptr, data, data_size, content, usage>>
vars == <<rows, ptr, data, data_size, content, usage, call, failedAt, backend>>

Nothing == [table |-> NullName, part |-> "none", ver |-> 0]
Contents == [table : Tables, part : Parts, ver : Versions] \cup {Nothing}

Live == {k \in Keys : ptr[k] = "ok"}
Heap == UNION {data[k] : k \in Live}

Arguments == UNION {[1 .. n -> Tables \cup {NullName}] : n \in 0 .. MaxTables}
\* No load_model call is running.
AtRest == call.pc \in {"idle", "done", "failed"}
NoCall(pc) ==
  [pc |-> pc, todo |-> <<>>, loaded |-> {},
   snap |-> [t \in Tables |-> [ver |-> 0, arrays |-> NoRow]]]

\* create_weight_pool: the pool of a new process.
NoEntry == [k \in Keys |-> "absent"]
NoData == [k \in Keys |-> {}]
NoSize == [k \in Keys |-> 0]
NoContent == [k \in Keys |-> Nothing]

\* _PG_init has run: create_weight_pool.
Init ==
  /\ rows \in [Tables -> {r \in Rows : r.ver = 0}]
  /\ ptr = NoEntry /\ data = NoData /\ data_size = NoSize /\ content = NoContent
  /\ usage = LRU_CACHE_SIZE
  /\ call = NoCall("idle")
  /\ failedAt = {}
  /\ backend = "up"

-----------------------------------------------------------------------------
(* insert_weight *)

\* Mutant: the limit is compared with what is there already.
LimitWithoutNew(n) == usage > POOL_SIZE
LimitExceeded(n) == usage + n > POOL_SIZE

\* Mutant: a replaced weight stays counted.
OldSizeKept(k) == 0

\* Bytes given back by the "if (found)" branch.
OldSize(k) == IF ptr[k] = "ok" THEN data_size[k] ELSE 0

\* The limit check, and hash_search running out of memory for a new entry:
\* ERROR with the pool as it was.
InsertRefused(k, n) ==
  /\ LimitExceeded(n) \/ ptr[k] = "absent"
  /\ UNCHANGED pool

\* palloc(data_size) raises ERROR after the old copy was freed: the entry
\* stays in the table with a pointer to freed memory, or, when it is new,
\* with a data field nobody has written.
InsertBreaks(k, n) ==
  /\ ~LimitExceeded(n)
  /\ ptr[k] \in {"absent", "null", "ok"}
  /\ ptr' \in {[ptr EXCEPT ![k] = p] :
                 p \in CASE ptr[k] = "ok"     -> {"dangling"}
                         [] ptr[k] = "null"   -> {"null"}
                         [] ptr[k] = "absent" -> {"null", "garbage"}}
  /\ data' = [data EXCEPT ![k] = {}]
  /\ content' = [content EXCEPT ![k] = Nothing]
  /\ usage' = usage - OldSize(k)
  /\ UNCHANGED data_size

\* The units no other entry holds, once the old copy is freed.
Free(k) == Units \ UNION {data[j] : j \in Live \ {k}}

\* Which of the free units palloc hands out makes no difference.
Palloc(free, n) == CHOOSE u \in SUBSET free : Cardinality(u) = n

InsertSucceeds(k, c, n) ==
  /\ ~LimitExceeded(n)
  /\ ptr[k] \in {"absent", "null", "ok"}
  /\ Palloc(Free(k), n) \subseteq Free(k)
  /\ Cardinality(Palloc(Free(k), n)) = n
  /\ data' = [data EXCEPT ![k] = Palloc(Free(k), n)]
  /\ ptr' = [ptr EXCEPT ![k] = "ok"]
  /\ data_size' = [data_size EXCEPT ![k] = n]
  /\ content' = [content EXCEPT ![k] = c]
  /\ usage' = usage - OldSize(k) + n

\* pfree of a pointer that is not a live chunk.  From here on the process may
\* die, raise ERROR or hand out the same chunk twice: nothing is claimed of it.
InsertUndefined(k, n) ==
  /\ ~LimitExceeded(n)
  /\ ptr[k] \in {"dangling", "garbage"}


-----------------------------------------------------------------------------
(* load_model *)

Table == Head(call.todo)
Row == call.snap[Table].arrays

\* Mutant: each query of the call sees the latest committed row.
ContentLatest(part) == [table |-> Table, part |-> part, ver |-> rows[Table].ver]
Content(part) == [table |-> Table, part |-> part, ver |-> call.snap[Table].ver]

\* A call starts.  SPI_execute(query, true, 1) runs every query of the call
\* in the snapshot of the calling statement.
CallLoadModel(arg) ==
  /\ backend = "up" /\ AtRest
  /\ call' = [pc |-> "read", todo |-> arg, snap |-> rows, loaded |-> {}]
  /\ UNCHANGED <<rows, pool, failedAt, backend>>

\* Mutant: a NULL name counts as loaded.
SkipNullLoaded ==
  /\ call.pc = "read" /\ call.todo # <<>> /\ Table = NullName
  /\ call' = [call EXCEPT !.todo = Tail(@), !.loaded = @ \cup {Table}]
  /\ UNCHANGED <<rows, pool, failedAt, backend>>

SkipNull ==
  /\ call.pc = "read" /\ call.todo # <<>> /\ Table = NullName
  /\ call' = [call EXCEPT !.todo = Tail(@)]
  /\ UNCHANGED <<rows, pool, failedAt, backend>>

\* The query returns a row without NULLs.
ReadRow ==
  /\ call.pc = "read" /\ call.todo # <<>> /\ Table # NullName
  /\ Row # NoRow
  /\ call' = [call EXCEPT !.pc = "val"]
  /\ UNCHANGED <<rows, pool, failedAt, backend>>

\* The query fails, is cancelled, returns no row, or a NULL: ERROR.
ReadFails ==
  /\ call.pc = "read" /\ call.todo # <<>> /\ Table # NullName
  /\ call' = NoCall("failed")
  /\ UNCHANGED <<rows, pool, failedAt, backend>>

InsertVal ==
  /\ call.pc = "val"
  /\ InsertSucceeds(Key(Table, "val"), Content("val"), Row.val)
  /\ call' = [call EXCEPT !.pc = "bias"]
  /\ UNCHANGED <<rows, failedAt, backend>>

InsertBias ==
  /\ call.pc = "bias"
  /\ InsertSucceeds(Key(Table, "bias"), Content("bias"), Row.bias)
  /\ call' = [call EXCEPT !.pc = "read", !.todo = Tail(@),
                          !.loaded = @ \cup {Table}]
  /\ failedAt' = failedAt \ {Table}
  /\ UNCHANGED <<rows, backend>>

\* ERROR out of insert_weight: the transaction aborts, the pool keeps what
\* it has.
InsertError(part) ==
  /\ call.pc = part
  /\ \/ InsertRefused(Key(Table, part), Row[part])
     \/ InsertBreaks(Key(Table, part), Row[part])
  /\ call' = NoCall("failed")
  /\ failedAt' = IF part = "bias" THEN failedAt \cup {Table} ELSE failedAt
  /\ UNCHANGED <<rows, backend>>

Undefined(part) ==
  /\ call.pc = part
  /\ InsertUndefined(Key(Table, part), Row[part])
  /\ backend' = "undefined"
  /\ call' = NoCall("failed")
  /\ UNCHANGED <<rows, pool, failedAt>>

LoadDone ==
  /\ call.pc = "read" /\ call.todo = <<>>
  /\ call' = [call EXCEPT !.pc = "done"]
  /\ UNCHANGED <<rows, pool, failedAt, backend>>

LoadModel ==
  \/ SkipNull \/ ReadRow \/ ReadFails \/ InsertVal \/ InsertBias \/ LoadDone
  \/ \E part \in Parts : InsertError(part) \/ Undefined(part)

-----------------------------------------------------------------------------
(* The environment *)

\* Another session commits a new row of a weight table.
UpdateTable(t) ==
  /\ rows[t].ver < MaxVersion
  /\ \E a \in RowKinds \cup {NoRow} :
        rows' = [rows EXCEPT ![t] = [ver |-> @.ver + 1, arrays |-> a]]
  /\ UNCHANGED <<pool, call, failedAt, backend>>

\* The client connects again: a new process runs _PG_init.
Reconnect ==
  /\ AtRest
  /\ ptr' = NoEntry /\ data' = NoData /\ data_size' = NoSize /\ content' = NoContent
  /\ usage' = LRU_CACHE_SIZE
  /\ call' = NoCall("idle")
  /\ failedAt' = {}
  /\ backend' = "up"
  /\ UNCHANGED rows

Next ==
  \/ \E arg \in Arguments : CallLoadModel(arg)
  \/ LoadModel
  \/ \E t \in Tables : UpdateTable(t)
  \/ Reconnect

Spec == Init /\ [][Next]_vars

-----------------------------------------------------------------------------
(* Properties *)

\* The variables have their types: in the pool every entry is in one of the
\* states insert_weight can leave it in, and no NULL name counts as loaded.
TypeOK ==
  /\ rows \in [Tables -> Rows]
  /\ ptr \in [Keys -> {"absent", "null", "ok", "dangling", "garbage"}]
  /\ data \in [Keys -> SUBSET Units]
  /\ data_size \in [Keys -> Nat]
  /\ content \in [Keys -> Contents]
  /\ usage \in Int
  /\ call \in [pc : {"idle", "read", "val", "bias", "done", "failed"},
               todo : Seq(Tables \cup {NullName}),
               snap : [Tables -> Rows],
               loaded : SUBSET Tables]
  /\ failedAt \in SUBSET Tables
  /\ backend \in {"up", "undefined"}

\* current_memory_usage is the LRU reserve plus exactly the memory the entries
\* hold, whatever sequence of first loads, reloads, refused and broken-off
\* inserts led here: nothing is counted twice, lost, or shared by two entries.
AccountingExact ==
  backend = "up" =>
    /\ usage = LRU_CACHE_SIZE + Cardinality(Heap)
    /\ \A j, k \in Live : j # k => data[j] \cap data[k] = {}
    /\ \A k \in Live : data_size[k] = Cardinality(data[k])

\* insert_weight never lets the pool grow beyond POOL_SIZE.
UsageBounded == usage <= POOL_SIZE

\* The two names of a table stay apart after truncation.
Distinguished(t) == NameLen[t] + 2 <= NAMEDATALEN - 1

\* When they do, get_weight returns for "<t>_val" and "<t>_bias" only what was
\* read from that column of that table.
OwnWeights ==
  \A t \in Tables : \A part \in Parts :
    Distinguished(t) =>
      LET c == content[Key(t, part)]
      IN  c # Nothing => c.table = t /\ c.part = part

\* A load_model call that returns leaves, for each table of its argument, both
\* weights of the one snapshot the statement saw, although other sessions
\* update the tables while it runs.
LoadedIsSnapshot ==
  call.pc = "done" =>
    \A t \in call.loaded : \A part \in Parts :
      Distinguished(t) =>
        /\ ptr[Key(t, part)] = "ok"
        /\ content[Key(t, part)]
             = [table |-> t, part |-> part, ver |-> call.snap[t].ver]

\* Operators read "<t>_val" and "<t>_bias" in one call.  They can meet a kernel
\* and a bias of two different versions of the table, and then only because
\* the last load of that table broke off between its two inserts.
MixedPairNeedsFailedLoad ==
  AtRest =>
    \A t \in Tables :
      /\ Distinguished(t)
      /\ \A part \in Parts : ptr[Key(t, part)] = "ok"
      /\ content[Key(t, "val")].ver # content[Key(t, "bias")].ver
      => t \in failedAt
=============================================================================
