------------------------------ MODULE LruCache ------------------------------
(***************************************************************************)
(* The doubly linked list of LRUCacheEntry nodes in model_buffer.c, one    *)
(* variable per pointer field.  pool->weight_cache is one of these; the    *)
(* calls to it in get_weight are commented out at present.                 *)
(***************************************************************************)
EXTENDS Integers, FiniteSets, Sequences

CONSTANTS
  Names,      \* the weight names callers use
  Stored,     \* Stored[n]: what strlcpy keeps of n in LRUCacheEntry.name
  Entries,    \* WeightEntry pointers
  Addr,       \* addresses of LRUCacheEntry nodes
  NULL,
  Capacity    \* LRUCache.capacity

ASSUME CapacityAssumption == Capacity \in Nat \ {0}
ASSUME AddrAssumption == IsFiniteSet(Addr) /\ NULL \notin Addr

VARIABLES
  head, tail, size,
  name, entry, prev, next,  \* the fields of every node
  alloc,                    \* the nodes that are palloc'ed
  ret,                      \* what the last get_lru_cache returned
  context                   \* CurrentMemoryContext after the last operation

links == <<head, tail, prev, next>>
cacheVars == <<head, tail, size, name, entry, prev, next, alloc, ret, context>>

NoNode == [a \in Addr |-> NULL]

\* create_lru_cache
CacheInit ==
  /\ head = NULL /\ tail = NULL /\ size = 0
  /\ name = NoNode /\ entry = NoNode /\ prev = NoNode /\ next = NoNode
  /\ alloc = {}
  /\ ret = NULL
  /\ context = "caller"

\* The nodes "current = current->next" visits from h on, n of them, in order.
Walk(h, nx, n) ==
  LET at[i \in 1 .. n] == IF i = 1 THEN h ELSE nx[at[i - 1]]
  IN  [i \in 1 .. n |-> at[i]]
Visited == Walk(head, next, size)

\* strcmp compares the stored, possibly cut name with the caller's full one.
Hits(n) == {i \in 1 .. size : name[Visited[i]] = n}
Hit(n) == Hits(n) # {}
Find(n) == Visited[CHOOSE i \in Hits(n) : \A j \in Hits(n) : i <= j]

-----------------------------------------------------------------------------
(* lru_cache_move_to_head *)

\* f with f[a] set, where "if (a)" guards the assignment.
Assign(f, a, v) == IF a = NULL THEN f ELSE [f EXCEPT ![a] = v]

\* Mutant: the tail pointer is not moved off an entry that leaves the tail.
MoveToHeadKeepTail(a) ==
  IF a = head
  THEN UNCHANGED links
  ELSE LET next1 == Assign(next, prev[a], next[a])
           prev1 == Assign(prev, next[a], prev[a])
       IN  /\ next' = [next1 EXCEPT ![a] = head]
           /\ prev' = Assign([prev1 EXCEPT ![a] = NULL], head, a)
           /\ head' = a
           /\ tail' = tail

MoveToHead(a) ==
  IF a = head
  THEN UNCHANGED links
  ELSE LET next1 == Assign(next, prev[a], next[a])
           prev1 == Assign(prev, next[a], prev[a])
           tail1 == IF a = tail THEN prev[a] ELSE tail
       IN  /\ next' = [next1 EXCEPT ![a] = head]
           /\ prev' = Assign([prev1 EXCEPT ![a] = NULL], head, a)
           /\ head' = a
           /\ tail' = IF tail1 = NULL THEN a ELSE tail1

-----------------------------------------------------------------------------
(* put_lru_cache, get_lru_cache, destroy_lru_cache *)

\* put_lru_cache switches to the cache's memory context and, on a hit, returns
\* without switching back.
PutHit(n, e) ==
  /\ Hit(n)
  /\ entry' = [entry EXCEPT ![Find(n)] = e]
  /\ MoveToHead(Find(n))
  /\ ret' = NULL
  /\ context' = "cache"
  /\ UNCHANGED <<size, name, alloc>>

\* The list after the least recently used node was unlinked and pfree'd; the
\* fields of a node that is not allocated read NULL.
Evicts == size >= Capacity /\ tail # NULL
NextAfterEvict == IF Evicts THEN Assign(next, prev[tail], NULL) ELSE next
Scrub(f) == IF Evicts THEN [f EXCEPT ![tail] = NULL] ELSE f
TailAfterEvict == IF Evicts THEN prev[tail] ELSE tail
HeadAfterEvict == IF Evicts /\ tail = head THEN NULL ELSE head
AllocAfterEvict == IF Evicts THEN alloc \ {tail} ELSE alloc
SizeAfterEvict == IF Evicts THEN size - 1 ELSE size

PutMiss(n, e) ==
  /\ ~Hit(n)
  /\ \E a \in Addr \ AllocAfterEvict :
       /\ name' = [Scrub(name) EXCEPT ![a] = Stored[n]]
       /\ entry' = [Scrub(entry) EXCEPT ![a] = e]
       /\ next' = [NextAfterEvict EXCEPT ![a] = HeadAfterEvict]
       /\ prev' = Assign([Scrub(prev) EXCEPT ![a] = NULL], HeadAfterEvict, a)
       /\ head' = a
       /\ tail' = IF TailAfterEvict = NULL THEN a ELSE TailAfterEvict
       /\ alloc' = AllocAfterEvict \cup {a}
  /\ size' = SizeAfterEvict + 1
  /\ ret' = NULL
  /\ UNCHANGED context

\* Mutant: a lookup does not count as a use.
GetHitFifo(n) ==
  /\ Hit(n)
  /\ ret' = entry[Find(n)]
  /\ UNCHANGED <<links, size, name, entry, alloc, context>>

GetHit(n) ==
  /\ Hit(n)
  /\ MoveToHead(Find(n))
  /\ ret' = entry[Find(n)]
  /\ UNCHANGED <<size, name, entry, alloc, context>>

GetMiss(n) ==
  /\ ~Hit(n)
  /\ ret' = NULL
  /\ UNCHANGED <<links, size, name, entry, alloc, context>>

\* Frees what the walk from head reaches; the cache created next is empty.
Destroy ==
  /\ alloc' = alloc \ {Visited[i] : i \in 1 .. size}
  /\ head' = NULL /\ tail' = NULL /\ size' = 0
  /\ ret' = NULL
  /\ name' = NoNode /\ entry' = NoNode /\ prev' = NoNode /\ next' = NoNode
  /\ UNCHANGED context

CacheNext ==
  \/ \E n \in Names :
       \/ GetHit(n) \/ GetMiss(n)
       \/ \E e \in Entries : PutHit(n, e) \/ PutMiss(n, e)
  \/ Destroy

CacheSpec == CacheInit /\ [][CacheNext]_cacheVars

-----------------------------------------------------------------------------
(* Properties *)

\* The variables have their types: the links are nodes or NULL, and
\* get_lru_cache returns a weight entry or NULL.
CacheTypeOK ==
  /\ head \in Addr \cup {NULL} /\ tail \in Addr \cup {NULL}
  /\ size \in Nat
  /\ prev \in [Addr -> Addr \cup {NULL}]
  /\ next \in [Addr -> Addr \cup {NULL}]
  /\ name \in [Addr -> {Stored[n] : n \in Names} \cup {NULL}]
  /\ entry \in [Addr -> Entries \cup {NULL}]
  /\ alloc \in SUBSET Addr
  /\ ret \in Entries \cup {NULL}
  /\ context \in {"caller", "cache"}

\* However hits, misses and evictions alternate, next and prev stay inverse to
\* each other, head and tail are the only ends, no link leads to a node that
\* was pfree'd, and the walk from head meets each palloc'ed node: none leaks out
\* of the list, and size counts them.
ListWellFormed ==
  /\ CacheTypeOK
  /\ (head = NULL) = (alloc = {}) /\ (tail = NULL) = (alloc = {})
  /\ {head, tail} \subseteq alloc \cup {NULL}
  /\ \A a \in alloc :
       /\ prev[a] = NULL <=> a = head
       /\ next[a] = NULL <=> a = tail
       /\ prev[a] # NULL => prev[a] \in alloc /\ next[prev[a]] = a
       /\ next[a] # NULL => next[a] \in alloc /\ prev[next[a]] = a
  /\ size = Cardinality(alloc)
  /\ {Visited[i] : i \in 1 .. size} = alloc

\* The abstract cache: the nodes in list order.
Order == [i \in 1 .. size |-> [name |-> name[Visited[i]], entry |-> entry[Visited[i]]]]
Abstract == INSTANCE LruSpec WITH order <- Order

\* The list implements a least-recently-used cache, when no name is cut.
ImplementsLru == Abstract!Spec
=============================================================================
