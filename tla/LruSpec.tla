------------------------------ MODULE LruSpec -------------------------------
(***************************************************************************)
(* What a least-recently-used cache promises: the entries in order of      *)
(* their last use, at most Capacity of them, one per name.                 *)
(***************************************************************************)
LOCAL INSTANCE Integers
LOCAL INSTANCE Sequences

CONSTANTS Names, Entries, Capacity, NULL

VARIABLES
  order,  \* sequence of [name, entry], most recently used first
  ret     \* what the last get returned

Cached(n) == \E i \in DOMAIN order : order[i].name = n
Place(n) == CHOOSE i \in DOMAIN order : order[i].name = n
EntryOf(n) == order[Place(n)].entry
Without(n) == SubSeq(order, 1, Place(n) - 1) \o SubSeq(order, Place(n) + 1, Len(order))
AllButOldest == SubSeq(order, 1, Len(order) - 1)

Init == order = <<>> /\ ret = NULL

\* Using a name makes it the most recent; only a new name may push another
\* one out, and then the one whose last use is longest ago.
Put(n, e) ==
  /\ order' = <<[name |-> n, entry |-> e]>> \o
                (IF Cached(n) THEN Without(n)
                 ELSE IF Len(order) < Capacity THEN order ELSE AllButOldest)
  /\ ret' = NULL

Get(n) ==
  IF Cached(n)
  THEN /\ order' = <<[name |-> n, entry |-> EntryOf(n)]>> \o Without(n)
       /\ ret' = EntryOf(n)
  ELSE UNCHANGED order /\ ret' = NULL

Destroy == order' = <<>> /\ ret' = NULL

Next ==
  \/ \E n \in Names : Get(n) \/ \E e \in Entries : Put(n, e)
  \/ Destroy

Spec == Init /\ [][Next]_<<order, ret>>
=============================================================================
