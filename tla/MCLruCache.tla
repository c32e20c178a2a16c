----------------------------- MODULE MCLruCache -----------------------------
(* Four names, none longer than a node can store, in a cache of three nodes. *)
EXTENDS LruCache

CONSTANTS n1, n2, n3, n4, a1, a2, a3, a4, e1, e2

MCNames == {n1, n2, n3, n4}
MCAddr == {a1, a2, a3, a4}
MCEntries == {e1, e2}
AllStored == [n \in MCNames |-> n]
=============================================================================
