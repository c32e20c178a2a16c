--------------------------- MODULE ArrayAggOrder ---------------------------
(***************************************************************************)
(* ArrayAgg with a record of the order in which each process fetched its   *)
(* rows, and of the order in which the leader merged the processes.  The   *)
(* generated queries call array_2d_agg without ORDER BY, and the rows of   *)
(* the result are the channels of a tensor: what order the aggregate keeps *)
(* is what such a query can rely on.                                       *)
(***************************************************************************)
EXTENDS ArrayAgg

VARIABLES
  fetched,  \* history: the rows each process has accumulated, in order
  merged    \* history: the processes whose states the leader has merged, in order

OrderInit == Init /\ fetched = [w \in Workers |-> <<>>] /\ merged = <<>>

\* Only array_2d_agg_transfn takes a row from the scan.
Fetching ==
  \/ UNCHANGED <<unclaimed, fetched>>
  \/ \E w \in Workers, r \in unclaimed \ unclaimed' :
       /\ state'[w] # state[w]
       /\ fetched' = [fetched EXCEPT ![w] = Append(@, r)]

\* Only array_2d_agg_combine is done with a state that was sent.
Arrives(w) == pc[w] = "sent" /\ pc'[w] = "done"
Merging ==
  \/ (\A w \in Workers : ~ Arrives(w)) /\ UNCHANGED merged
  \/ \E w \in Workers : Arrives(w) /\ merged' = Append(merged, w)

OrderNext == Next /\ Fetching /\ Merging

orderVars == <<vars, fetched, merged>>

OrderSpec == OrderInit /\ [][OrderNext]_orderVars /\ WF_orderVars(OrderNext)

\* The rows of the processes, one process after the other.
OneAfterAnother(order) ==
  LET upto[i \in 0 .. Len(order)] ==
        IF i = 0 THEN <<>> ELSE upto[i - 1] \o fetched[order[i]]
  IN  upto[Len(order)]

\* However the states are grown, sent and merged, the rows that one process has
\* fetched stay together in the result and in the order of its scan, and the
\* processes that have any follow each other as their states were merged: only
\* that order is left to chance, and a serial plan keeps the order of the scan.
FetchOrderKept ==
  phase = "done" /\ result # NULL =>
    /\ result.data = OneAfterAnother(merged)
    /\ \A i, j \in DOMAIN merged : merged[i] = merged[j] => i = j
    /\ \A w \in Workers : fetched[w] # <<>> => \E i \in DOMAIN merged : merged[i] = w

=============================================================================
