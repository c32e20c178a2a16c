---------------------------- MODULE ParallelQuery ----------------------------
(***************************************************************************)
(* The weight pool and parallel query.  WEIGHT_POOL is a variable of the   *)
(* process: _PG_init makes an empty one in every backend that loads the    *)
(* library, parallel workers included.  The extension's SQL script         *)
(* declares load_model and the operators that call get_weight PARALLEL     *)
(* SAFE, so a Gather plan may evaluate them in any of its processes.       *)
(***************************************************************************)
EXTENDS Naturals, FiniteSets

CONSTANTS
  Workers,   \* background worker slots
  Leader,    \* the session's own backend
  Models,    \* names of weight tables
  ScanRows,  \* rows of the table a query scans
  NONE

Queries == [kind : {"load", "infer"}, model : Models]

ASSUME ProcessAssumption ==
  Leader \notin Workers /\ NONE \notin Models /\ NONE \notin Queries

Processes == Workers \cup {Leader}

VARIABLES
  pools,    \* the models in each process's WEIGHT_POOL
  query,    \* the query being run: "load" or "infer", and its model
  team,     \* the workers launched for it
  left,     \* the rows nobody has fetched yet
  outcome,  \* of the last query: "ok" or the process that raised an ERROR
  loaded    \* history: who has run load_model for a model, with no error

queryVars == <<pools, query, team, left, outcome, loaded>>

NoOutcome == [status |-> "ok", by |-> Leader, model |-> NONE]

QueryInit ==
  /\ pools = [p \in Processes |-> {}]
  /\ query = NONE
  /\ team = {}
  /\ left = {}
  /\ outcome = NoOutcome
  /\ loaded = [m \in Models |-> {}]

\* The planner may choose a parallel plan for every query over a table, and as
\* many workers are launched as there are slots, or none.  _PG_init runs in each.
Start ==
  /\ query = NONE
  /\ \E kind \in {"load", "infer"}, m \in Models, W \in SUBSET Workers :
       /\ query' = [kind |-> kind, model |-> m]
       /\ team' = W
  /\ left' = ScanRows
  /\ outcome' = NoOutcome
  /\ UNCHANGED <<pools, loaded>>

\* load_model, for a row this process has fetched.
load_model(p) ==
  /\ query # NONE /\ query.kind = "load"
  /\ \E r \in left : left' = left \ {r}
  /\ pools' = [pools EXCEPT ![p] = @ \cup {query.model}]
  /\ loaded' = [loaded EXCEPT ![query.model] = @ \cup {p}]
  /\ UNCHANGED <<query, team, outcome>>

\* An operator whose get_weight finds the model.
Infer(p) ==
  /\ query # NONE /\ query.kind = "infer"
  /\ query.model \in pools[p]
  /\ \E r \in left : left' = left \ {r}
  /\ UNCHANGED <<pools, query, team, outcome, loaded>>

\* Mutant: the pool is made in a context of the query.
EndQueryContext ==
  /\ query' = NONE
  /\ team' = {}
  /\ left' = {}
  /\ pools' = [p \in Processes |-> {}]

\* Mutant: a worker outlives its query.
EndQueryWorkers ==
  /\ query' = NONE
  /\ team' = {}
  /\ left' = {}
  /\ pools' = pools

\* The workers exit with the query, and their pools with them.
EndQuery ==
  /\ query' = NONE
  /\ team' = {}
  /\ left' = {}
  /\ pools' = [p \in Processes |-> IF p = Leader THEN pools[Leader] ELSE {}]

\* elog(ERROR, "%s_val not found") ends the query in all its processes.
NotFound(p) ==
  /\ query # NONE /\ query.kind = "infer"
  /\ query.model \notin pools[p]
  /\ left # {}
  /\ outcome' = [status |-> "error", by |-> p, model |-> query.model]
  /\ EndQuery
  /\ UNCHANGED loaded

Finish ==
  /\ query # NONE
  /\ left = {}
  /\ outcome' = NoOutcome
  /\ EndQuery
  /\ UNCHANGED loaded

\* The client disconnects and connects again: a new backend.
NewBackend ==
  /\ query = NONE
  /\ pools' = [pools EXCEPT ![Leader] = {}]
  /\ loaded' = [m \in Models |-> {}]
  /\ outcome' = NoOutcome
  /\ UNCHANGED <<query, team, left>>

QueryNext ==
  \/ Start \/ Finish \/ NewBackend
  \/ \E p \in team \cup {Leader} : load_model(p) \/ Infer(p) \/ NotFound(p)

QuerySpec == QueryInit /\ [][QueryNext]_queryVars

----------------------------------------------------------------------------

\* The variables have their types, and only the workers of a query have pools
\* of their own, which go when it ends.
QueryTypeOK ==
  /\ pools \in [Processes -> SUBSET Models]
  /\ query = NONE \/ query \in Queries
  /\ team \subseteq Workers /\ left \subseteq ScanRows
  /\ \A w \in Workers \ team : pools[w] = {}

\* "PARALLEL RESTRICTED if they access ... backend-local state that the system
\* cannot synchronize": when a query fails because get_weight finds nothing, for
\* a model that load_model has loaded in this session, a parallel worker is the
\* reason: it evaluated the operator, or the load.
FailuresAreWorkers ==
  outcome.status = "error" /\ loaded[outcome.model] # {} =>
    outcome.by \in Workers \/ Leader \notin loaded[outcome.model]

=============================================================================
