---------------------------- MODULE GraphPasses ----------------------------
(***************************************************************************)
(* The passes over a graph before and after the search.  load_onnx puts    *)
(* the nodes of the ONNX model in an order in which inputs come first.     *)
(* optimize ends with preprocess_weights, which removes the weights that   *)
(* nothing uses any more, and the exporter walks the operators in the      *)
(* order of get_operator_list.                                             *)
(*                                                                         *)
(* Graphs are sets of edges <<src, dst, i>> as in GraphXfer.  Operators    *)
(* are guids; the sources GUID_INPUT and GUID_WEIGHT feed the inputs and   *)
(* the weights.                                                            *)
(***************************************************************************)
EXTENDS Integers, Sequences, FiniteSets

CONSTANTS
  Graphs,      \* the models, and the graphs the search may return
  GUID_INPUT,
  GUID_WEIGHT

VARIABLES
  origin,   \* the model, or the graph preprocess_weights is called on
  graph,    \* the nodes of the model, or newGraph
  todos,    \* edges an operator still waits for
  list,     \* node_list; weightList, then opList
  i,        \* operators of list that have been taken
  phase     \* "onnx", "reordered"; "weights", "remove", "order", "done"

vars == <<origin, graph, todos, list, i, phase>>

Ops(g) == {e[2] : e \in g}
Preserved == {GUID_INPUT, GUID_WEIGHT}

\* Every edge comes from an operator of the graph or from a preserved guid and
\* leads to an operator.  A model is acyclic, and so is what the search returns
\* (has_loop): among any operators one reads none of the others.
ASSUME GraphsAssumption ==
  /\ GUID_INPUT # GUID_WEIGHT
  /\ \A g \in Graphs :
       /\ IsFiniteSet(g)
       /\ \A e \in g : e[2] \in Nat \ Preserved /\ e[1] \in Ops(g) \cup Preserved
       /\ \A S \in SUBSET Ops(g) :
            S # {} => \E op \in S : \A e \in g : e[2] = op => e[1] \notin S

\* SortedDict and SortedSet: the elements in the order of the guids.
Sorted(S) ==
  CHOOSE q \in [1 .. Cardinality(S) -> S] : \A j, k \in DOMAIN q : j < k => q[j] < q[k]
Leaf(g, op) == \E e \in g : e[2] = op /\ e[1] \in Preserved

\* The edges an operator waits for; those from the sources in ready are not
\* counted.
Count(g, ready, op) == Cardinality({e \in g : e[2] = op /\ e[1] \notin ready})
Counts(g, ready) == [op \in Ops(g) |-> Count(g, ready, op)]
Waiting(g, ready) == Sorted({op \in Ops(g) : Count(g, ready, op) = 0})

EdgesTo(op, dst) == Cardinality({e \in graph : e[1] = op /\ e[2] = dst})

\* load_onnx: an operator is a node of the model and its guid the node's place
\* there; inputs and weights are no nodes, and nothing waits for them.
Reorder ==
  LET ready == Preserved \cup {op \in Ops(origin) : Leaf(origin, op)}
  IN  /\ graph = {e \in origin : ~ Leaf(origin, e[2])}
      /\ todos = Counts(graph, ready)
      /\ list = Waiting(graph, ready)
      /\ phase = "onnx"

\* preprocess_weights.  Step 1 clones the graph.  Step 2 folds nothing: its body
\* is commented out.  Then the operators fed by GUID_WEIGHT alone wait for nothing.
PreprocessWeights ==
  /\ graph = origin
  /\ todos = Counts(origin, {GUID_WEIGHT})
  /\ list = Waiting(origin, {GUID_WEIGHT})
  /\ phase = "weights"

Init ==
  /\ origin \in Graphs
  /\ i = 0
  /\ Reorder \/ PreprocessWeights

\* Mutant: an operator is ready after its first input.
TakeFirst ==
  LET op == list[i + 1]
      dsts == {e[2] : e \in {f \in graph : f[1] = op}}
  IN  /\ i < Len(list)
      /\ i' = i + 1
      /\ todos' = [d \in DOMAIN todos |-> todos[d] - EdgesTo(op, d)]
      /\ list' = list \o Sorted(dsts)
      /\ UNCHANGED <<origin, graph, phase>>

\* One turn of the loop over list: the edges out of an operator are counted
\* down, and the operators that wait for nothing more are appended.
Take ==
  LET op == list[i + 1]
      dsts == {e[2] : e \in {f \in graph : f[1] = op}}
  IN  /\ i < Len(list)
      /\ i' = i + 1
      /\ todos' = [d \in DOMAIN todos |-> todos[d] - EdgesTo(op, d)]
      /\ list' = list \o Sorted({d \in dsts : todos[d] = EdgesTo(op, d)})
      /\ UNCHANGED <<origin, graph, phase>>

TakeNode == phase = "onnx" /\ Take

\* assert len(node_list) == len(model.graph.node)
Reordered ==
  /\ phase = "onnx"
  /\ i = Len(list)
  /\ phase' = "reordered"
  /\ UNCHANGED <<origin, graph, todos, list, i>>

CollectWeight == phase = "weights" /\ Take

WeightsCollected ==
  /\ phase = "weights"
  /\ i = Len(list)
  /\ phase' = "remove"
  /\ UNCHANGED <<origin, graph, todos, list, i>>

weightOps == {list[k] : k \in DOMAIN list}

\* Mutant: an operator without consumers is removed whatever it depends on.
RemovableAny == {op \in Ops(graph) : \A e \in graph : e[1] # op}

Removable == {op \in Ops(graph) : op \in weightOps /\ \A e \in graph : e[1] # op}

\* Mutant: the edges of a removed operator stay in the graph.
RemoveNodeKept ==
  /\ phase = "remove"
  /\ Removable # {}
  /\ UNCHANGED vars

\* remove_node of the first operator that can be removed, and again from the
\* start of the loop.
RemoveNode ==
  /\ phase = "remove"
  /\ Removable # {}
  /\ graph' = {e \in graph : e[2] # Sorted(Removable)[1]}
  /\ UNCHANGED <<origin, todos, list, i, phase>>

\* preprocess_weights returns; get_operator_list starts.
Order ==
  /\ phase = "remove"
  /\ Removable = {}
  /\ phase' = "order"
  /\ todos' = Counts(graph, Preserved)
  /\ list' = Waiting(graph, Preserved)
  /\ i' = 0
  /\ UNCHANGED <<origin, graph>>

TakeOperator == phase = "order" /\ Take

Listed ==
  /\ phase = "order"
  /\ i = Len(list)
  /\ phase' = "done"
  /\ UNCHANGED <<origin, graph, todos, list, i>>

Next ==
  \/ TakeNode \/ Reordered
  \/ CollectWeight \/ WeightsCollected \/ RemoveNode \/ Order \/ TakeOperator \/ Listed

Spec == Init /\ [][Next]_vars /\ WF_vars(Next)

----------------------------------------------------------------------------

\* The operators that depend on an input, and those that one of them depends on:
\* the least sets closed under the edges.
FromInput(g) ==
  {op \in Ops(g) : \A S \in SUBSET Ops(g) :
     (\A e \in g : e[1] \in S \cup {GUID_INPUT} => e[2] \in S) => op \in S}
NeededBy(g, D) ==
  {op \in Ops(g) : \A S \in SUBSET Ops(g) :
     D \subseteq S /\ (\A e \in g : e[2] \in S => e[1] \in S \cup Preserved) => op \in S}

\* The loops stay within the list, and an operator is never counted below zero.
TypeOK ==
  /\ graph \subseteq origin
  /\ i \in 0 .. Len(list)
  /\ \A op \in DOMAIN todos : todos[op] >= 0
  /\ phase \in {"onnx", "reordered", "weights", "remove", "order", "done"}

\* "Remove isolated nodes": preprocess_weights removes exactly the operators
\* that are computed from weights alone and that nothing computed from an input
\* depends on; what is left keeps all its inputs.
KeepsWhatInputsNeed ==
  phase = "done" =>
    /\ Ops(graph) = NeededBy(origin, FromInput(origin))
    /\ \A e \in origin : e[2] \in Ops(graph) => e \in graph

\* load_onnx handles every node of the model, and get_operator_list gives the
\* exporter every operator that is left, once and after the operators it reads;
\* as both assert, the list is as long as the graph.  (get_operator_list then
\* leaves inputs and weights out, which keeps the order of the others.)
ProducersFirst ==
  /\ TypeOK
  /\ phase \in {"reordered", "done"} =>
       /\ Len(list) = Cardinality(Ops(graph))
       /\ \A op \in Ops(graph) : \E k \in DOMAIN list : list[k] = op
       /\ \A k \in DOMAIN list : \A e \in graph :
            e[2] = list[k] /\ e[1] \in Ops(graph) => \E j \in 1 .. k - 1 : list[j] = e[1]

\* All the loops end.
PassesEnd == <>(phase \in {"reordered", "done"})

=============================================================================
