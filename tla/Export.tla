------------------------------- MODULE Export -------------------------------
(***************************************************************************)
(* nUDF.export, on the graph that load_onnx has built: one common table    *)
(* expression (CTE) of the query for each operator, in the order of        *)
(* get_operator_list.  Biases, transposed weights and reshapes other than  *)
(* the flattening one have no SQL: the exporter skips them, and notes for  *)
(* some of them what their readers should read instead.                    *)
(*                                                                         *)
(* A name is a tuple that says what the string is made of: the operator's  *)
(* guid and, for a weight table, the operator that reads it.               *)
(***************************************************************************)
EXTENDS OpMemo, Functions

VARIABLES
  phase,         \* "load", "export", "done" or "IndexError"
  opList,        \* the operators still to export
  ctes,          \* the query so far: [op, reads], in order
  skip_nodes,    \* from an output's name to the name to read instead
  output_guids,  \* the outputs nothing exported has read, in order
  tables         \* the keys of table_mapping_weight

exportVars == <<opList, ctes, skip_nodes, output_guids, tables>>
allVars == <<vars, phase, exportVars>>

Type(n) == nodes[n].ptr.type
In(n, i) == nodes[n].in[i]

\* The elements of s that are in S, in the order of s.
Only(s, S) ==
  LET kept[j \in 0 .. Len(s)] ==
        IF j = 0 THEN <<>>
        ELSE IF s[j] \in S THEN Append(kept[j - 1], s[j]) ELSE kept[j - 1]
  IN  kept[Len(s)]

guids == [n \in DOMAIN nodes |-> n]
Ready(done) == {n \in DOMAIN nodes : \A i \in DOMAIN nodes[n].in : In(n, i) \in done}

\* get_operator_list, whose loop GraphPasses models: breadth first from the
\* inputs and the weights, a node when its last source is done.
Ordered ==
  LET list[k \in 0 .. Len(nodes)] ==
        IF k = 0 THEN Only(guids, Ready({}))
        ELSE LET before == list[k - 1]
             IN  before \o Only(guids, Ready({before[j] : j \in 1 .. k}) \ Range(before))
  IN  list[Len(nodes)]

Operators == {n \in DOMAIN nodes : Type(n) \notin {"input", "weight"}}
get_operator_list == Only(Ordered, Operators)

\* del opList[-1]
ToExport == SubSeq(get_operator_list, 1, Len(get_operator_list) - 1)

----------------------------------------------------------------------------
(* Names *)

_output_tensor_name(n) == <<"fwd", n>>

\* A weight's table is named after the operator and the input that read it.
_input_tensor_name(n, i) ==
  CASE Type(In(n, i)) = "input" -> <<"input_feature_map">>
    [] Type(In(n, i)) = "weight" -> <<"weight", n, i>>
    [] OTHER -> _output_tensor_name(In(n, i))

\* get_input_edges, without the weight of a pool.
InputEdges(n) == IF Type(n) = "pool2d_avg" THEN 1 .. 1 ELSE DOMAIN nodes[n].in
Inputs(n) == [i \in InputEdges(n) |-> _input_tensor_name(n, i)]

Through(name) == IF name \in DOMAIN skip_nodes THEN skip_nodes[name] ELSE name

\* inputs[1].startswith("Reshape"): the bias of a convolution.
AddsBias(n) == Type(n) = "ew_add" /\ Type(In(n, 2)) = "reshape"

Skipped(n) == Type(n) = "transpose" \/ AddsBias(n)
Unwritten(n) == Type(n) = "reshape" /\ Len(Shape(graph, n)) # 2

\* Mutant: relu reads what the graph says.
FromPlainRelu(n) ==
  CASE Type(n) = "ew_add" -> <<Through(Inputs(n)[1]), Through(Inputs(n)[2])>>
    [] Type(n) = "matmul" -> <<Inputs(n)[1], Through(Inputs(n)[2])>>
    [] OTHER -> Inputs(n)

\* The names in the FROM clause.
From(n) ==
  CASE Type(n) = "relu" -> <<Through(Inputs(n)[1])>>
    [] Type(n) = "ew_add" -> <<Through(Inputs(n)[1]), Through(Inputs(n)[2])>>
    [] Type(n) = "matmul" -> <<Inputs(n)[1], Through(Inputs(n)[2])>>
    [] OTHER -> Inputs(n)

----------------------------------------------------------------------------

ExportInit ==
  /\ Init
  /\ phase = "load"
  /\ opList = <<>> /\ ctes = <<>> /\ skip_nodes = <<>> /\ output_guids = <<>>
  /\ tables = {}

Load == phase = "load" /\ Next /\ UNCHANGED <<phase, exportVars>>

Start ==
  /\ phase = "load"
  /\ IF get_operator_list = <<>>
     THEN phase' = "IndexError" /\ UNCHANGED opList
     ELSE phase' = "export" /\ opList' = ToExport
  /\ UNCHANGED <<vars, ctes, skip_nodes, output_guids, tables>>

\* Mutant: an output stays an output of the model when it is read.
TakeKept(n) ==
  /\ opList' = Tail(opList)
  /\ output_guids' = Append(output_guids, n)
  /\ tables' = tables \cup {name \in Range(Inputs(n)) :
                              name[1] = "weight" /\ Type(n) \in {"conv2d", "transpose"}}
  /\ UNCHANGED <<vars, phase>>

\* What every turn of the loop does, whatever it writes.
Take(n) ==
  /\ opList' = Tail(opList)
  /\ output_guids' =
       Append(Only(output_guids, DOMAIN nodes \ {In(n, i) : i \in InputEdges(n)}), n)
  /\ tables' = tables \cup {name \in Range(Inputs(n)) :
                              name[1] = "weight" /\ Type(n) \in {"conv2d", "transpose"}}
  /\ UNCHANGED <<vars, phase>>

Write(n) ==
  /\ ~ Skipped(n) /\ ~ Unwritten(n)
  /\ Take(n)
  /\ ctes' = Append(ctes, [op |-> n, reads |-> From(n)])
  /\ UNCHANGED skip_nodes

Skip(n) ==
  /\ Skipped(n)
  /\ Take(n)
  /\ skip_nodes' = [name \in DOMAIN skip_nodes \cup {_output_tensor_name(n)} |->
                      IF name = _output_tensor_name(n) THEN Inputs(n)[1]
                      ELSE skip_nodes[name]]
  /\ UNCHANGED ctes

Continue(n) ==
  /\ Unwritten(n)
  /\ Take(n)
  /\ UNCHANGED <<ctes, skip_nodes>>

\* graph_outputs[0] is what the last SELECT reads.
Finish ==
  /\ phase = "export"
  /\ opList = <<>>
  /\ phase' = IF output_guids = <<>> THEN "IndexError" ELSE "done"
  /\ UNCHANGED <<vars, exportVars>>

ExportNext ==
  \/ Load \/ Start \/ Finish
  \/ /\ phase = "export"
     /\ opList # <<>>
     /\ LET n == Head(opList) IN Write(n) \/ Skip(n) \/ Continue(n)

ExportSpec == ExportInit /\ [][ExportNext]_allVars

----------------------------------------------------------------------------
(* What the query means *)

Written(k) == {ctes[j].op : j \in 1 .. k}

\* A name in the k-th CTE is a table or an earlier CTE.
Defined(k, name) ==
  CASE name[1] = "fwd" -> name[2] \in Written(k - 1)
    [] name[1] = "weight" -> name \in tables
    [] OTHER -> TRUE

Dangling ==
  \/ \E k \in DOMAIN ctes : \E name \in Range(ctes[k].reads) : ~ Defined(k, name)
  \/ Head(output_guids) \notin Written(Len(ctes))

\* What a CTE computes: a term over the image and the weights.
QueryValue ==
  LET Of(k, val, name) ==
        CASE name[1] = "fwd" -> val[CHOOSE j \in 1 .. k : ctes[j].op = name[2]]
          [] name[1] = "weight" -> <<"weight", In(name[2], name[3])>>
          [] OTHER -> <<"image">>
      val[k \in DOMAIN ctes] ==
        <<Type(ctes[k].op), [i \in DOMAIN ctes[k].reads |-> Of(k, val, ctes[k].reads[i])]>>
  IN  val[CHOOSE j \in DOMAIN ctes : ctes[j].op = Head(output_guids)]

\* What an operator of the model computes, if a bias is 0 and a transposed
\* weight is left to mvm.
ModelValue(n) ==
  LET val[m \in DOMAIN nodes] ==
        CASE Type(m) = "input" -> <<"image">>
          [] Type(m) = "weight" -> <<"weight", m>>
          [] Skipped(m) -> val[In(m, 1)]
          [] OTHER -> <<Type(m), [i \in InputEdges(m) |-> val[In(m, i)]]>>
  IN  val[n]

\* Something the FROM clauses can name.
Nameable(n) == Type(n) = "input" \/ ~ (Type(n) = "weight" \/ Skipped(n) \/ Unwritten(n))

\* Input i of an operator is a CTE or a table; or the kernel of a convolution;
\* or one step behind a bias that relu or madd reads through, or behind a
\* transposed matrix.
Readable(n, i) ==
  LET s == In(n, i)
  IN  \/ Nameable(s)
      \/ Type(s) = "weight" /\ Type(n) = "conv2d"
      \/ AddsBias(s) /\ Nameable(In(s, 1)) /\ Type(n) \in {"relu", "ew_add"}
      \/ Type(s) = "transpose" /\ Type(In(s, 1)) = "weight" /\ Type(n) = "matmul" /\ i = 2

Exported == Range(ToExport)
Result == Head(output_guids)
Sinks == {n \in Features \ {1} : \A m \in DOMAIN nodes : n \notin Range(nodes[m].in)}

\* export gives the database a query in which every FROM names a table that is
\* written or a CTE before it exactly for the models whose operators read what
\* Readable says: a bias, a matrix or a reshaped tensor read by any other
\* operator, or through two skipped ones, leaves a name that nothing defines.
ReferencesDefined ==
  phase = "done" =>
    (~ Dangling <=>
       /\ \A n \in Exported : Nameable(n) => \A i \in InputEdges(n) : Readable(n, i)
       /\ Nameable(Result))

\* A query with no dangling name computes what the graph does, but for the biases
\* of convolutions; and its result is an input of the model's last operator,
\* which "del opList[-1]" leaves out, if the model has one output.
QueryComputesModel ==
  phase = "done" =>
    /\ ~ Dangling => QueryValue = ModelValue(Result)
    /\ \A s \in Sinks : Sinks = {s} => Result \in Range(nodes[s].in)

=============================================================================
