-------------------------- MODULE ExportQueryProofs --------------------------
(***************************************************************************)
(* For every ONNX model: the query that the export writes reads only names *)
(* that are defined where they are read, and computes what the graph does. *)
(***************************************************************************)
EXTENDS ExportProofs

-----------------------------------------------------------------------------
(* The loop of export *)

Plain(n) == ~ Skipped(n) /\ ~ Unwritten(n)

\* What the name of an input becomes when all that is skipped before it is known.
Behind(n, i) == IF Skipped(In(n, i)) THEN Inputs(In(n, i))[1] ELSE Inputs(n)[i]
Reads(n) ==
  CASE Type(n) = "relu" -> <<Behind(n, 1)>>
    [] Type(n) = "ew_add" -> <<Behind(n, 1), Behind(n, 2)>>
    [] Type(n) = "matmul" -> <<Inputs(n)[1], Behind(n, 2)>>
    [] OTHER -> Inputs(n)

\* The list F goes with the graph.
ListsOps(F) ==
  /\ IsSeq(F) /\ Once(F)
  /\ \A a \in 1 .. Len(F) : F[a] \in Operators
  /\ \A a \in 1 .. Len(F) : \A i \in 1 .. NumInputs(Type(F[a])) :
       In(F[a], i) \in Operators => \E c \in 1 .. Len(F) : c < a /\ F[c] = In(F[a], i)

RestOK(F, k) ==
  /\ k \in 0 .. Len(F) /\ IsSeq(opList) /\ Len(opList) = Len(F) - k
  /\ \A j \in 1 .. Len(opList) : opList[j] = F[k + j]

\* A CTE was written with all plain operators before it.
CteOK(F, k, c) ==
  \E a \in 1 .. k :
    /\ ctes[c].op = F[a] /\ ctes[c].reads = Reads(F[a]) /\ Plain(F[a])
    /\ Written(c - 1) = {n \in Firsts(F, a - 1) : Plain(n)}

CtesOK(F, k) ==
  /\ IsSeq(ctes)
  /\ \A c \in 1 .. Len(ctes) : CteOK(F, k, c)
  /\ Written(Len(ctes)) = {n \in Firsts(F, k) : Plain(n)}

SkipsOK(F, k) ==
  /\ \A name : name \in DOMAIN skip_nodes
               <=> \E n \in Firsts(F, k) : Skipped(n) /\ name = _output_tensor_name(n)
  /\ \A n \in Firsts(F, k) : Skipped(n) => skip_nodes[_output_tensor_name(n)] = Inputs(n)[1]

OutputsOK(F, k) ==
  /\ IsSeq(output_guids)
  /\ \A m : Lists(output_guids, m)
            <=> /\ m \in Firsts(F, k)
                /\ \A n \in Firsts(F, k) : \A i \in InputEdges(n) : In(n, i) # m

TablesOK(F, k) ==
  \A name : name \in tables
            <=> \E n \in Firsts(F, k) : /\ Type(n) \in {"conv2d", "transpose"}
                                        /\ name \in Range(Inputs(n)) /\ name[1] = "weight"

LoopOK(F, k) ==
  RestOK(F, k) /\ CtesOK(F, k) /\ SkipsOK(F, k) /\ OutputsOK(F, k) /\ TablesOK(F, k)

\* The loop has done k turns.
ExportInv ==
  /\ BuildInv
  /\ phase = "load" => ctes = <<>> /\ skip_nodes = <<>> /\ output_guids = <<>> /\ tables = {}
  /\ phase = "export" => get_operator_list # <<>> /\ \E k : LoopOK(ToExport, k)
  /\ phase = "done" => /\ get_operator_list # <<>> /\ output_guids # <<>>
                       /\ LoopOK(ToExport, Len(ToExport))

\* What is said of the graph stays true while the graph stays.
LEMMA GraphStays ==
  ASSUME nodes' = nodes, memo' = memo
  PROVE  /\ get_operator_list' = get_operator_list /\ Operators' = Operators
         /\ \A n : Type(n)' = Type(n) /\ Inputs(n)' = Inputs(n) /\ InputEdges(n)' = InputEdges(n)
         /\ \A n, i : In(n, i)' = In(n, i)
         /\ \A n : (Skipped(n)' <=> Skipped(n)) /\ (Unwritten(n)' <=> Unwritten(n))
<1>1. Ordered' = Ordered
  BY DEF Ordered, guids, Ready, In
<1>2. Operators' = Operators
  BY DEF Operators, Type
<1>3. get_operator_list' = get_operator_list
  BY <1>1, <1>2 DEF get_operator_list
<1>4. /\ \A n : Type(n)' = Type(n)
      /\ \A n, i : In(n, i)' = In(n, i)
  BY DEF Type, In
<1>5. \A n : InputEdges(n)' = InputEdges(n) /\ Inputs(n)' = Inputs(n)
  BY DEF Type, Inputs, InputEdges, _input_tensor_name, _output_tensor_name, In
<1>6. \A n : (Skipped(n)' <=> Skipped(n)) /\ (Unwritten(n)' <=> Unwritten(n))
  BY DEF Skipped, AddsBias, Unwritten, Type, In, Shape, graph
<1> QED BY <1>2, <1>3, <1>4, <1>5, <1>6, Zenon

\* ... and so does the list to export, and what the operators read.
LEMMA ListStays ==
  ASSUME nodes' = nodes, memo' = memo
  PROVE  /\ ToExport' = ToExport /\ \A n : (Plain(n)' <=> Plain(n)) /\ Reads(n)' = Reads(n)
         /\ \A F : ListsOps(F) => ListsOps(F)'
<1>1. ToExport' = ToExport
  BY GraphStays DEF ToExport
<1>2. \A n : Plain(n)' <=> Plain(n)
  BY GraphStays, Zenon DEF Plain
<1>3. \A n, i : Behind(n, i)' = Behind(n, i)
  BY DEF Behind, Skipped, AddsBias, Type, Inputs, InputEdges, _input_tensor_name,
         _output_tensor_name, In
<1>4. \A n : Reads(n)' = Reads(n)
  BY <1>3, GraphStays DEF Reads
<1>5. ASSUME NEW F, ListsOps(F) PROVE ListsOps(F)'
  BY <1>5 DEF ListsOps, Operators, Type, In
<1> QED BY <1>1, <1>2, <1>4, <1>5, Zenon

\* What "del opList[-1]" leaves.
LEMMA ToExportIs ==
  ASSUME GraphOK, get_operator_list # <<>>
  PROVE  /\ ListsOps(ToExport)
         /\ LET L == get_operator_list
            IN  /\ Len(L) \in Nat \ {0} /\ Len(ToExport) = Len(L) - 1
                /\ \A a \in 1 .. Len(ToExport) : ToExport[a] = L[a]
<1> DEFINE L == get_operator_list
           F == ToExport
<1>1. /\ IsSeq(L) /\ Once(L)
      /\ \A x : Lists(L, x) <=> x \in Operators
      /\ \A a \in 1 .. Len(L) : \A i \in 1 .. NumInputs(Type(L[a])) :
           In(L[a], i) \in Operators => \E c \in 1 .. Len(L) : c < a /\ L[c] = In(L[a], i)
  BY OperatorList, Zenon
<1>2. F = SubSeq(L, 1, Len(L) - 1)
  BY Zenon DEF ToExport
<1> HIDE DEF L, F
<1>3. PICK T : L \in Seq(T)
  BY <1>1, Zenon DEF IsSeq
<1>4. Len(L) \in Nat \ {0}
  BY <1>3 DEF L
<1>5. F \in Seq(T) /\ Len(F) = Len(L) - 1 /\ \A a \in 1 .. Len(F) : F[a] = L[a]
  <2> DEFINE m == Len(L) - 1
  <2>1. m \in 0 .. Len(L)
    BY <1>4
  <2> HIDE DEF m
  <2>2. /\ SubSeq(L, 1, m) \in Seq(T) /\ Len(SubSeq(L, 1, m)) = m
        /\ \A a \in 1 .. m : SubSeq(L, 1, m)[a] = L[a]
    BY <1>3, <2>1
  <2>3. F = SubSeq(L, 1, m)
    BY <1>2, Zenon DEF m
  <2> QED BY <2>2, <2>3, Zenon DEF m
<1>6. IsSeq(F)
  BY <1>5, Zenon DEF IsSeq
<1>7. \A a \in 1 .. Len(F) : a \in 1 .. Len(L)
  BY <1>4, <1>5
<1>8. Once(F)
  BY <1>1, <1>5, <1>7, Zenon DEF Once
<1>9. \A a \in 1 .. Len(F) : F[a] \in Operators
  BY <1>1, <1>5, <1>7, Zenon DEF Lists
<1>10. ASSUME NEW a \in 1 .. Len(F), NEW i \in 1 .. NumInputs(Type(F[a])), In(F[a], i) \in Operators
       PROVE  \E c \in 1 .. Len(F) : c < a /\ F[c] = In(F[a], i)
  <2>1. F[a] = L[a]
    BY <1>5, Zenon
  <2>2. PICK c \in 1 .. Len(L) : c < a /\ L[c] = In(L[a], i)
    BY <1>1, <1>7, <1>10, <2>1, Zenon
  <2>3. c \in 1 .. Len(F)
    BY <1>4, <1>5, <2>2
  <2> QED BY <1>5, <2>1, <2>2, <2>3, Zenon
<1>11. ListsOps(F)
  BY <1>6, <1>8, <1>9, <1>10, Zenon DEF ListsOps
<1> QED BY <1>4, <1>5, <1>11, Zenon DEF L, F

\* A turn of the loop takes the next operator.
LEMMA TurnIs ==
  ASSUME NEW F, IsSeq(F), Once(F), NEW k, RestOK(F, k), opList # <<>>
  PROVE  /\ k \in Nat /\ k + 1 \in 1 .. Len(F) /\ Head(opList) = F[k + 1]
         /\ \A x : x \in Firsts(F, k + 1) <=> x \in Firsts(F, k) \/ x = F[k + 1]
         /\ F[k + 1] \notin Firsts(F, k)
         /\ opList' = Tail(opList) => RestOK(F, k + 1)'
<1>1. Len(F) \in Nat /\ k \in 0 .. Len(F) /\ IsSeq(opList) /\ Len(opList) = Len(F) - k
      /\ \A j \in 1 .. Len(opList) : opList[j] = F[k + j]
  BY LenIs, Zenon DEF RestOK
<1>2. PICK T : opList \in Seq(T)
  BY <1>1, Zenon DEF IsSeq
<1>3. Len(opList) \in Nat \ {0} /\ Head(opList) = opList[1]
  BY <1>2
<1>4. k \in Nat /\ k + 1 \in 1 .. Len(F) /\ 1 \in 1 .. Len(opList)
  BY <1>1, <1>3
<1>5. Head(opList) = F[k + 1]
  BY <1>1, <1>3, <1>4, Zenon
<1>6. ASSUME NEW x PROVE x \in Firsts(F, k + 1) <=> x \in Firsts(F, k) \/ x = F[k + 1]
  <2>1. \A j : j \in 1 .. (k + 1) <=> j \in 1 .. k \/ j = k + 1
    BY <1>4
  <2> QED BY <2>1, Zenon DEF Firsts
<1>7. F[k + 1] \notin Firsts(F, k)
  <2>1. \A j \in 1 .. k : j \in 1 .. Len(F) /\ j # k + 1
    BY <1>1, <1>4
  <2> QED BY <1>4, <2>1, Zenon DEF Firsts, Once
<1>8. ASSUME opList' = Tail(opList) PROVE RestOK(F, k + 1)'
  <2> DEFINE q == Tail(opList)
  <2>1. q \in Seq(T) /\ Len(q) = Len(opList) - 1 /\ \A j \in 1 .. Len(q) : q[j] = opList[j + 1]
    BY <1>2, <1>3
  <2>2. IsSeq(q)
    BY <2>1, Zenon DEF IsSeq
  <2> HIDE DEF q
  <2>3. k + 1 \in 0 .. Len(F) /\ Len(q) = Len(F) - (k + 1)
    BY <1>1, <1>4, <2>1
  <2>4. \A j \in 1 .. Len(q) : j + 1 \in 1 .. Len(opList) /\ k + (j + 1) = (k + 1) + j
    BY <1>1, <1>3, <2>1
  <2>5. \A j \in 1 .. Len(q) : q[j] = F[(k + 1) + j]
    BY <1>1, <2>1, <2>4
  <2>6. opList' = q
    BY <1>8, Zenon DEF q
  <2> QED BY <2>2, <2>3, <2>5, <2>6, Zenon DEF RestOK
<1> QED BY <1>4, <1>5, <1>6, <1>7, <1>8, Zenon

\* What it reads has been taken.
LEMMA SourcesTaken ==
  ASSUME NEW F, ListsOps(F), NEW k \in Nat, k + 1 \in 1 .. Len(F),
         NEW a \in 1 .. (k + 1), NEW i \in 1 .. NumInputs(Type(F[a])), In(F[a], i) \in Operators
  PROVE  In(F[a], i) \in Firsts(F, a - 1) /\ In(F[a], i) \in Firsts(F, k)
<1>1. Len(F) \in Nat /\ a \in 1 .. Len(F)
  BY LenIs DEF ListsOps
<1>2. PICK c \in 1 .. Len(F) : c < a /\ F[c] = In(F[a], i)
  BY <1>1, Zenon DEF ListsOps
<1>3. c \in 1 .. (a - 1) /\ c \in 1 .. k
  BY <1>1, <1>2
<1> QED BY <1>2, <1>3, Zenon DEF Firsts

\* get_input_edges gives inputs.
LEMMA EdgesAre ==
  ASSUME GraphOK, NEW n \in 1 .. Len(nodes)
  PROVE  /\ \A i \in InputEdges(n) : i \in 1 .. NumInputs(Type(n))
         /\ Type(n) # "pool2d_avg" => InputEdges(n) = 1 .. NumInputs(Type(n))
         /\ Type(n) = "pool2d_avg" => InputEdges(n) = 1 .. 1
<1>1. DOMAIN nodes[n].in = 1 .. NumInputs(Type(n))
  BY Zenon DEF GraphOK
<1>2. \A i \in 1 .. 1 : i \in 1 .. NumInputs("pool2d_avg")
  BY DEF NumInputs
<1> QED BY <1>1, <1>2, Zenon DEF InputEdges

\* What Append lists.
LEMMA AppendLists ==
  ASSUME NEW q, IsSeq(q), NEW x, NEW y
  PROVE  Lists(Append(q, x), y) <=> Lists(q, y) \/ y = x
<1> DEFINE p == Append(q, x)
           n == Len(q)
<1>1. n \in Nat
  BY LenIs, Zenon
<1>2. /\ IsSeq(p) /\ Len(p) = n + 1
      /\ \A i \in 1 .. n : p[i] = q[i]
      /\ p[n + 1] = x
  BY AppendIs
<1>3. \A i : i \in 1 .. (n + 1) <=> i \in 1 .. n \/ i = n + 1
  BY <1>1
<1> HIDE DEF p, n
<1>4. Lists(p, y) <=> (\E i \in 1 .. n : q[i] = y) \/ y = x
  BY <1>2, <1>3, Zenon DEF Lists
<1> QED BY <1>4, Zenon DEF Lists, p, n

\* The outputs after the turn: those that it does not read, and its own.
LEMMA OutputsStep ==
  ASSUME GraphOK, NEW F, ListsOps(F), NEW k, RestOK(F, k), opList # <<>>, OutputsOK(F, k),
         Take(F[k + 1])
  PROVE  OutputsOK(F, k + 1)'
<1> DEFINE n == F[k + 1]
           S == DOMAIN nodes \ {In(n, i) : i \in InputEdges(n)}
           q == Only(output_guids, S)
           D == Firsts(F, k)
<1>1. /\ k \in Nat /\ k + 1 \in 1 .. Len(F)
      /\ \A x : x \in Firsts(F, k + 1) <=> x \in D \/ x = n
      /\ n \notin D
  BY TurnIs, Zenon DEF ListsOps
<1>2. output_guids' = Append(q, n) /\ nodes' = nodes /\ memo' = memo
  BY DEF Take, vars
<1>3. /\ IsSeq(output_guids)
      /\ \A m : Lists(output_guids, m)
                <=> m \in D /\ \A d \in D : \A i \in InputEdges(d) : In(d, i) # m
  BY Zenon DEF OutputsOK
<1>4. Len(F) \in Nat /\ IsSeq(F) /\ Once(F)
  BY LenIs, Zenon DEF ListsOps
<1>5. ASSUME NEW d \in Firsts(F, k + 1)
      PROVE  d \in DOMAIN nodes /\ d \in Operators /\ \A i \in InputEdges(d) : In(d, i) # n
  <2>1. PICK a \in 1 .. (k + 1) : F[a] = d
    BY Zenon DEF Firsts
  <2>2. a \in 1 .. Len(F) /\ ~ (k + 1 < a)
    BY <1>1, <1>4
  <2>3. d \in Operators /\ n \in Operators
    BY <1>1, <2>1, <2>2, Zenon DEF ListsOps
  <2>4. d \in DOMAIN nodes /\ d \in 1 .. Len(nodes)
    BY <2>3, Zenon DEF Operators, GraphOK
  <2>5. ASSUME NEW i \in InputEdges(d), In(d, i) = n PROVE FALSE
    <3>1. i \in 1 .. NumInputs(Type(d))
      BY <2>4, EdgesAre, Zenon
    <3>2. PICK c \in 1 .. Len(F) : c < a /\ F[c] = n
      BY <2>1, <2>2, <2>3, <2>5, <3>1, Zenon DEF ListsOps
    <3>3. c = k + 1
      BY <1>1, <1>4, <3>2, Zenon DEF Once
    <3> QED BY <2>2, <3>2, <3>3, Zenon
  <2> QED BY <2>3, <2>4, <2>5, Zenon
<1>6. ASSUME NEW m PROVE Lists(output_guids', m)
        <=> /\ m \in Firsts(F, k + 1)
            /\ \A d \in Firsts(F, k + 1) : \A i \in InputEdges(d) : In(d, i) # m
  <2>1. IsSeq(q) /\ (Lists(q, m) <=> m \in S /\ Lists(output_guids, m))
    BY <1>3, OnlyKeeps, OnlyLists, Zenon
  <2> HIDE DEF q
  <2>2. Lists(output_guids', m) <=> Lists(q, m) \/ m = n
    BY <1>2, <2>1, AppendLists, Zenon
  <2>3. Lists(output_guids', m) <=> m = n \/ (m \in S /\ m \in D /\ \A d \in D : \A i \in InputEdges(d) : In(d, i) # m)
    BY <1>3, <2>1, <2>2, Zenon
  <2>4. CASE m = n
    BY <1>1, <1>5, <2>3, <2>4, Zenon
  <2>5. CASE m # n
    <3>1. m \in D => m \in DOMAIN nodes
      BY <1>1, <1>5, Zenon
    <3>2. m \in D => (m \in S <=> \A i \in InputEdges(n) : In(n, i) # m)
      BY <3>1, Zenon
    <3> HIDE DEF S, n, D
    <3> QED BY <1>1, <2>3, <2>5, <3>2, Zenon
  <2> QED BY <2>4, <2>5, Zenon
<1>7. IsSeq(output_guids')
  <2>1. IsSeq(q)
    BY <1>3, OnlyKeeps, Zenon
  <2> HIDE DEF q
  <2> QED BY <1>2, <2>1, AppendIs, Zenon
<1>8. \A d, i : InputEdges(d)' = InputEdges(d) /\ In(d, i)' = In(d, i)
  BY <1>2, GraphStays, Zenon
<1> QED BY <1>6, <1>7, <1>8 DEF OutputsOK

\* The tables after the turn.
LEMMA TablesStep ==
  ASSUME NEW F, IsSeq(F), Once(F), NEW k, RestOK(F, k), opList # <<>>, TablesOK(F, k),
         Take(F[k + 1])
  PROVE  TablesOK(F, k + 1)'
<1> DEFINE n == F[k + 1]
           D == Firsts(F, k)
           Has(d, name) == /\ Type(d) \in {"conv2d", "transpose"}
                           /\ name \in Range(Inputs(d)) /\ name[1] = "weight"
<1>1. \A x : x \in Firsts(F, k + 1) <=> x \in D \/ x = n
  BY TurnIs, Zenon
<1>2. nodes' = nodes /\ memo' = memo
  BY DEF Take, vars
<1>3. tables' = tables \cup {name \in Range(Inputs(n)) :
                               name[1] = "weight" /\ Type(n) \in {"conv2d", "transpose"}}
  BY Zenon DEF Take
<1>4. \A name : name \in tables' <=> name \in tables \/ Has(n, name)
  BY <1>3, Zenon
<1>5. \A name : name \in tables <=> \E d \in D : Has(d, name)
  BY Zenon DEF TablesOK
<1> HIDE DEF Has, n, D
<1>6. \A name : name \in tables' <=> \E d \in Firsts(F, k + 1) : Has(d, name)
  BY <1>1, <1>4, <1>5, Zenon
<1>7. \A d : Type(d)' = Type(d) /\ Inputs(d)' = Inputs(d)
  BY <1>2, GraphStays, Zenon
<1> QED BY <1>6, <1>7 DEF TablesOK, Has, Range

\* Names of different things are different.
LEMMA NamesDiffer ==
  /\ \A m, n : _output_tensor_name(m) = _output_tensor_name(n) => m = n
  /\ \A m, n, i : _output_tensor_name(m) # <<"weight", n, i>>
  /\ \A m : _output_tensor_name(m) # <<"input_feature_map">>
  /\ \A m : _output_tensor_name(m)[1] = "fwd" /\ _output_tensor_name(m)[2] = m
  /\ \A n, i : <<"weight", n, i>>[1] = "weight" /\ <<"weight", n, i>>[2] = n /\ <<"weight", n, i>>[3] = i
BY DEF _output_tensor_name

\* The name of an input.
LEMMA NameIs ==
  ASSUME GraphOK, NEW n \in 1 .. Len(nodes), NEW i \in InputEdges(n)
  PROVE  /\ Inputs(n)[i] = _input_tensor_name(n, i)
         /\ In(n, i) \in 1 .. Len(nodes)
         /\ Type(In(n, i)) = "input" => Inputs(n)[i] = <<"input_feature_map">>
         /\ Type(In(n, i)) = "weight" => Inputs(n)[i] = <<"weight", n, i>>
         /\ In(n, i) \in Operators => Inputs(n)[i] = _output_tensor_name(In(n, i))
         /\ \/ Type(In(n, i)) = "input" \/ Type(In(n, i)) = "weight"
            \/ In(n, i) \in Operators
         /\ Skipped(In(n, i)) => In(n, i) \in Operators
<1>1. Inputs(n)[i] = _input_tensor_name(n, i)
  BY Zenon DEF Inputs
<1>2. In(n, i) \in 1 .. (n - 1)
  BY EdgesAre, Zenon DEF GraphOK
<1>3. In(n, i) \in 1 .. Len(nodes)
  BY <1>2 DEF GraphOK
<1>4. In(n, i) \in Operators <=> Type(In(n, i)) # "input" /\ Type(In(n, i)) # "weight"
  BY <1>3 DEF GraphOK, Operators
<1>5. Skipped(In(n, i)) => Type(In(n, i)) # "input" /\ Type(In(n, i)) # "weight"
  BY DEF Skipped, AddsBias
<1>6. /\ Type(In(n, i)) = "input" => _input_tensor_name(n, i) = <<"input_feature_map">>
      /\ Type(In(n, i)) = "weight" => _input_tensor_name(n, i) = <<"weight", n, i>>
      /\ Type(In(n, i)) # "input" /\ Type(In(n, i)) # "weight" =>
           _input_tensor_name(n, i) = _output_tensor_name(In(n, i))
  BY DEF _input_tensor_name
<1> QED BY <1>1, <1>3, <1>4, <1>5, <1>6, Zenon

\* skip_nodes knows all that is skipped before the operator.
LEMMA ThroughIsBehind ==
  ASSUME GraphOK, NEW F, ListsOps(F), NEW k, RestOK(F, k), opList # <<>>, SkipsOK(F, k),
         NEW i \in InputEdges(F[k + 1])
  PROVE  Through(Inputs(F[k + 1])[i]) = Behind(F[k + 1], i)
<1> DEFINE n == F[k + 1]
           s == In(n, i)
           D == Firsts(F, k)
<1>1. k \in Nat /\ k + 1 \in 1 .. Len(F)
  BY TurnIs, Zenon DEF ListsOps
<1>2. n \in 1 .. Len(nodes)
  BY <1>1, Zenon DEF ListsOps, Operators, GraphOK
<1>3. /\ \A name : name \in DOMAIN skip_nodes
                   <=> \E m \in D : Skipped(m) /\ name = _output_tensor_name(m)
      /\ \A m \in D : Skipped(m) => skip_nodes[_output_tensor_name(m)] = Inputs(m)[1]
  BY Zenon DEF SkipsOK
<1>4. CASE s \notin Operators
  <2>1. \A m : Inputs(n)[i] # _output_tensor_name(m)
    BY <1>2, <1>4, NameIs, NamesDiffer
  <2>2. ~ Skipped(s)
    BY <1>2, <1>4, NameIs, Zenon
  <2> QED BY <1>3, <2>1, <2>2, Zenon DEF Through, Behind
<1>5. CASE s \in Operators
  <2>1. Inputs(n)[i] = _output_tensor_name(s)
    BY <1>2, <1>5, NameIs, Zenon
  <2>2. s \in D
    <3>1. i \in 1 .. NumInputs(Type(n)) /\ k + 1 \in 1 .. (k + 1)
      BY <1>1, <1>2, EdgesAre
    <3> QED BY <1>1, <1>5, <3>1, SourcesTaken, Zenon
  <2>3. _output_tensor_name(s) \in DOMAIN skip_nodes <=> Skipped(s)
    <3>1. ASSUME _output_tensor_name(s) \in DOMAIN skip_nodes PROVE Skipped(s)
      <4>1. PICK m \in D : Skipped(m) /\ _output_tensor_name(s) = _output_tensor_name(m)
        BY <1>3, <3>1, Zenon
      <4>2. s = m
        BY <4>1, NamesDiffer, Zenon
      <4> QED BY <4>1, <4>2, Zenon
    <3> QED BY <1>3, <2>2, <3>1, Zenon
  <2>4. Skipped(s) => skip_nodes[_output_tensor_name(s)] = Inputs(s)[1]
    BY <1>3, <2>2, Zenon
  <2> QED BY <2>1, <2>3, <2>4, Zenon DEF Through, Behind
<1> QED BY <1>4, <1>5, Zenon

\* The FROM clause says what the operator reads.
LEMMA FromIsReads ==
  ASSUME GraphOK, NEW F, ListsOps(F), NEW k, RestOK(F, k), opList # <<>>, SkipsOK(F, k)
  PROVE  From(F[k + 1]) = Reads(F[k + 1])
<1> DEFINE n == F[k + 1]
<1>1. k + 1 \in 1 .. Len(F)
  BY TurnIs, Zenon DEF ListsOps
<1>2. n \in 1 .. Len(nodes)
  BY <1>1, Zenon DEF ListsOps, Operators, GraphOK
<1>3. \A i \in InputEdges(n) : Through(Inputs(n)[i]) = Behind(n, i)
  BY ThroughIsBehind, Zenon
<1>4. /\ Type(n) = "relu" => 1 \in InputEdges(n)
      /\ Type(n) \in {"ew_add", "matmul"} => 1 \in InputEdges(n) /\ 2 \in InputEdges(n)
  BY <1>2, EdgesAre DEF NumInputs
<1> HIDE DEF n
<1>5. /\ Type(n) = "relu" => Through(Inputs(n)[1]) = Behind(n, 1)
      /\ Type(n) = "ew_add" => /\ Through(Inputs(n)[1]) = Behind(n, 1)
                               /\ Through(Inputs(n)[2]) = Behind(n, 2)
      /\ Type(n) = "matmul" => Through(Inputs(n)[2]) = Behind(n, 2)
  BY <1>3, <1>4
<1>6. From(n) = Reads(n)
  BY <1>5 DEF From, Reads
<1> QED BY <1>6, Zenon DEF n

\* skip_nodes after the turn.
LEMMA SkipsStep ==
  ASSUME NEW F, IsSeq(F), Once(F), NEW k, RestOK(F, k), opList # <<>>, SkipsOK(F, k),
         nodes' = nodes, memo' = memo,
         \/ ~ Skipped(F[k + 1]) /\ skip_nodes' = skip_nodes
         \/ Skip(F[k + 1])
  PROVE  SkipsOK(F, k + 1)'
<1> DEFINE n == F[k + 1]
           D == Firsts(F, k)
<1>1. (\A x : x \in Firsts(F, k + 1) <=> x \in D \/ x = n) /\ n \notin D
  BY TurnIs, Zenon
<1>2. /\ \A name : name \in DOMAIN skip_nodes
                   <=> \E m \in D : Skipped(m) /\ name = _output_tensor_name(m)
      /\ \A m \in D : Skipped(m) => skip_nodes[_output_tensor_name(m)] = Inputs(m)[1]
  BY Zenon DEF SkipsOK
<1> DEFINE E == Firsts(F, k + 1)
<1>3. /\ \A name : name \in DOMAIN skip_nodes'
                   <=> \E m \in E : Skipped(m) /\ name = _output_tensor_name(m)
      /\ \A m \in E : Skipped(m) => skip_nodes'[_output_tensor_name(m)] = Inputs(m)[1]
  <2> HIDE DEF D, E, n
  <2>1. CASE ~ Skipped(n) /\ skip_nodes' = skip_nodes
    BY <1>1, <1>2, <2>1, Zenon DEF E
  <2>2. CASE Skip(n)
    <3> DEFINE o == _output_tensor_name(n)
               f == [name \in DOMAIN skip_nodes \cup {o} |->
                       IF name = o THEN Inputs(n)[1] ELSE skip_nodes[name]]
    <3>1. skip_nodes' = f /\ Skipped(n)
      BY <2>2, Zenon DEF Skip
    <3>2. DOMAIN f = DOMAIN skip_nodes \cup {o} /\ f[o] = Inputs(n)[1]
          /\ \A name \in DOMAIN skip_nodes : name # o => f[name] = skip_nodes[name]
      BY Zenon
    <3>3. ASSUME NEW m \in D, Skipped(m) PROVE f[_output_tensor_name(m)] = Inputs(m)[1]
      <4>1. _output_tensor_name(m) # o /\ _output_tensor_name(m) \in DOMAIN skip_nodes
        BY <1>1, <1>2, <3>3, NamesDiffer, Zenon
      <4> QED BY <1>2, <3>2, <3>3, <4>1, Zenon
    <3> HIDE DEF f
    <3>4. \A name : name \in DOMAIN f <=> \E m \in E : Skipped(m) /\ name = _output_tensor_name(m)
      <4>1. \A name : name \in DOMAIN f <=> name \in DOMAIN skip_nodes \/ name = o
        BY <3>2, Zenon
      <4> QED BY <1>1, <1>2, <3>1, <4>1, Zenon DEF E
    <3>5. \A m \in E : Skipped(m) => f[_output_tensor_name(m)] = Inputs(m)[1]
      BY <1>1, <3>2, <3>3, Zenon DEF E
    <3> QED BY <3>1, <3>4, <3>5, Zenon
  <2> QED BY <2>1, <2>2, Zenon DEF n
<1>4. \A m : (Skipped(m)' <=> Skipped(m)) /\ Inputs(m)' = Inputs(m)
  BY GraphStays, Zenon
<1>5. \A m : _output_tensor_name(m)' = _output_tensor_name(m)
  BY DEF _output_tensor_name
<1> QED BY <1>3, <1>4, <1>5 DEF SkipsOK

\* The CTEs after a turn that writes none.
LEMMA CtesStay ==
  ASSUME NEW F, IsSeq(F), Once(F), NEW k, RestOK(F, k), opList # <<>>, CtesOK(F, k),
         nodes' = nodes, memo' = memo, ctes' = ctes, ~ Plain(F[k + 1])
  PROVE  CtesOK(F, k + 1)'
<1>1. k \in Nat /\ \A x : x \in Firsts(F, k + 1) <=> x \in Firsts(F, k) \/ x = F[k + 1]
  BY TurnIs, Zenon
<1>2. /\ IsSeq(ctes)
      /\ \A c \in 1 .. Len(ctes) : CteOK(F, k, c)
      /\ Written(Len(ctes)) = {n \in Firsts(F, k) : Plain(n)}
  BY Zenon DEF CtesOK
<1>3. \A n : (Plain(n)' <=> Plain(n)) /\ Reads(n)' = Reads(n)
  BY ListStays, Zenon
<1>4. \A c : Written(c)' = Written(c)
  BY DEF Written
<1>5. \A a \in 1 .. k : a \in 1 .. (k + 1)
  BY <1>1
<1>6. ASSUME NEW c \in 1 .. Len(ctes) PROVE CteOK(F, k + 1, c)'
  <2>1. PICK a \in 1 .. k :
          /\ ctes[c].op = F[a] /\ ctes[c].reads = Reads(F[a]) /\ Plain(F[a])
          /\ Written(c - 1) = {n \in Firsts(F, a - 1) : Plain(n)}
    BY <1>2, Zenon DEF CteOK
  <2>2. {n \in Firsts(F, a - 1) : Plain(n)'} = {n \in Firsts(F, a - 1) : Plain(n)}
    BY <1>3, Zenon
  <2>3. Written(c - 1)' = {n \in Firsts(F, a - 1) : Plain(n)'}
    BY <1>4, <2>1, <2>2, Zenon
  <2>4. a \in 1 .. (k + 1)
    BY <1>5, Zenon
  <2> QED BY <1>3, <2>1, <2>3, <2>4, Zenon DEF CteOK
<1>7. {n \in Firsts(F, k + 1) : Plain(n)'} = {n \in Firsts(F, k) : Plain(n)}
  BY <1>1, <1>3, Zenon
<1>8. (Written(Len(ctes)) = {n \in Firsts(F, k + 1) : Plain(n)})'
  BY <1>2, <1>4, <1>7, Zenon
<1> QED BY <1>2, <1>6, <1>8, Zenon DEF CtesOK

\* ... and after a turn that writes one.
LEMMA CtesStep ==
  ASSUME NEW F, IsSeq(F), Once(F), NEW k, RestOK(F, k), opList # <<>>, CtesOK(F, k),
         nodes' = nodes, memo' = memo, Plain(F[k + 1]),
         ctes' = Append(ctes, [op |-> F[k + 1], reads |-> Reads(F[k + 1])])
  PROVE  CtesOK(F, k + 1)'
<1> DEFINE x == F[k + 1]
           r == [op |-> x, reads |-> Reads(x)]
<1>0. PICK l : l = Len(ctes)
  OBVIOUS
<1>1. k \in Nat /\ \A y : y \in Firsts(F, k + 1) <=> y \in Firsts(F, k) \/ y = x
  BY TurnIs, Zenon
<1>2. /\ IsSeq(ctes)
      /\ \A c \in 1 .. l : CteOK(F, k, c)
      /\ Written(l) = {n \in Firsts(F, k) : Plain(n)}
  BY <1>0, Zenon DEF CtesOK
<1>3. \A n : (Plain(n)' <=> Plain(n)) /\ Reads(n)' = Reads(n)
  BY ListStays, Zenon
<1>4. l \in Nat
  BY <1>0, <1>2, LenIs, Zenon
<1>5. r.op = x /\ r.reads = Reads(x)
  OBVIOUS
<1>6. /\ IsSeq(ctes') /\ Len(ctes') = l + 1
      /\ \A c \in 1 .. l : ctes'[c] = ctes[c]
      /\ ctes'[l + 1] = r
  <2>1. ctes' = Append(ctes, r)
    BY Zenon
  <2> HIDE DEF r
  <2> QED BY <1>0, <1>2, <2>1, AppendIs
<1> HIDE DEF r
<1>7. ASSUME NEW c \in 0 .. l PROVE Written(c)' = Written(c)
  <2>1. \A j \in 1 .. c : j \in 1 .. l
    BY <1>4
  <2>2. \A j \in 1 .. c : ctes'[j].op = ctes[j].op
    BY <1>6, <2>1, Zenon
  <2> QED BY <2>2, Zenon DEF Written
<1>8. \A a \in 1 .. k : a \in 1 .. (k + 1)
  BY <1>1
<1>9. ASSUME NEW c \in 1 .. l PROVE CteOK(F, k + 1, c)'
  <2>1. PICK a \in 1 .. k :
          /\ ctes[c].op = F[a] /\ ctes[c].reads = Reads(F[a]) /\ Plain(F[a])
          /\ Written(c - 1) = {n \in Firsts(F, a - 1) : Plain(n)}
    BY <1>2, Zenon DEF CteOK
  <2>2. {n \in Firsts(F, a - 1) : Plain(n)'} = {n \in Firsts(F, a - 1) : Plain(n)}
    BY <1>3, Zenon
  <2>3. c - 1 \in 0 .. l
    BY <1>4
  <2>4. Written(c - 1)' = {n \in Firsts(F, a - 1) : Plain(n)'}
    BY <1>7, <2>1, <2>2, <2>3, Zenon
  <2>5. a \in 1 .. (k + 1) /\ ctes'[c] = ctes[c]
    BY <1>6, <1>8, Zenon
  <2> QED BY <1>3, <2>1, <2>4, <2>5, Zenon DEF CteOK
<1>10. CteOK(F, k + 1, l + 1)'
  <2>1. (l + 1) - 1 = l /\ (k + 1) - 1 = k /\ k + 1 \in 1 .. (k + 1) /\ l \in 0 .. l
    BY <1>1, <1>4
  <2>2. {n \in Firsts(F, k) : Plain(n)'} = {n \in Firsts(F, k) : Plain(n)}
    BY <1>3, Zenon
  <2>3. Written((l + 1) - 1)' = {n \in Firsts(F, (k + 1) - 1) : Plain(n)'}
    BY <1>2, <1>7, <2>1, <2>2
  <2>4. ctes'[l + 1].op = x /\ ctes'[l + 1].reads = Reads(x)' /\ Plain(x)'
    BY <1>3, <1>5, <1>6, Zenon
  <2> QED BY <2>1, <2>3, <2>4, Zenon DEF CteOK
<1>11. \A c \in 1 .. (l + 1) : c \in 1 .. l \/ c = l + 1
  BY <1>4
<1>12. Written(l + 1)' = {n \in Firsts(F, k + 1) : Plain(n)'}
  <2>1. \A j : j \in 1 .. (l + 1) <=> j \in 1 .. l \/ j = l + 1
    BY <1>4
  <2>2. l \in 0 .. l
    BY <1>4
  <2>3. \A y : y \in Written(l + 1)' <=> y \in Written(l)' \/ y = x
    BY <1>5, <1>6, <2>1, Zenon DEF Written
  <2>4. \A y : y \in Written(l + 1)' <=> (y \in Firsts(F, k) /\ Plain(y)) \/ y = x
    BY <1>2, <1>7, <2>2, <2>3, Zenon
  <2> HIDE DEF x
  <2>5. \A y : y \in Written(l + 1)' <=> y \in Firsts(F, k + 1) /\ Plain(y)'
    BY <1>1, <1>3, <2>4, Zenon DEF x
  <2>6. \A y : y \in {n \in Firsts(F, k + 1) : Plain(n)'} <=> y \in Firsts(F, k + 1) /\ Plain(y)'
    BY Zenon
  <2> QED BY <2>5, <2>6, Zenon
<1> QED BY <1>6, <1>9, <1>10, <1>11, <1>12, Zenon DEF CtesOK

\* Nothing changes.
LEMMA LoopStays ==
  ASSUME nodes' = nodes, memo' = memo, exportVars' = exportVars, NEW F, NEW k, LoopOK(F, k)
  PROVE  LoopOK(F, k)'
<1>1. /\ opList' = opList /\ ctes' = ctes /\ skip_nodes' = skip_nodes
      /\ output_guids' = output_guids /\ tables' = tables
  BY DEF exportVars
<1>2. /\ RestOK(F, k) /\ CtesOK(F, k) /\ SkipsOK(F, k) /\ OutputsOK(F, k) /\ TablesOK(F, k)
  BY Zenon DEF LoopOK
<1>3. /\ \A n : Type(n)' = Type(n) /\ Inputs(n)' = Inputs(n) /\ InputEdges(n)' = InputEdges(n)
      /\ \A n, i : In(n, i)' = In(n, i)
      /\ \A n : Skipped(n)' <=> Skipped(n)
      /\ \A n : (Plain(n)' <=> Plain(n)) /\ Reads(n)' = Reads(n)
  BY GraphStays, ListStays, Zenon
<1>4. RestOK(F, k)'
  BY <1>1, <1>2 DEF RestOK
<1>5. SkipsOK(F, k)'
  <2>1. \A m : _output_tensor_name(m)' = _output_tensor_name(m)
    BY DEF _output_tensor_name
  <2> QED BY <1>1, <1>2, <1>3, <2>1 DEF SkipsOK
<1>6. OutputsOK(F, k)'
  BY <1>1, <1>2, <1>3 DEF OutputsOK
<1>7. TablesOK(F, k)'
  BY <1>1, <1>2, <1>3 DEF TablesOK, Range
<1>8. CtesOK(F, k)'
  <2>1. \A c : Written(c)' = Written(c)
    BY <1>1 DEF Written
  <2>2. \A a : {n \in Firsts(F, a) : Plain(n)'} = {n \in Firsts(F, a) : Plain(n)}
    BY <1>3, Zenon
  <2>3. ASSUME NEW c \in 1 .. Len(ctes) PROVE CteOK(F, k, c)'
    <3>1. PICK a \in 1 .. k :
            /\ ctes[c].op = F[a] /\ ctes[c].reads = Reads(F[a]) /\ Plain(F[a])
            /\ Written(c - 1) = {n \in Firsts(F, a - 1) : Plain(n)}
      BY <1>2, Zenon DEF CtesOK, CteOK
    <3>2. Written(c - 1)' = {n \in Firsts(F, a - 1) : Plain(n)'}
      BY <2>1, <2>2, <3>1, Zenon
    <3> QED BY <1>1, <1>3, <3>1, <3>2, Zenon DEF CteOK
  <2>4. (Written(Len(ctes)) = {n \in Firsts(F, k) : Plain(n)})'
    <3>1. Written(Len(ctes)) = {n \in Firsts(F, k) : Plain(n)}
      BY <1>2, Zenon DEF CtesOK
    <3>2. Written(Len(ctes))' = Written(Len(ctes))
      BY <1>1 DEF Written
    <3> QED BY <2>2, <3>1, <3>2, Zenon
  <2> QED BY <1>1, <1>2, <2>3, <2>4, Zenon DEF CtesOK
<1> QED BY <1>4, <1>5, <1>6, <1>7, <1>8, Zenon DEF LoopOK

\* The loop starts with nothing done.
LEMMA LoopStarts ==
  ASSUME nodes' = nodes, memo' = memo, NEW F, IsSeq(F), opList' = F,
         ctes' = <<>>, skip_nodes' = <<>>, output_guids' = <<>>, tables' = {}
  PROVE  LoopOK(F, 0)'
<1>1. Len(F) \in Nat
  BY LenIs, Zenon
<1>2. Firsts(F, 0) = {}
  <2>1. \A j \in 1 .. 0 : FALSE
    OBVIOUS
  <2> QED BY <2>1, Zenon DEF Firsts
<1>3. IsSeq(<<>>) /\ Len(<<>>) = 0
  <2>1. <<>> \in Seq({}) /\ Len(<<>>) = 0
    OBVIOUS
  <2> QED BY <2>1, Zenon DEF IsSeq
<1>4. RestOK(F, 0)'
  <2>1. 0 \in 0 .. Len(F) /\ Len(F) = Len(F) - 0 /\ \A j \in 1 .. Len(F) : 0 + j = j
    BY <1>1
  <2> QED BY <2>1 DEF RestOK
<1>5. \A c \in 1 .. 0 : FALSE
  OBVIOUS
<1> DEFINE none == <<>>
<1>6. IsSeq(none) /\ Len(none) = 0 /\ ctes' = none /\ output_guids' = none
  BY <1>3, Zenon
<1>7. DOMAIN none = {}
  OBVIOUS
<1> HIDE DEF none
<1>8. CtesOK(F, 0)'
  <2>1. Written(Len(ctes))' = {}
    BY <1>5, <1>6, Zenon DEF Written
  <2>2. {n \in Firsts(F, 0) : Plain(n)'} = {}
    BY <1>2, Zenon
  <2> QED BY <1>5, <1>6, <2>1, <2>2, Zenon DEF CtesOK
<1>9. SkipsOK(F, 0)'
  BY <1>2, <1>7 DEF SkipsOK, none
<1>10. OutputsOK(F, 0)'
  BY <1>2, <1>5, <1>6, Zenon DEF OutputsOK, Lists
<1>11. TablesOK(F, 0)'
  BY <1>2 DEF TablesOK
<1> QED BY <1>4, <1>8, <1>9, <1>10, <1>11, Zenon DEF LoopOK

\* A turn of the loop.
LEMMA LoopTurns ==
  ASSUME GraphOK, NEW F, ListsOps(F), NEW k, LoopOK(F, k), opList # <<>>,
         LET n == Head(opList) IN Write(n) \/ Skip(n) \/ Continue(n)
  PROVE  LoopOK(F, k + 1)' /\ vars' = vars /\ phase' = phase
<1> DEFINE n == F[k + 1]
<1>1. /\ RestOK(F, k) /\ CtesOK(F, k) /\ SkipsOK(F, k) /\ OutputsOK(F, k) /\ TablesOK(F, k)
      /\ IsSeq(F) /\ Once(F)
  BY Zenon DEF LoopOK, ListsOps
<1>2. Head(opList) = n /\ (opList' = Tail(opList) => RestOK(F, k + 1)')
  BY <1>1, TurnIs, Zenon
<1>3. Write(n) \/ Skip(n) \/ Continue(n)
  BY <1>2, Zenon
<1>4. Take(n)
  BY <1>3, Zenon DEF Write, Skip, Continue
<1>5. opList' = Tail(opList) /\ vars' = vars /\ phase' = phase /\ nodes' = nodes /\ memo' = memo
  BY <1>4 DEF Take, vars
<1>6. OutputsOK(F, k + 1)'
  BY <1>1, <1>4, OutputsStep, Zenon
<1>7. TablesOK(F, k + 1)'
  BY <1>1, <1>4, TablesStep, Zenon
<1>8. Unwritten(n) => ~ Skipped(n)
  BY DEF Unwritten, Skipped, AddsBias
<1>9. SkipsOK(F, k + 1)'
  <2>1. (~ Skipped(n) /\ skip_nodes' = skip_nodes) \/ Skip(n)
    BY <1>3, <1>8, Zenon DEF Write, Continue
  <2> QED BY <1>1, <1>5, <2>1, SkipsStep, Zenon
<1>10. CtesOK(F, k + 1)'
  <2>1. CASE Write(n)
    <3>1. Plain(n) /\ ctes' = Append(ctes, [op |-> n, reads |-> From(n)])
      BY <2>1, Zenon DEF Write, Plain
    <3>2. From(n) = Reads(n)
      BY <1>1, FromIsReads, Zenon
    <3>3. ctes' = Append(ctes, [op |-> n, reads |-> Reads(n)])
      BY <3>1, <3>2
    <3> QED BY <1>1, <1>5, <3>1, <3>3, CtesStep, Zenon
  <2>2. CASE Skip(n) \/ Continue(n)
    <3>1. ~ Plain(n) /\ ctes' = ctes
      BY <2>2 DEF Skip, Continue, Plain
    <3> QED BY <1>1, <1>5, <3>1, CtesStay, Zenon
  <2> QED BY <1>3, <2>1, <2>2, Zenon
<1> QED BY <1>2, <1>5, <1>6, <1>7, <1>9, <1>10, Zenon DEF LoopOK

\* export only reads the graph.
LEMMA ExportOnlyReads ==
  ASSUME [ExportNext]_allVars
  PROVE  [Next]_vars
BY DEF ExportNext, allVars, Load, Start, Finish, Write, Skip, Continue, Take

LEMMA ExportStarts == ExportInit => ExportInv
<1> SUFFICES ASSUME ExportInit PROVE ExportInv
  OBVIOUS
<1>1. BuildInv
  BY BuildStarts, Zenon DEF ExportInit
<1>2. /\ phase = "load" /\ ctes = <<>> /\ skip_nodes = <<>> /\ output_guids = <<>>
      /\ tables = {}
  BY Zenon DEF ExportInit
<1>3. phase # "export" /\ phase # "done"
  BY <1>2
<1> QED BY <1>1, <1>2, <1>3, Zenon DEF ExportInv

LEMMA ExportStep == ExportInv /\ [ExportNext]_allVars => ExportInv'
<1> SUFFICES ASSUME ExportInv, [ExportNext]_allVars PROVE ExportInv'
  OBVIOUS
<1>1. BuildInv' /\ BuildInv
  BY ExportOnlyReads, BuildStep, Zenon DEF ExportInv
<1>2. GraphOK
  BY <1>1, BuiltIsOK, Zenon
<1>3. "load" # "export" /\ "load" # "done" /\ "export" # "done"
      /\ "IndexError" # "load" /\ "IndexError" # "export" /\ "IndexError" # "done"
  OBVIOUS
<1>4. CASE UNCHANGED allVars
  <2>1. /\ nodes' = nodes /\ memo' = memo /\ exportVars' = exportVars /\ phase' = phase
        /\ ctes' = ctes /\ skip_nodes' = skip_nodes /\ output_guids' = output_guids
        /\ tables' = tables
    BY <1>4 DEF allVars, vars, exportVars
  <2>2. ToExport' = ToExport /\ get_operator_list' = get_operator_list
    BY <2>1, GraphStays, ListStays, Zenon
  <2>3. \A k : LoopOK(ToExport, k) => LoopOK(ToExport, k)'
    <3> SUFFICES ASSUME NEW k, LoopOK(ToExport, k) PROVE LoopOK(ToExport, k)'
      OBVIOUS
    <3>1. PICK F : F = ToExport
      OBVIOUS
    <3>2. LoopOK(F, k)'
      BY <2>1, <3>1, LoopStays, Zenon
    <3>3. F = ToExport'
      BY <2>2, <3>1, Zenon
    <3> QED BY <3>2, <3>3, Zenon
  <2>4. phase = "done" => LoopOK(ToExport, Len(ToExport))'
    <3> SUFFICES ASSUME phase = "done" PROVE LoopOK(ToExport, Len(ToExport))'
      OBVIOUS
    <3>1. PICK l : l = Len(ToExport)
      BY Zenon
    <3>2. LoopOK(ToExport, l)'
      BY <2>3, <3>1, Zenon DEF ExportInv
    <3>3. l = Len(ToExport)'
      BY <2>2, <3>1, Zenon
    <3> QED BY <3>2, <3>3, Zenon
  <2> QED BY <1>1, <2>1, <2>2, <2>3, <2>4, Zenon DEF ExportInv
<1>5. CASE Load
  <2>1. phase = "load" /\ phase' = phase /\ exportVars' = exportVars
    BY <1>5 DEF Load
  <2>2. /\ ctes' = <<>> /\ skip_nodes' = <<>> /\ output_guids' = <<>> /\ tables' = {}
    BY <2>1 DEF ExportInv, exportVars
  <2> QED BY <1>1, <1>3, <2>1, <2>2, Zenon DEF ExportInv
<1>6. CASE Start
  <2>1. /\ phase = "load" /\ nodes' = nodes /\ memo' = memo
        /\ ctes' = ctes /\ skip_nodes' = skip_nodes /\ output_guids' = output_guids
        /\ tables' = tables
    BY <1>6 DEF Start, vars
  <2>2. CASE get_operator_list = <<>>
    <3>1. phase' = "IndexError"
      BY <1>6, <2>2, Zenon DEF Start
    <3> QED BY <1>1, <1>3, <3>1, Zenon DEF ExportInv
  <2>3. CASE get_operator_list # <<>>
    <3>1. phase' = "export" /\ opList' = ToExport
      BY <1>6, <2>3, Zenon DEF Start, ToExport
    <3>2. PICK F : F = ToExport
      OBVIOUS
    <3>3. IsSeq(F)
      BY <1>2, <2>3, <3>2, ToExportIs, Zenon DEF ListsOps
    <3>4. LoopOK(F, 0)'
      BY <2>1, <3>1, <3>2, <3>3, LoopStarts DEF ExportInv
    <3>5. F = ToExport' /\ get_operator_list' = get_operator_list
      BY <2>1, <3>2, GraphStays, ListStays, Zenon
    <3>6. LoopOK(ToExport, 0)'
      BY <3>4, <3>5, Zenon
    <3> QED BY <1>1, <1>3, <2>3, <3>1, <3>5, <3>6, Zenon DEF ExportInv
  <2> QED BY <2>2, <2>3, Zenon
<1>7. CASE Finish
  <2>1. /\ phase = "export" /\ opList = <<>> /\ nodes' = nodes /\ memo' = memo
        /\ exportVars' = exportVars /\ output_guids' = output_guids
    BY <1>7 DEF Finish, vars, exportVars
  <2>2. PICK k : LoopOK(ToExport, k) /\ get_operator_list # <<>>
    BY <2>1, Zenon DEF ExportInv
  <2>3. PICK F : F = ToExport
    OBVIOUS
  <2>4. IsSeq(F)
    BY <1>2, <2>2, <2>3, ToExportIs, Zenon DEF ListsOps
  <2>5. k = Len(F)
    <3>1. k \in 0 .. Len(F) /\ Len(opList) = Len(F) - k
      BY <2>2, <2>3, Zenon DEF LoopOK, RestOK
    <3>2. Len(opList) = 0 /\ Len(F) \in Nat
      BY <2>1, <2>4, LenIs
    <3> QED BY <3>1, <3>2
  <2>6. LoopOK(F, k)'
    BY <2>1, <2>2, <2>3, LoopStays, Zenon
  <2>7. F = ToExport' /\ get_operator_list' = get_operator_list
    BY <2>1, <2>3, GraphStays, ListStays, Zenon
  <2>8. LoopOK(ToExport, Len(ToExport))'
    BY <2>5, <2>6, <2>7, Zenon
  <2>9. phase' = IF output_guids = <<>> THEN "IndexError" ELSE "done"
    BY <1>7, Zenon DEF Finish
  <2> QED BY <1>1, <1>3, <2>1, <2>2, <2>7, <2>8, <2>9, Zenon DEF ExportInv
<1>8. CASE /\ phase = "export" /\ opList # <<>>
           /\ LET n == Head(opList) IN Write(n) \/ Skip(n) \/ Continue(n)
  <2>1. PICK k : LoopOK(ToExport, k) /\ get_operator_list # <<>>
    BY <1>8, Zenon DEF ExportInv
  <2>2. PICK F : F = ToExport
    OBVIOUS
  <2>3. ListsOps(F)
    BY <1>2, <2>1, <2>2, ToExportIs, Zenon
  <2>4. LoopOK(F, k + 1)' /\ vars' = vars /\ phase' = phase
    BY <1>2, <1>8, <2>1, <2>2, <2>3, LoopTurns, Zenon
  <2>5. nodes' = nodes /\ memo' = memo
    BY <2>4 DEF vars
  <2>6. F = ToExport' /\ get_operator_list' = get_operator_list
    BY <2>2, <2>5, GraphStays, ListStays, Zenon
  <2>7. LoopOK(ToExport, k + 1)'
    BY <2>4, <2>6, Zenon
  <2> QED BY <1>1, <1>3, <1>8, <2>1, <2>4, <2>6, <2>7, Zenon DEF ExportInv
<1> QED BY <1>4, <1>5, <1>6, <1>7, <1>8, Zenon DEF ExportNext

-----------------------------------------------------------------------------
(* Names that are defined *)

\* The names a CTE can read when the operators before the a-th are done.
Sees(F, a, c) ==
  /\ a \in 1 .. Len(F) /\ TablesOK(F, Len(F))
  /\ Written(c - 1) = {n \in Firsts(F, a - 1) : Plain(n)}

\* An operator can be named if it is written.
LEMMA PlainIsNameable ==
  ASSUME NEW n, n \in Operators
  PROVE  Nameable(n) <=> Plain(n)
BY DEF Nameable, Plain, Operators

\* Which weights have a table.
LEMMA TableIs ==
  ASSUME GraphOK, NEW F, ListsOps(F), TablesOK(F, Len(F)), NEW b \in 1 .. Len(F),
         NEW i \in InputEdges(F[b]), Type(In(F[b], i)) = "weight"
  PROVE  <<"weight", F[b], i>> \in tables <=> Type(F[b]) \in {"conv2d", "transpose"}
<1> DEFINE n == F[b]
           name == <<"weight", n, i>>
<1>1. \A m \in Firsts(F, Len(F)) : m \in 1 .. Len(nodes)
  <2>1. ASSUME NEW m \in Firsts(F, Len(F)) PROVE m \in Operators
    <3>1. PICK j \in 1 .. Len(F) : m = F[j]
      BY <2>1, Zenon DEF Firsts
    <3> QED BY <3>1, Zenon DEF ListsOps
  <2> QED BY <2>1, Zenon DEF Operators, GraphOK
<1>2. n \in Firsts(F, Len(F))
  BY Zenon DEF Firsts
<1>3. Inputs(n)[i] = name
  BY <1>1, <1>2, NameIs, Zenon
<1>4. \A m : DOMAIN Inputs(m) = InputEdges(m)
  BY DEF Inputs
<1>5. name \in Range(Inputs(n)) /\ name[1] = "weight"
  <2>1. name[1] = "weight"
    OBVIOUS
  <2> QED BY <1>3, <1>4, <2>1, Zenon DEF Range
<1>6. ASSUME NEW m \in Firsts(F, Len(F)), name \in Range(Inputs(m)) PROVE m = n
  <2>1. PICK j \in InputEdges(m) : name = Inputs(m)[j]
    BY <1>4, <1>6, Zenon DEF Range
  <2>2. m \in 1 .. Len(nodes)
    BY <1>1, <1>6, Zenon
  <2>3. \/ Inputs(m)[j] = <<"input_feature_map">> \/ Inputs(m)[j] = <<"weight", m, j>>
        \/ \E s : Inputs(m)[j] = _output_tensor_name(s)
    BY <2>2, NameIs, Zenon
  <2>4. Inputs(m)[j] # <<"input_feature_map">> /\ ~ \E s : Inputs(m)[j] = _output_tensor_name(s)
    BY <2>1 DEF _output_tensor_name
  <2>5. <<"weight", n, i>> = <<"weight", m, j>>
    BY <2>1, <2>3, <2>4, Zenon
  <2> QED BY <2>5
<1> HIDE DEF n, name
<1> SUFFICES name \in tables <=> Type(n) \in {"conv2d", "transpose"}
  BY Zenon DEF n, name
<1>7. name \in tables
      <=> \E m \in Firsts(F, Len(F)) : /\ Type(m) \in {"conv2d", "transpose"}
                                       /\ name \in Range(Inputs(m)) /\ name[1] = "weight"
  BY Zenon DEF TablesOK
<1> QED BY <1>2, <1>5, <1>6, <1>7, Zenon

\* When the name of an input is defined.
LEMMA InputDefined ==
  ASSUME GraphOK, NEW F, ListsOps(F), NEW a, NEW c, Sees(F, a, c), NEW b \in 1 .. a,
         NEW i \in InputEdges(F[b])
  PROVE  LET s == In(F[b], i)
         IN  Defined(c, Inputs(F[b])[i])
             <=> Nameable(s) \/ (Type(s) = "weight" /\ Type(F[b]) \in {"conv2d", "transpose"})
<1> DEFINE n == F[b]
           s == In(n, i)
           name == Inputs(n)[i]
<1>1. Len(F) \in Nat /\ a \in 1 .. Len(F) /\ b \in 1 .. Len(F)
  BY LenIs DEF ListsOps, Sees
<1>2. n \in 1 .. Len(nodes)
  BY <1>1, Zenon DEF ListsOps, Operators, GraphOK
<1>3. /\ s \in 1 .. Len(nodes)
      /\ Type(s) = "input" => name = <<"input_feature_map">>
      /\ Type(s) = "weight" => name = <<"weight", n, i>>
      /\ s \in Operators => name = _output_tensor_name(s)
      /\ \/ Type(s) = "input" \/ Type(s) = "weight" \/ s \in Operators
  BY <1>2, NameIs, Zenon
<1>4. CASE Type(s) = "input"
  <2>1. Defined(c, name) /\ Nameable(s)
    BY <1>3, <1>4 DEF Defined, Nameable
  <2> QED BY <2>1
<1>5. CASE Type(s) = "weight"
  <2>1. Defined(c, name) <=> <<"weight", n, i>> \in tables
    BY <1>3, <1>5 DEF Defined
  <2>2. <<"weight", n, i>> \in tables <=> Type(n) \in {"conv2d", "transpose"}
    BY <1>1, <1>5, TableIs, Zenon DEF Sees
  <2>3. ~ Nameable(s)
    BY <1>5 DEF Nameable
  <2> QED BY <1>5, <2>1, <2>2, <2>3, Zenon
<1>6. CASE s \in Operators
  <2>1. i \in 1 .. NumInputs(Type(n))
    BY <1>2, EdgesAre, Zenon
  <2>2. PICK d \in 1 .. Len(F) : d < b /\ F[d] = s
    BY <1>1, <1>6, <2>1, Zenon DEF ListsOps
  <2>3. d \in 1 .. (a - 1)
    BY <1>1, <2>2
  <2>4. s \in Firsts(F, a - 1)
    BY <2>2, <2>3, Zenon DEF Firsts
  <2>5. Defined(c, name) <=> s \in Written(c - 1)
    BY <1>3, <1>6 DEF Defined, _output_tensor_name
  <2>6. s \in Written(c - 1) <=> Plain(s)
    <3>1. Written(c - 1) = {m \in Firsts(F, a - 1) : Plain(m)}
      BY Zenon DEF Sees
    <3> QED BY <2>4, <3>1
  <2>7. Type(s) # "weight"
    BY <1>6 DEF Operators
  <2>8. Nameable(s) <=> Plain(s)
    BY <1>6, PlainIsNameable, Zenon
  <2> QED BY <2>5, <2>6, <2>7, <2>8
<1> QED BY <1>3, <1>4, <1>5, <1>6, Zenon

\* A name in a FROM clause is defined exactly if the input can be read.
LEMMA ReadDefined ==
  ASSUME GraphOK, NEW F, ListsOps(F), NEW a, NEW c, Sees(F, a, c), Plain(F[a])
  PROVE  LET n == F[a]
         IN  /\ DOMAIN Reads(n) = InputEdges(n)
             /\ \A i \in InputEdges(n) : Defined(c, Reads(n)[i]) <=> Readable(n, i)
<1> DEFINE n == F[a]
<1>1. Len(F) \in Nat /\ a \in 1 .. Len(F) /\ a \in 1 .. a
  BY LenIs DEF ListsOps, Sees
<1>2. n \in 1 .. Len(nodes) /\ Type(n) # "transpose"
  <2>1. Type(n) # "transpose"
    BY Zenon DEF Plain, Skipped
  <2> QED BY <1>1, <2>1, Zenon DEF ListsOps, Operators, GraphOK
<1>3. /\ Type(n) = "relu" => InputEdges(n) = 1 .. 1
      /\ Type(n) \in {"ew_add", "matmul"} => InputEdges(n) = 1 .. 2
  BY <1>2, EdgesAre DEF NumInputs
<1>4. DOMAIN Reads(n) = InputEdges(n)
  <2> HIDE DEF n
  <2>1. DOMAIN Inputs(n) = InputEdges(n)
    BY DEF Inputs
  <2> QED BY <1>3, <2>1 DEF Reads
<1>5. ASSUME NEW i \in InputEdges(n)
      PROVE  Defined(c, Reads(n)[i]) <=> Readable(n, i)
  <2> DEFINE s == In(n, i)
  <2>1. Defined(c, Inputs(n)[i])
        <=> Nameable(s) \/ (Type(s) = "weight" /\ Type(n) \in {"conv2d", "transpose"})
    BY <1>1, InputDefined, Zenon
  <2>2. /\ s \in 1 .. Len(nodes) /\ (Skipped(s) => s \in Operators)
        /\ i \in 1 .. NumInputs(Type(n))
    BY <1>2, NameIs, EdgesAre, Zenon
  <2>3. /\ Type(s) = "transpose" => Type(n) = "matmul" /\ i = 2 /\ Type(In(s, 1)) = "weight"
        /\ Type(n) = "matmul" => Type(In(n, 2)) \in {"weight", "transpose"}
    BY <1>2, <2>2 DEF GraphOK
  <2>4. CASE ~ Skipped(s)
    <3>1. Reads(n)[i] = Inputs(n)[i]
      <4>1. Behind(n, i) = Inputs(n)[i]
        BY <2>4, Zenon DEF Behind
      <4> HIDE DEF n
      <4> QED BY <1>3, <4>1 DEF Reads
    <3>2. ~ AddsBias(s) /\ Type(s) # "transpose"
      BY <2>4, Zenon DEF Skipped
    <3>3. Readable(n, i) <=> Nameable(s) \/ (Type(s) = "weight" /\ Type(n) = "conv2d")
      BY <3>2 DEF Readable
    <3>4. Type(n) \in {"conv2d", "transpose"} <=> Type(n) = "conv2d"
      BY <1>2
    <3> QED BY <2>1, <3>1, <3>3, <3>4, Zenon
  <2>5. CASE Skipped(s)
    <3>1. Type(s) # "weight" /\ ~ Nameable(s)
      <4>1. Type(s) # "weight" /\ Type(s) # "input"
        BY <2>2, <2>5 DEF Operators
      <4> QED BY <2>5, <4>1, Zenon DEF Nameable
    <3>2. PICK b \in 1 .. Len(F) : b < a /\ F[b] = s
      BY <1>1, <2>2, <2>5, Zenon DEF ListsOps
    <3>3. b \in 1 .. a
      BY <1>1, <3>2
    <3>4. 1 \in InputEdges(s)
      <4>1. Type(s) \in {"transpose", "ew_add"}
        BY <2>5, Zenon DEF Skipped, AddsBias
      <4> QED BY <2>2, <4>1, EdgesAre DEF NumInputs
    <3>5. Defined(c, Inputs(s)[1])
          <=> \/ Nameable(In(s, 1))
              \/ Type(In(s, 1)) = "weight" /\ Type(s) \in {"conv2d", "transpose"}
      <4>1. 1 \in InputEdges(F[b])
        BY <3>2, <3>4
      <4>2. Defined(c, Inputs(F[b])[1])
            <=> \/ Nameable(In(F[b], 1))
                \/ Type(In(F[b], 1)) = "weight" /\ Type(F[b]) \in {"conv2d", "transpose"}
        BY <3>3, <4>1, InputDefined, Zenon
      <4> QED BY <3>2, <4>2
    <3>6. Behind(n, i) = Inputs(s)[1]
      BY <2>5, Zenon DEF Behind
    <3>7. Readable(n, i)
          <=> \/ AddsBias(s) /\ Nameable(In(s, 1)) /\ Type(n) \in {"relu", "ew_add"}
              \/ Type(s) = "transpose" /\ Type(In(s, 1)) = "weight" /\ Type(n) = "matmul" /\ i = 2
      BY <3>1, Zenon DEF Readable
    <3>8. CASE Type(s) = "transpose"
      <4>1. Reads(n)[i] = Inputs(s)[1]
        <5> HIDE DEF n
        <5> QED BY <2>3, <3>6, <3>8 DEF Reads
      <4> QED BY <2>3, <3>5, <3>7, <3>8, <4>1
    <3>9. CASE Type(s) # "transpose"
      <4>1. AddsBias(s) /\ Type(s) = "ew_add"
        BY <2>5, <3>9, Zenon DEF Skipped, AddsBias
      <4>2. CASE Type(n) \in {"relu", "ew_add"}
        <5>1. Reads(n)[i] = Inputs(s)[1]
          <6> HIDE DEF n
          <6> QED BY <1>3, <3>6, <4>2 DEF Reads
        <5> QED BY <3>5, <3>7, <4>1, <4>2, <5>1
      <4>3. CASE Type(n) \notin {"relu", "ew_add"}
        <5>1. ~ Readable(n, i)
          BY <3>7, <3>9, <4>3, Zenon
        <5>2. Type(n) = "matmul" => i = 1
          <6>1. Type(n) = "matmul" => i # 2
            BY <2>3, <4>1
          <6> QED BY <1>3, <6>1
        <5>3. Reads(n)[i] = Inputs(n)[i]
          <6> HIDE DEF n
          <6> QED BY <4>3, <5>2 DEF Reads
        <5> QED BY <2>1, <3>1, <5>1, <5>3, Zenon
      <4> QED BY <4>2, <4>3, Zenon
    <3> QED BY <3>8, <3>9, Zenon
  <2> QED BY <2>4, <2>5, Zenon
<1> QED BY <1>4, <1>5, Zenon

\* When the loop is over.
Ended(F) ==
  /\ GraphOK /\ ListsOps(F)
  /\ CtesOK(F, Len(F)) /\ OutputsOK(F, Len(F)) /\ TablesOK(F, Len(F))
  /\ \A n : n \in Exported <=> n \in Firsts(F, Len(F))
  /\ Result \in Firsts(F, Len(F)) /\ Lists(output_guids, Result)

LEMMA AtEnd ==
  ASSUME ExportInv, phase = "done"
  PROVE  Ended(ToExport)
<1> DEFINE F == ToExport
<1>1. GraphOK /\ get_operator_list # <<>> /\ output_guids # <<>> /\ LoopOK(F, Len(F))
  BY BuiltIsOK, Zenon DEF ExportInv
<1>2. ListsOps(F)
  BY <1>1, ToExportIs, Zenon
<1>3. CtesOK(F, Len(F)) /\ OutputsOK(F, Len(F)) /\ TablesOK(F, Len(F))
  BY <1>1, Zenon DEF LoopOK
<1>4. DOMAIN F = 1 .. Len(F)
  BY <1>2, LenIs, Zenon DEF ListsOps
<1>5. \A n : n \in Exported <=> n \in Firsts(F, Len(F))
  <2>1. Exported = {F[a] : a \in DOMAIN F}
    BY Zenon DEF Exported, Range, ToExport
  <2> QED BY <1>4, <2>1, Zenon DEF Firsts
<1>6. Lists(output_guids, Result)
  <2>1. output_guids[1] = Result
    BY <1>1, <1>3 DEF Result, OutputsOK, IsSeq
  <2>2. Len(output_guids) \in Nat /\ Len(output_guids) # 0
    BY <1>1, <1>3 DEF OutputsOK, IsSeq
  <2>3. 1 \in 1 .. Len(output_guids)
    BY <2>2
  <2> QED BY <2>1, <2>3, Zenon DEF Lists
<1>7. Result \in Firsts(F, Len(F))
  BY <1>3, <1>6, Zenon DEF OutputsOK
<1> QED BY <1>1, <1>2, <1>3, <1>5, <1>6, <1>7, Zenon DEF Ended

\* What a CTE is.
LEMMA CteIs ==
  ASSUME NEW F, Ended(F), NEW c \in DOMAIN ctes
  PROVE  \E a : /\ Sees(F, a, c) /\ Plain(F[a])
                /\ ctes[c].op = F[a] /\ ctes[c].reads = Reads(F[a])
<1>1. c \in 1 .. Len(ctes)
  BY LenIs, Zenon DEF Ended, CtesOK
<1>2. CteOK(F, Len(F), c)
  BY <1>1, Zenon DEF Ended, CtesOK
<1> QED BY <1>2, Zenon DEF CteOK, Sees, Ended

\* Every operator that is plain has its CTE.
LEMMA CteOf ==
  ASSUME NEW F, Ended(F), NEW n \in Firsts(F, Len(F))
  PROVE  /\ n \in Operators
         /\ n \in Written(Len(ctes)) <=> Plain(n)
         /\ Plain(n) => \E c \in DOMAIN ctes : ctes[c].op = n
<1>1. n \in Operators
  <2>1. PICK j \in 1 .. Len(F) : n = F[j]
    BY Zenon DEF Firsts
  <2> QED BY <2>1, Zenon DEF ListsOps, Ended
<1>2. Written(Len(ctes)) = {m \in Firsts(F, Len(F)) : Plain(m)}
  BY Zenon DEF Ended, CtesOK
<1>3. n \in Written(Len(ctes)) <=> Plain(n)
  BY <1>2
<1>4. DOMAIN ctes = 1 .. Len(ctes)
  BY LenIs, Zenon DEF Ended, CtesOK
<1>5. n \in Written(Len(ctes)) => \E c \in DOMAIN ctes : ctes[c].op = n
  BY <1>4, Zenon DEF Written
<1> QED BY <1>1, <1>3, <1>5, Zenon

\* ReferencesDefined follows from the invariant.
LEMMA EndedDefines ==
  ASSUME NEW F, Ended(F)
  PROVE  ~ Dangling <=> /\ \A n \in Exported : Nameable(n) => \A i \in InputEdges(n) : Readable(n, i)
                        /\ Nameable(Result)
<1>1. ASSUME NEW c \in DOMAIN ctes
      PROVE  /\ ctes[c].op \in Exported /\ Nameable(ctes[c].op)
             /\ (\A name \in Range(ctes[c].reads) : Defined(c, name))
                <=> \A i \in InputEdges(ctes[c].op) : Readable(ctes[c].op, i)
  <2>1. PICK a : /\ Sees(F, a, c) /\ Plain(F[a])
                 /\ ctes[c].op = F[a] /\ ctes[c].reads = Reads(F[a])
    BY CteIs, Zenon
  <2> DEFINE n == F[a]
             r == Reads(n)
  <2>2. /\ DOMAIN r = InputEdges(n)
        /\ \A i \in InputEdges(n) : Defined(c, r[i]) <=> Readable(n, i)
    BY <2>1, ReadDefined, Zenon DEF Ended
  <2>3. n \in Firsts(F, Len(F))
    BY <2>1, Zenon DEF Sees, Firsts
  <2>4. n \in Exported
    BY <2>3, Zenon DEF Ended
  <2>5. Nameable(n)
    BY <2>1, <2>3, CteOf, PlainIsNameable, Zenon
  <2> HIDE DEF n, r
  <2>6. ctes[c].op = n /\ ctes[c].reads = r
    BY <2>1, Zenon DEF n, r
  <2>7. (\A name \in Range(r) : Defined(c, name)) <=> \A i \in InputEdges(n) : Readable(n, i)
    <3>1. (\A name \in Range(r) : Defined(c, name)) <=> \A i \in DOMAIN r : Defined(c, r[i])
      BY DEF Range
    <3> QED BY <2>2, <3>1, Zenon
  <2> QED BY <2>4, <2>5, <2>6, <2>7
<1>2. Result \in Written(Len(ctes)) <=> Nameable(Result)
  <2>1. Result \in Firsts(F, Len(F))
    BY Zenon DEF Ended
  <2>2. Result \in Operators /\ (Result \in Written(Len(ctes)) <=> Plain(Result))
    BY <2>1, CteOf, Zenon
  <2>3. Nameable(Result) <=> Plain(Result)
    BY <2>2, PlainIsNameable, Zenon
  <2> QED BY <2>2, <2>3
<1>3. Dangling <=> \/ \E c \in DOMAIN ctes : ~ \A name \in Range(ctes[c].reads) : Defined(c, name)
                   \/ Result \notin Written(Len(ctes))
  BY Zenon DEF Dangling, Result
<1>4. ASSUME NEW n \in Exported, Nameable(n) PROVE \E c \in DOMAIN ctes : ctes[c].op = n
  <2>1. n \in Firsts(F, Len(F))
    BY Zenon DEF Ended
  <2> QED BY <1>4, <2>1, CteOf, PlainIsNameable, Zenon
<1>5. ASSUME ~ Dangling
      PROVE  /\ \A n \in Exported : Nameable(n) => \A i \in InputEdges(n) : Readable(n, i)
             /\ Nameable(Result)
  <2>1. Nameable(Result)
    BY <1>2, <1>3, <1>5
  <2>2. \A c \in DOMAIN ctes : \A i \in InputEdges(ctes[c].op) : Readable(ctes[c].op, i)
    BY <1>1, <1>3, <1>5
  <2> QED BY <1>4, <2>1, <2>2
<1>6. ASSUME /\ \A n \in Exported : Nameable(n) => \A i \in InputEdges(n) : Readable(n, i)
             /\ Nameable(Result)
      PROVE  ~ Dangling
  <2>1. \A c \in DOMAIN ctes : \A name \in Range(ctes[c].reads) : Defined(c, name)
    BY <1>1, <1>6
  <2> QED BY <1>2, <1>3, <1>6, <2>1
<1> QED BY <1>5, <1>6, Zenon

\* The invariant holds for every model.
LEMMA ExportHolds == ExportSpec => []ExportInv
BY ExportStarts, ExportStep, PTL DEF ExportSpec

\* The query that export writes for any ONNX model has a name that nothing
\* defines exactly if some operator reads what Readable does not allow.
THEOREM NamesAreDefined == ExportSpec => []ReferencesDefined
<1>1. ExportInv => ReferencesDefined
  BY AtEnd, EndedDefines, Zenon DEF ReferencesDefined
<1> QED BY <1>1, ExportHolds, PTL

-----------------------------------------------------------------------------
(* What the query computes *)

\* The body of the function in ModelValue.
Term(f, m) ==
  CASE Type(m) = "input" -> <<"image">>
    [] Type(m) = "weight" -> <<"weight", m>>
    [] Skipped(m) -> f[In(m, 1)]
    [] OTHER -> <<Type(m), [i \in InputEdges(m) |-> f[In(m, i)]]>>

Evaluates(f, n) == f = [m \in 1 .. n |-> Term(f, m)]
Agree(f, g, n) == \A m \in 1 .. n : f[m] = g[m]

\* A term is made of those of the nodes before.
LEMMA TermReads ==
  ASSUME GraphOK, NEW m \in 1 .. Len(nodes), NEW f, NEW g, Agree(f, g, m - 1)
  PROVE  Term(f, m) = Term(g, m)
<1>1. \A i \in InputEdges(m) : In(m, i) \in 1 .. (m - 1)
  BY EdgesAre, Zenon DEF GraphOK
<1>2. \A i \in InputEdges(m) : f[In(m, i)] = g[In(m, i)]
  BY <1>1, Zenon DEF Agree
<1>3. [i \in InputEdges(m) |-> f[In(m, i)]] = [i \in InputEdges(m) |-> g[In(m, i)]]
  BY <1>2
<1>4. Skipped(m) => 1 \in InputEdges(m)
  <2>1. Skipped(m) => Type(m) \in {"transpose", "ew_add"}
    BY DEF Skipped, AddsBias
  <2> QED BY <2>1, EdgesAre DEF NumInputs
<1>5. Skipped(m) => f[In(m, 1)] = g[In(m, 1)]
  BY <1>2, <1>4, Zenon
<1> QED BY <1>3, <1>5 DEF Term

\* The function in ModelValue exists.
LEMMA EvaluationExists ==
  ASSUME GraphOK
  PROVE  \E f : Evaluates(f, Len(nodes))
<1> DEFINE l == Len(nodes)
           Bad == {n \in 0 .. l : ~ \E f : Evaluates(f, n)}
<1>1. l \in Nat
  BY Zenon DEF GraphOK
<1> HIDE DEF l
<1>2. CASE Bad = {}
  <2>1. l \in 0 .. l
    BY <1>1
  <2> QED BY <1>2, <2>1, Zenon DEF l
<1>3. CASE Bad # {}
  <2>1. Bad \subseteq Nat
    OBVIOUS
  <2>2. PICK n \in Bad : \A k \in Bad : n <= k
    BY <1>3, <2>1, Least, Zenon
  <2>3. n # 0
    <3>1. Evaluates([m \in 1 .. 0 |-> 0], 0)
      BY DEF Evaluates
    <3> QED BY <2>2, <3>1, Zenon
  <2>4. n - 1 \in 0 .. l /\ n \in 1 .. l /\ n \in Nat
    BY <1>1, <2>2, <2>3
  <2>5. n - 1 \notin Bad
    BY <2>2, <2>4
  <2>6. PICK f : Evaluates(f, n - 1)
    BY <2>4, <2>5, Zenon
  <2> DEFINE g == [m \in 1 .. n |-> IF m = n THEN Term(f, n) ELSE f[m]]
  <2>7. ASSUME NEW m \in 1 .. n PROVE g[m] = Term(g, m)
    <3>1. m \in 1 .. Len(nodes) /\ m \in Nat /\ \A k \in 1 .. (m - 1) : k \in 1 .. n /\ k # n
      BY <1>1, <2>4 DEF l
    <3>2. Agree(f, g, m - 1)
      BY <3>1 DEF Agree
    <3> HIDE DEF g
    <3>3. Term(f, m) = Term(g, m)
      BY <3>1, <3>2, TermReads, Zenon
    <3>4. CASE m = n
      <4>1. g[n] = Term(f, n)
        BY <2>4 DEF g
      <4> QED BY <3>3, <3>4, <4>1
    <3>5. CASE m # n
      <4>1. m \in 1 .. (n - 1)
        BY <2>4, <3>5
      <4>2. f[m] = Term(f, m)
        BY <2>6, <4>1 DEF Evaluates
      <4>3. g[m] = f[m]
        BY <3>5 DEF g
      <4> QED BY <3>3, <4>2, <4>3
    <3> QED BY <3>4, <3>5, Zenon
  <2>8. Evaluates(g, n)
    <3>1. g = [m \in 1 .. n |-> g[m]]
      OBVIOUS
    <3> HIDE DEF g
    <3>2. [m \in 1 .. n |-> g[m]] = [m \in 1 .. n |-> Term(g, m)]
      BY <2>7
    <3> QED BY <3>1, <3>2 DEF Evaluates
  <2> HIDE DEF g
  <2> QED BY <2>2, <2>8, Zenon
<1> QED BY <1>2, <1>3, Zenon

\* ModelValue evaluates the graph.
LEMMA ModelValueIs ==
  ASSUME GraphOK
  PROVE  \E M : /\ \A m \in 1 .. Len(nodes) : M[m] = Term(M, m)
                /\ \A n : ModelValue(n) = M[n]
<1> DEFINE M == CHOOSE f : Evaluates(f, Len(nodes))
<1>1. Evaluates(M, Len(nodes))
  BY EvaluationExists, Zenon
<1>2. DOMAIN nodes = 1 .. Len(nodes)
  BY Zenon DEF GraphOK
<1>3. \A n : ModelValue(n) = M[n]
  BY <1>2, Zenon DEF ModelValue, Evaluates, Term
<1> HIDE DEF M
<1>4. \A m \in 1 .. Len(nodes) : M[m] = Term(M, m)
  BY <1>1 DEF Evaluates
<1> QED BY <1>3, <1>4, Zenon

\* The body of the function in QueryValue.
NameValue(k, f, name) ==
  CASE name[1] = "fwd" -> f[CHOOSE j \in 1 .. k : ctes[j].op = name[2]]
    [] name[1] = "weight" -> <<"weight", In(name[2], name[3])>>
    [] OTHER -> <<"image">>
CteValue(f, k) ==
  <<Type(ctes[k].op), [i \in DOMAIN ctes[k].reads |-> NameValue(k, f, ctes[k].reads[i])]>>
Answers(f) == f = [k \in DOMAIN ctes |-> CteValue(f, k)]

\* The CTEs before the k-th have the values of their operators.
Right(M, f, k) == \A j \in 1 .. k : f[j] = M[ctes[j].op]

\* The name of an input has the input's value.
LEMMA InputValue ==
  ASSUME NEW F, Ended(F), NEW a, NEW c \in DOMAIN ctes, Sees(F, a, c), ctes[c].op = F[a],
         NEW M, \A m \in 1 .. Len(nodes) : M[m] = Term(M, m), NEW f, Right(M, f, c - 1),
         NEW n \in 1 .. Len(nodes), NEW i \in InputEdges(n), Defined(c, Inputs(n)[i])
  PROVE  NameValue(c, f, Inputs(n)[i]) = M[In(n, i)]
<1> DEFINE s == In(n, i)
           name == Inputs(n)[i]
<1>1. /\ s \in 1 .. Len(nodes)
      /\ Type(s) = "input" => name = <<"input_feature_map">>
      /\ Type(s) = "weight" => name = <<"weight", n, i>>
      /\ s \in Operators => name = _output_tensor_name(s)
      /\ \/ Type(s) = "input" \/ Type(s) = "weight" \/ s \in Operators
  BY NameIs, Zenon DEF Ended
<1>2. M[s] = Term(M, s)
  BY <1>1, Zenon
<1>3. CASE Type(s) = "input"
  <2>1. M[s] = <<"image">>
    BY <1>2, <1>3 DEF Term, Skipped, AddsBias
  <2>2. NameValue(c, f, name) = <<"image">>
    BY <1>1, <1>3 DEF NameValue
  <2> QED BY <2>1, <2>2, Zenon
<1>4. CASE Type(s) = "weight"
  <2>1. M[s] = <<"weight", s>>
    BY <1>2, <1>4 DEF Term, Skipped, AddsBias
  <2>2. NameValue(c, f, <<"weight", n, i>>) = <<"weight", In(n, i)>>
    BY DEF NameValue
  <2> QED BY <1>1, <1>4, <2>1, <2>2, Zenon
<1>5. CASE s \in Operators
  <2>1. name[1] = "fwd" /\ name[2] = s
    BY <1>1, <1>5, NamesDiffer, Zenon
  <2>2. s \in Written(c - 1)
    BY <2>1 DEF Defined
  <2>3. PICK d \in 1 .. (c - 1) : ctes[d].op = s
    BY <2>2, Zenon DEF Written
  <2>4. s # F[a]
    <3>1. s \in Firsts(F, a - 1)
      BY <2>2 DEF Sees
    <3>2. PICK e \in 1 .. (a - 1) : s = F[e]
      BY <3>1, Zenon DEF Firsts
    <3>3. Len(F) \in Nat /\ a \in 1 .. Len(F)
      BY LenIs, Zenon DEF Sees, Ended, ListsOps
    <3>4. e \in 1 .. Len(F) /\ e # a
      BY <3>2, <3>3
    <3> QED BY <3>2, <3>3, <3>4, Zenon DEF Ended, ListsOps, Once
  <2>5. c \in Nat
    BY LenIs DEF Ended, CtesOK
  <2>6. d \in 1 .. c
    BY <2>3, <2>5
  <2> DEFINE j == CHOOSE j \in 1 .. c : ctes[j].op = s
  <2>7. j \in 1 .. c /\ ctes[j].op = s
    BY <2>3, <2>6, Zenon
  <2> HIDE DEF j
  <2>8. j \in 1 .. (c - 1)
    BY <2>4, <2>5, <2>7
  <2>9. f[j] = M[s]
    BY <2>7, <2>8, Zenon DEF Right
  <2>10. NameValue(c, f, name) = f[j]
    BY <2>1 DEF NameValue, j
  <2> QED BY <2>9, <2>10, Zenon
<1> QED BY <1>1, <1>3, <1>4, <1>5, Zenon

\* A CTE computes what its operator does.
LEMMA CteComputes ==
  ASSUME NEW F, Ended(F), ~ Dangling, NEW c \in DOMAIN ctes,
         NEW M, \A m \in 1 .. Len(nodes) : M[m] = Term(M, m), NEW f, Right(M, f, c - 1)
  PROVE  CteValue(f, c) = M[ctes[c].op]
<1>1. PICK a : /\ Sees(F, a, c) /\ Plain(F[a])
               /\ ctes[c].op = F[a] /\ ctes[c].reads = Reads(F[a])
  BY CteIs, Zenon
<1> DEFINE n == F[a]
           r == Reads(n)
<1>2. DOMAIN r = InputEdges(n)
  BY <1>1, ReadDefined, Zenon DEF Ended
<1>3. n \in 1 .. Len(nodes) /\ n \in Operators
  <2>1. n \in Operators
    BY <1>1, Zenon DEF Sees, Ended, ListsOps
  <2> QED BY <2>1, Zenon DEF Operators, Ended, GraphOK
<1>4. \A m \in 1 .. Len(nodes) : \A e \in InputEdges(m) :
        Defined(c, Inputs(m)[e]) => NameValue(c, f, Inputs(m)[e]) = M[In(m, e)]
  BY <1>1, InputValue, Zenon
<1>5. ASSUME NEW i \in InputEdges(n) PROVE NameValue(c, f, r[i]) = M[In(n, i)]
  <2> DEFINE s == In(n, i)
  <2>1. Defined(c, r[i])
    <3>1. \A name \in Range(ctes[c].reads) : Defined(c, name)
      BY Zenon DEF Dangling
    <3>2. r[i] \in Range(r)
      BY <1>2, Zenon DEF Range
    <3> QED BY <1>1, <3>1, <3>2
  <2>2. s \in 1 .. Len(nodes) /\ i \in 1 .. NumInputs(Type(n))
    BY <1>3, NameIs, EdgesAre, Zenon DEF Ended
  <2>3. \/ r[i] = Inputs(n)[i]
        \/ Skipped(s) /\ r[i] = Inputs(s)[1]
    <3>1. \/ Behind(n, i) = Inputs(n)[i]
          \/ Skipped(s) /\ Behind(n, i) = Inputs(s)[1]
      BY Zenon DEF Behind
    <3>2. /\ Type(n) = "relu" => i = 1
          /\ Type(n) \in {"ew_add", "matmul"} => i \in {1, 2}
      BY <2>2 DEF NumInputs
    <3>3. r[i] = Inputs(n)[i] \/ r[i] = Behind(n, i)
      <4> HIDE DEF n
      <4> QED BY <3>2 DEF Reads
    <3> QED BY <3>1, <3>3
  <2>4. CASE r[i] = Inputs(n)[i]
    <3>1. Defined(c, Inputs(n)[i])
      BY <2>1, <2>4
    <3>2. NameValue(c, f, Inputs(n)[i]) = M[s]
      BY <1>3, <1>4, <3>1, Zenon
    <3> QED BY <2>4, <3>2
  <2>5. CASE Skipped(s) /\ r[i] = Inputs(s)[1]
    <3>1. Defined(c, Inputs(s)[1])
      BY <2>1, <2>5
    <3>2. Type(s) \in {"transpose", "ew_add"}
      BY <2>5 DEF Skipped, AddsBias
    <3>3. 1 \in InputEdges(s)
      BY <2>2, <3>2, EdgesAre DEF NumInputs, Ended
    <3>4. NameValue(c, f, Inputs(s)[1]) = M[In(s, 1)]
      BY <1>4, <2>2, <3>1, <3>3, Zenon
    <3>5. M[s] = M[In(s, 1)]
      <4>1. M[s] = Term(M, s)
        BY <2>2, Zenon
      <4> HIDE DEF s
      <4> QED BY <2>5, <3>2, <4>1 DEF Term
    <3> QED BY <2>5, <3>4, <3>5
  <2> QED BY <2>3, <2>4, <2>5, Zenon
<1>6. M[n] = <<Type(n), [i \in InputEdges(n) |-> M[In(n, i)]]>>
  <2>1. M[n] = Term(M, n)
    BY <1>3, Zenon
  <2>2. Type(n) # "input" /\ Type(n) # "weight" /\ ~ Skipped(n)
    BY <1>1, <1>3 DEF Operators, Plain
  <2> HIDE DEF n
  <2> QED BY <2>1, <2>2 DEF Term
<1> HIDE DEF n, r
<1>7. [i \in DOMAIN r |-> NameValue(c, f, r[i])] = [i \in InputEdges(n) |-> M[In(n, i)]]
  BY <1>2, <1>5
<1>8. ctes[c].op = n /\ ctes[c].reads = r
  BY <1>1 DEF n, r
<1> QED BY <1>6, <1>7, <1>8 DEF CteValue

\* The function in QueryValue gives every CTE the value of its operator.
LEMMA QueryIs ==
  ASSUME NEW F, Ended(F), ~ Dangling,
         NEW M, \A m \in 1 .. Len(nodes) : M[m] = Term(M, m)
  PROVE  \E Q : /\ \A c \in DOMAIN ctes : Q[c] = M[ctes[c].op]
                /\ QueryValue = Q[CHOOSE j \in DOMAIN ctes : ctes[j].op = Result]
<1> DEFINE l == Len(ctes)
<1>1. l \in Nat /\ DOMAIN ctes = 1 .. l
  BY LenIs, Zenon DEF Ended, CtesOK
<1> HIDE DEF l
<1>2. \E f : Answers(f)
  <2> DEFINE V == [c \in DOMAIN ctes |-> M[ctes[c].op]]
  <2>1. ASSUME NEW c \in DOMAIN ctes PROVE V[c] = CteValue(V, c)
    <3>1. Right(M, V, c - 1)
      <4>1. \A j \in 1 .. (c - 1) : j \in DOMAIN ctes
        BY <1>1
      <4> QED BY <4>1 DEF Right
    <3>2. V[c] = M[ctes[c].op]
      OBVIOUS
    <3> HIDE DEF V
    <3>3. CteValue(V, c) = M[ctes[c].op]
      BY <3>1, CteComputes, Zenon
    <3> QED BY <3>2, <3>3, Zenon
  <2>2. V = [c \in DOMAIN ctes |-> V[c]]
    OBVIOUS
  <2> HIDE DEF V
  <2>3. [c \in DOMAIN ctes |-> V[c]] = [c \in DOMAIN ctes |-> CteValue(V, c)]
    BY <2>1
  <2> QED BY <2>2, <2>3 DEF Answers
<1> DEFINE Q == CHOOSE f : Answers(f)
<1>3. Answers(Q)
  BY <1>2, Zenon
<1>4. QueryValue = Q[CHOOSE j \in DOMAIN ctes : ctes[j].op = Result]
  BY Zenon DEF QueryValue, Answers, CteValue, NameValue, Result
<1> HIDE DEF Q
<1>5. \A c \in DOMAIN ctes : Q[c] = CteValue(Q, c)
  BY <1>3 DEF Answers
<1> DEFINE Bad == {c \in 1 .. l : Q[c] # M[ctes[c].op]}
<1>6. CASE Bad # {}
  <2>1. Bad \subseteq Nat
    OBVIOUS
  <2>2. PICK c \in Bad : \A k \in Bad : c <= k
    BY <1>6, <2>1, Least, Zenon
  <2>3. c \in DOMAIN ctes /\ Q[c] # M[ctes[c].op]
    BY <1>1, <2>2
  <2>4. \A j \in 1 .. (c - 1) : j \in 1 .. l /\ ~ (c <= j)
    BY <1>1, <2>2
  <2>5. Right(M, Q, c - 1)
    BY <2>2, <2>4, Zenon DEF Right
  <2>6. CteValue(Q, c) = M[ctes[c].op]
    BY <2>3, <2>5, CteComputes, Zenon
  <2> QED BY <1>5, <2>3, <2>6, Zenon
<1>7. CASE Bad = {}
  <2>1. \A c \in DOMAIN ctes : Q[c] = M[ctes[c].op]
    BY <1>1, <1>7, Zenon
  <2> QED BY <1>4, <2>1, Zenon
<1> QED BY <1>6, <1>7, Zenon

\* The query computes the value of its result in the model.
LEMMA EndedComputes ==
  ASSUME NEW F, Ended(F), ~ Dangling
  PROVE  QueryValue = ModelValue(Result)
<1>1. PICK M : /\ \A m \in 1 .. Len(nodes) : M[m] = Term(M, m)
               /\ \A n : ModelValue(n) = M[n]
  BY ModelValueIs, Zenon DEF Ended
<1>2. PICK Q : /\ \A c \in DOMAIN ctes : Q[c] = M[ctes[c].op]
               /\ QueryValue = Q[CHOOSE j \in DOMAIN ctes : ctes[j].op = Result]
  BY <1>1, QueryIs, Zenon
<1>3. Result \in Written(Len(ctes))
  BY Zenon DEF Dangling, Result
<1>4. \E c \in DOMAIN ctes : ctes[c].op = Result
  BY <1>3, CteOf, Zenon DEF Ended
<1> DEFINE j == CHOOSE j \in DOMAIN ctes : ctes[j].op = Result
<1>5. j \in DOMAIN ctes /\ ctes[j].op = Result
  BY <1>4, Zenon
<1> HIDE DEF j
<1>6. QueryValue = Q[j]
  BY <1>2, Zenon DEF j
<1>7. Q[j] = M[Result]
  BY <1>2, <1>5
<1> QED BY <1>1, <1>6, <1>7, Zenon

\* The last operator of the list is the model's only output, if it has only one.
LEMMA EndedReadsResult ==
  ASSUME ExportInv, phase = "done", NEW s, Sinks = {s}
  PROVE  Result \in Range(nodes[s].in)
<1> DEFINE F == ToExport
           L == get_operator_list
           l == L[Len(L)]
<1>1. Ended(F) /\ GraphOK /\ L # <<>> /\ BuildInv
  BY AtEnd, BuiltIsOK, Zenon DEF ExportInv
<1>2. /\ IsSeq(L) /\ Once(L)
      /\ \A x : Lists(L, x) <=> x \in Operators
      /\ \A a \in 1 .. Len(L) : \A i \in 1 .. NumInputs(Type(L[a])) :
           In(L[a], i) \in Operators => \E c \in 1 .. Len(L) : c < a /\ L[c] = In(L[a], i)
  BY <1>1, OperatorList, Zenon
<1>3. /\ Len(L) \in Nat \ {0} /\ Len(F) = Len(L) - 1
      /\ \A a \in 1 .. Len(F) : F[a] = L[a]
  BY <1>1, ToExportIs, Zenon
<1> HIDE DEF F, L
<1>4. Len(L) \in 1 .. Len(L)
  BY <1>3
<1>5. l \in Operators
  BY <1>2, <1>4, Zenon DEF Lists
<1>6. DOMAIN nodes = 1 .. Len(nodes) /\ \A m \in Operators : m \in 1 .. Len(nodes)
  BY <1>1, Zenon DEF GraphOK, Operators
<1>7. ASSUME NEW m \in DOMAIN nodes, NEW i \in DOMAIN nodes[m].in
      PROVE  m \in Operators /\ i \in 1 .. NumInputs(Type(m))
  <2>1. i \in 1 .. NumInputs(Type(m))
    BY <1>1, <1>6, <1>7, Zenon DEF GraphOK
  <2>2. Type(m) \notin {"input", "weight"}
    BY <2>1 DEF NumInputs
  <2> QED BY <1>7, <2>1, <2>2, Zenon DEF Operators
<1>8. ASSUME NEW m \in DOMAIN nodes, NEW i \in DOMAIN nodes[m].in, In(m, i) = l
      PROVE  FALSE
  <2>1. m \in Operators /\ i \in 1 .. NumInputs(Type(m))
    BY <1>7, <1>8, Zenon
  <2>2. PICK a \in 1 .. Len(L) : L[a] = m
    BY <1>2, <2>1, Zenon DEF Lists
  <2>3. PICK c \in 1 .. Len(L) : c < a /\ L[c] = l
    <3>1. i \in 1 .. NumInputs(Type(L[a])) /\ In(L[a], i) = l
      BY <1>8, <2>1, <2>2
    <3> QED BY <1>2, <1>5, <3>1, Zenon
  <2>4. c = Len(L)
    BY <1>2, <1>4, <2>3, Zenon DEF Once
  <2> QED BY <1>3, <2>2, <2>3, <2>4
<1>9. ASSUME NEW n \in Operators
      PROVE  \/ n \in Sinks
             \/ \E m \in DOMAIN nodes : \E i \in DOMAIN nodes[m].in : In(m, i) = n
  <2>1. n \in tensors \/ ReadIn(graph, n)
    BY <1>1, <1>6, Zenon DEF BuildInv
  <2>2. ReadIn(graph, n) =>
          \E m \in DOMAIN nodes : \E i \in DOMAIN nodes[m].in : In(m, i) = n
    <3> SUFFICES ASSUME ReadIn(graph, n)
                 PROVE  \E m \in DOMAIN nodes : \E i \in DOMAIN nodes[m].in : In(m, i) = n
      OBVIOUS
    <3>1. graph.nodes = nodes
      BY <1>1, ArgumentsAre, Zenon
    <3>2. PICK m \in 1 .. Len(nodes) : \E i \in 1 .. Len(nodes[m].in) : nodes[m].in[i] = n
      BY <3>1 DEF ReadIn
    <3>3. DOMAIN nodes[m].in = 1 .. Len(nodes[m].in)
      <4>1. IsSeq(nodes[m].in)
        <5>1. NodeOK(graph, m)
          BY <1>1, <3>1 DEF BuildInv, GoodGraph
        <5> QED BY <3>1, <5>1 DEF NodeOK, Wired
      <4> QED BY <4>1, LenIs, Zenon
    <3> QED BY <1>6, <3>2, <3>3, Zenon DEF In
  <2>3. Type(n) # "input" /\ Type(n) # "weight"
    BY <1>9 DEF Operators
  <2>4. n \in tensors => n \in Features \ {1}
    <3>1. n # 1
      BY <1>1, <2>3 DEF BuildInv, Type
    <3>2. n \notin Weights
      BY <2>3 DEF Weights, Type
    <3> QED BY <3>1, <3>2 DEF Features
  <2>5. n \in Features \ {1} =>
          n \in Sinks \/ \E m \in DOMAIN nodes : n \in Range(nodes[m].in)
    BY Zenon DEF Sinks
  <2>6. \A m : n \in Range(nodes[m].in) => \E i \in DOMAIN nodes[m].in : In(m, i) = n
    BY DEF Range, In
  <2> QED BY <2>1, <2>2, <2>4, <2>5, <2>6, Zenon
<1>10. l = s
  <2>1. l \in Sinks
    BY <1>5, <1>8, <1>9, Zenon
  <2> QED BY <2>1
<1>11. PICK c \in 1 .. Len(F) : Result = F[c]
  BY <1>1, Zenon DEF Ended, Firsts
<1>12. c \in 1 .. Len(L) /\ c # Len(L) /\ Result = L[c]
  BY <1>3, <1>11
<1>13. Result # l /\ Result \in Operators
  <2>1. Result # l
    BY <1>2, <1>4, <1>12, Zenon DEF Once
  <2> QED BY <1>2, <1>12, <2>1, Zenon DEF Lists
<1>14. PICK m \in DOMAIN nodes : \E i \in DOMAIN nodes[m].in : In(m, i) = Result
  <2>1. Result \notin Sinks
    BY <1>10, <1>13
  <2> QED BY <1>9, <1>13, <2>1, Zenon
<1>15. PICK i \in DOMAIN nodes[m].in : In(m, i) = Result
  BY <1>14, Zenon
<1>16. m \in Operators /\ i \in 1 .. NumInputs(Type(m)) /\ m \in 1 .. Len(nodes)
  BY <1>6, <1>7, Zenon
<1>17. m \notin Firsts(F, Len(F))
  <2> SUFFICES ASSUME m \in Firsts(F, Len(F)) PROVE FALSE
    OBVIOUS
  <2>1. i \notin InputEdges(m)
    BY <1>1, <1>15, Zenon DEF Ended, OutputsOK
  <2>2. Type(m) = "pool2d_avg" /\ InputEdges(m) = 1 .. 1
    BY <1>1, <1>16, <2>1, EdgesAre, Zenon
  <2>3. i = 2
    BY <1>16, <2>1, <2>2 DEF NumInputs
  <2>4. Type(Result) = "weight"
    BY <1>1, <1>15, <1>16, <2>2, <2>3 DEF GraphOK
  <2> QED BY <1>13, <2>4 DEF Operators
<1>18. m = l
  <2>1. PICK a \in 1 .. Len(L) : L[a] = m
    BY <1>2, <1>16, Zenon DEF Lists
  <2>2. a \notin 1 .. Len(F)
    <3>1. a \in 1 .. Len(F) => m = F[a]
      BY <1>3, <2>1, Zenon
    <3> QED BY <1>17, <3>1, Zenon DEF Firsts
  <2>3. a = Len(L)
    BY <1>3, <2>1, <2>2
  <2> QED BY <2>1, <2>3
<1>19. Result \in Range(nodes[m].in)
  BY <1>15, Zenon DEF Range, In
<1> QED BY <1>10, <1>18, <1>19

\* A query of export that has no dangling name computes the model, for any ONNX
\* model, up to the operator "del opList[-1]" leaves out.
THEOREM QueryIsModel == ExportSpec => []QueryComputesModel
<1>1. ExportInv => QueryComputesModel
  BY AtEnd, EndedComputes, EndedReadsResult, Zenon DEF QueryComputesModel
<1> QED BY <1>1, ExportHolds, PTL

\* What holds of the loader holds while export runs.
THEOREM ExportKeepsGraph == ExportSpec => Spec
<1>1. ExportInit => Init
  BY DEF ExportInit
<1>2. [ExportNext]_allVars => [Next]_vars
  BY ExportOnlyReads
<1> QED BY <1>1, <1>2, PTL DEF ExportSpec, Spec

=============================================================================
