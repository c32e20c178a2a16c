------------------------------- MODULE OpMemo -------------------------------
(***************************************************************************)
(* The graph builder of the query generator and the memo of its model.     *)
(* load_onnx calls one Graph method per ONNX node; the method asks the     *)
(* model for an operator, and the model looks up a key made of the shapes  *)
(* of the input tensors and the parameters.  On a hit the new node shares  *)
(* the operator object (ptr) of an earlier node, with the input and output *)
(* tensors recorded in it.                                                 *)
(*                                                                         *)
(* A tensor is its shape: all strides are those of the default layout, no  *)
(* dimension is split, and a node has one output.                          *)
(***************************************************************************)
EXTENDS Naturals, Sequences, FiniteSetsExt

CONSTANTS
  Tensors,   \* the inputs and weights of the model: [type, shape]
  MaxOnnx,   \* bound on the nodes of an ONNX model
  Strides,   \* of convolutions and pools, the same in both directions
  Paddings,  \* a subset of {"same", "valid"}
  PoolSizes, \* kernels of pools
  Shapes,    \* arguments of reshape
  Constants  \* shapes of Constant nodes

\* load_onnx makes the input of the model first and then its weights.
ASSUME ModelAssumption ==
  /\ MaxOnnx \in Nat
  /\ Tensors \in Seq([type : {"input", "weight"}, shape : Seq(Nat)]) \ {<<>>}
  /\ \A i \in DOMAIN Tensors : Tensors[i].type = "input" <=> i = 1
  /\ \A s \in Shapes \cup Constants : s \in Seq(Nat)

VARIABLES
  nodes,    \* the operators of the graph, in the order they were made
  memo,     \* the dictionaries of the model: key -> operator object
  tensors,  \* the nodes whose output has a name in the ONNX model
  cnt       \* ONNX nodes handled so far

vars == <<nodes, memo, tensors, cnt>>

Product(s) ==
  LET p[i \in 0 .. Len(s)] == IF i = 0 THEN 1 ELSE p[i - 1] * s[i] IN p[Len(s)]
Prod(s, i, j) == IF i > j THEN 1 ELSE Product(SubSeq(s, i, j))
volume(s) == Prod(s, 1, Len(s))

----------------------------------------------------------------------------
(* Keys *)

\* Tensor.serialize, without the magic number: numDim, dims, strides, and the
\* splits, of which each overwrites the one before it.
serialize(s) ==
  <<Len(s)>> \o s \o [i \in 1 .. Len(s) |-> Prod(s, i + 1, Len(s))] \o <<0>>

\* Mutant: of the first tensor, only the dimensions are in the key.
Key1Dims(type, pars, s) == <<type, pars, <<Len(s)>>>>

\* The key of an operator with one input.
Key1(type, pars, s) == <<type, pars, serialize(s)>>

\* Mutant: nothing is left of the second tensor either.
Key2Header(type, pars, s, t) == <<type, pars, <<Len(s), Len(t)>>>>

\* The key of an operator with two: both tensors are serialized at one index,
\* so the second overwrites the first as far as it goes.
Key2(type, pars, s, t) ==
  LET a == serialize(s)
      b == serialize(t)
  IN  <<type, pars, b \o SubSeq(a, Len(b) + 1, Len(a))>>

----------------------------------------------------------------------------
(* Output shapes: the constructors of op.py *)

Dim(s, i) == IF i < Len(s) THEN s[Len(s) - i] ELSE 1    \* from the last

broadcastable(s, t) ==
  \A i \in 0 .. Min({Len(s), Len(t)}) - 1 :
    Dim(s, i) # 1 /\ Dim(t, i) # 1 => Dim(s, i) = Dim(t, i)

ElementShape(s, t) ==
  LET n == Max({Len(s), Len(t)})
  IN  [i \in 1 .. n |-> Max({Dim(s, n - i), Dim(t, n - i)})]

\* Valid padding needs a kernel no larger than the image.
Extent(h, k, stride, pad) ==
  IF pad = "same" THEN (h + stride - 1) \div stride ELSE ((h - k) \div stride) + 1

Fits(s, kh, kw, pad) == pad = "valid" => kh <= s[3] /\ kw <= s[4]

ConvShape(s, w, stride, pad) ==
  <<s[1], w[1], Extent(s[3], w[3], stride, pad), Extent(s[4], w[4], stride, pad)>>

PoolShape(s, k, stride, pad) ==
  <<s[1], s[2], Extent(s[3], k, stride, pad), Extent(s[4], k, stride, pad)>>

MatmulShape(s, w) == [s EXCEPT ![Len(s)] = w[Len(w)]]

\* reshape: a zero takes the dimension of the input, and Rest, which is -1 in
\* the source, what is left of the volume.
Rest == 99
Named(s, shape) == [i \in DOMAIN shape |-> IF shape[i] = 0 THEN s[i] ELSE shape[i]]
Known(s, shape) == Product(SelectSeq(Named(s, shape), LAMBDA d : d # Rest))
Reshaped(s, shape) ==
  [i \in DOMAIN shape |-> IF shape[i] = Rest THEN volume(s) \div Known(s, shape)
                          ELSE Named(s, shape)[i]]

----------------------------------------------------------------------------

Ptr(type, inputs, out) == [type |-> type, inputs |-> inputs, out |-> out]
Node(ptr, in) == [ptr |-> ptr, in |-> in]
NoOp(t) == Node(Ptr(t.type, <<t.shape>>, t.shape), <<>>)

----------------------------------------------------------------------------
(* The methods of Graph, from a graph g with its memo to the next.  A      *)
(* tensor is the node it comes from; a method returns that of the last     *)
(* node of its graph.                                                      *)

Shape(g, n) == g.nodes[n].ptr.out
Returned(g) == Len(g.nodes)

\* get_or_create_*: a node of its own, with a new guid, around a memoised object.
GetOrCreate(g, key, ptr, in) ==
  LET hit == key \in DOMAIN g.memo
  IN  [nodes |-> Append(g.nodes, Node(IF hit THEN g.memo[key] ELSE ptr, in)),
       memo |-> IF hit THEN g.memo
                ELSE [k \in DOMAIN g.memo \cup {key} |->
                        IF k = key THEN ptr ELSE g.memo[k]]]

new_weight(g, shape) ==
  [g EXCEPT !.nodes = Append(@, NoOp([type |-> "weight", shape |-> shape]))]

Convolves(g, n, w, pad) ==
  LET s == Shape(g, n)
      t == Shape(g, w)
  IN  /\ Len(s) = 4 /\ Len(t) = 4
      /\ s[2] % t[2] = 0
      /\ t[1] % (s[2] \div t[2]) = 0
      /\ Fits(s, t[3], t[4], pad)

conv2d(g, n, w, stride, pad) ==
  LET s == Shape(g, n)
      t == Shape(g, w)
  IN  GetOrCreate(g, Key2("conv2d", <<stride, pad>>, s, t),
                  Ptr("conv2d", <<s, t>>, ConvShape(s, t, stride, pad)), <<n, w>>)

element(g, type, n, m) ==
  LET s == Shape(g, n)
      t == Shape(g, m)
  IN  GetOrCreate(g, Key2(type, <<>>, s, t), Ptr(type, <<s, t>>, ElementShape(s, t)),
                  <<n, m>>)

Multiplies(g, n, w) ==
  LET s == Shape(g, n)
      t == Shape(g, w)
      d == Len(s)
  IN  /\ d = Len(t) /\ d >= 2
      /\ \A i \in 1 .. d - 2 : s[i] = t[i]
      /\ s[d] = t[d - 1]

matmul(g, n, w) ==
  LET s == Shape(g, n)
      t == Shape(g, w)
  IN  GetOrCreate(g, Key2("matmul", <<>>, s, t),
                  Ptr("matmul", <<s, t>>, MatmulShape(s, t)), <<n, w>>)

\* pool2d_avg makes its weight first; the key has the input and the kernel size.
pool2d_avg(g, n, k, stride, pad) ==
  LET s == Shape(g, n)
      h == new_weight(g, <<s[2], 1, k, k>>)
      w == Returned(h)
  IN  GetOrCreate(h, Key1("pool2d_avg", <<k, stride, pad>>, s),
                  Ptr("pool2d_avg", <<s, Shape(h, w)>>, PoolShape(s, k, stride, pad)),
                  <<n, w>>)

relu(g, n) ==
  LET s == Shape(g, n)
  IN  GetOrCreate(g, Key1("relu", <<>>, s), Ptr("relu", <<s>>, s), <<n>>)

Reshapes(g, n, shape) ==
  LET s == Shape(g, n)
  IN  /\ \A i \in DOMAIN shape : shape[i] = 0 => i <= Len(s)
      /\ volume(s) % Known(s, shape) = 0
      /\ volume(Reshaped(s, shape)) = volume(s)

reshape(g, n, shape) ==
  LET s == Shape(g, n)
      t == Reshaped(s, shape)
  IN  GetOrCreate(g, Key1("reshape", t, s), Ptr("reshape", <<s>>, t), <<n>>)

\* get_or_create_transpose never stores what it creates.
transpose(g, n) ==
  LET s == Shape(g, n)
  IN  [g EXCEPT !.nodes =
         Append(@, Node(Ptr("transpose", <<s>>, <<s[2], s[1]>>), <<n>>))]

----------------------------------------------------------------------------
(* load_onnx: a handler for each ONNX node, in an order in which inputs    *)
(* come first.  A handler whose asserts fail ends load_onnx; the guards    *)
(* leave those models out.                                                 *)

\* load_onnx makes the inputs and the weights first.
Init ==
  /\ nodes = [i \in DOMAIN Tensors |-> NoOp(Tensors[i])]
  /\ memo = <<>>
  /\ tensors = DOMAIN Tensors
  /\ cnt = 0

graph == [nodes |-> nodes, memo |-> memo]

Becomes(g) ==
  /\ nodes' = g.nodes
  /\ memo' = g.memo
  /\ tensors' = tensors \cup {Returned(g)}
  /\ cnt' = cnt + 1

\* What an ONNX model applies its nodes to: weights are second inputs, biases, or
\* reshaped.
Weights == {n \in tensors : nodes[n].ptr.type = "weight"}
Features == tensors \ Weights

_add(n, m) ==
  /\ broadcastable(Shape(graph, n), Shape(graph, m))
  /\ Becomes(element(graph, "ew_add", n, m))

_avgpool2d(n) ==
  /\ Len(Shape(graph, n)) = 4
  /\ \E k \in PoolSizes, stride \in Strides, pad \in Paddings :
       /\ Fits(Shape(graph, n), k, k, pad)
       /\ Becomes(pool2d_avg(graph, n, k, stride, pad))

\* A bias is reshaped and added by nodes of their own.
WithConvBias(g, bias) ==
  LET h == reshape(g, bias, <<1, Shape(g, bias)[1], 1, 1>>)
  IN  element(h, "ew_add", Returned(g), Returned(h))

_conv2d(n, w) ==
  \E stride \in Strides, pad \in Paddings :
    /\ Convolves(graph, n, w, pad)
    /\ LET g == conv2d(graph, n, w, stride, pad)
       IN  \/ Becomes(g)
           \/ \E bias \in Weights :
                /\ Shape(g, bias) = <<Shape(g, w)[1]>>
                /\ Becomes(WithConvBias(g, bias))

\* transA is not in the models this loads: it would transpose a batch.
_gemm(n, w) ==
  \E transB \in BOOLEAN :
    LET g == IF transB THEN transpose(graph, w) ELSE graph
        v == IF transB THEN Returned(g) ELSE w
    IN  /\ transB => Len(Shape(graph, w)) = 2
        /\ Multiplies(g, n, v)
        /\ LET h == matmul(g, n, v)
           IN  \/ Becomes(h)
               \/ \E bias \in Weights :
                    /\ broadcastable(Shape(h, Returned(h)), Shape(h, bias))
                    /\ Becomes(element(h, "ew_add", Returned(h), bias))

_relu(n) == Becomes(relu(graph, n))

_reshape(n) ==
  \E shape \in Shapes :
    /\ Reshapes(graph, n, shape)
    /\ Becomes(reshape(graph, n, shape))

\* "Currently treat pad as a no op": its output is its input.  Nor does a node
\* that is not supported, or whose input was skipped so, add anything.
_pad ==
  /\ cnt' = cnt + 1
  /\ UNCHANGED <<nodes, memo, tensors>>

_constant == \E shape \in Constants : Becomes(new_weight(graph, shape))

Next ==
  /\ cnt < MaxOnnx
  /\ \/ \E n \in Features, m \in tensors : _add(n, m)
     \/ \E n \in Features, w \in Weights : _conv2d(n, w) \/ _gemm(n, w)
     \/ \E n \in Features : _avgpool2d(n) \/ _relu(n) \/ _reshape(n)
     \/ _pad \/ _constant

Spec == Init /\ [][Next]_vars

----------------------------------------------------------------------------

\* The variables have their types: a node is fed by earlier nodes only, and an
\* operator object is found in the dictionary of its type.
TypeOK ==
  /\ cnt \in 0 .. MaxOnnx
  /\ tensors \subseteq DOMAIN nodes
  /\ \A n \in DOMAIN nodes :
       /\ \A i \in DOMAIN nodes[n].in : nodes[n].in[i] < n
       /\ Len(nodes[n].ptr.inputs) \in 1 .. 2
  /\ \A k \in DOMAIN memo : memo[k].type = k[1]

\* What check_correctness tests of one edge.
EdgeCorrect(n, i) ==
  LET src == nodes[nodes[n].in[i]].ptr
      dst == nodes[n].ptr
      want == dst.inputs[i]
  IN  /\ Len(src.out) = Len(want)
      /\ \A d \in DOMAIN want :
           \/ src.out[d] = want[d]
           \/ src.type = "conv2d" /\ d = 1
           \/ broadcastable(src.out, want) /\ dst.type = "ew_add"

\* check_correctness asserts it of every graph that a substitution makes: the
\* tensor at the source of an edge has the shape recorded at its destination.
CheckCorrectness ==
  \A n \in DOMAIN nodes : \A i \in DOMAIN nodes[n].in : EdgeCorrect(n, i)

Stale(n, i) == nodes[n].ptr.inputs[i] # Shape(graph, nodes[n].in[i])

\* Only the first tensor of a two-tensor key can be lost: an operator whose
\* recorded input has another shape than its source is a convolution, a product
\* or an elementwise operator, the input is its first, and an earlier node with
\* the same operator object had it.
OnlyFirstInputStale ==
  /\ TypeOK
  /\ \A n \in DOMAIN nodes : \A i \in DOMAIN nodes[n].in :
       Stale(n, i) =>
         /\ i = 1
         /\ nodes[n].ptr.type \in {"conv2d", "matmul", "ew_add"}
         /\ \E m \in 1 .. n - 1 : nodes[m].ptr = nodes[n].ptr /\ ~ Stale(m, i)

\* The keys tell two operators with second inputs of different shapes apart: a
\* graph in which all second inputs differ is as check_correctness wants it.
DistinctWeightsAreSafe ==
  (\A n, m \in DOMAIN nodes :
     Len(nodes[n].in) = 2 /\ Len(nodes[m].in) = 2 /\ n # m =>
       Shape(graph, nodes[n].in[2]) # Shape(graph, nodes[m].in[2]))
  => CheckCorrectness

=============================================================================
