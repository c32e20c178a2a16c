----------------------------- MODULE MCGraphXfer -----------------------------
(***************************************************************************)
(* Two inputs and three or four operators over them, under rules that use  *)
(* every outside tensor once, and under one that does not.                 *)
(***************************************************************************)
EXTENDS GraphXfer, TLC

MCArity == [input |-> 1, add |-> 2, mul |-> 2, conv |-> 2, conv_relu |-> 2, relu |-> 1]

Op(kd, in) == [kind |-> kd, in |-> in]

\* The graph of a sequence of operators after the two inputs.
EdgesOf(ops) ==
  {<<0, 1, 1>>, <<0, 2, 1>>}
  \cup UNION {{<<ops[k].in[i], k + 2, i>> : i \in DOMAIN ops[k].in} : k \in DOMAIN ops}
KindOf(ops) == <<"input", "input">> \o [k \in DOMAIN ops |-> ops[k].kind]

Binary(kds, n) == {Op(kd, <<a, b>>) : kd \in kds, a \in 1 .. n, b \in 1 .. n}

Relu(k) == Op("relu", <<k>>)

Nets == {<<p, q, r>> : p \in {Op("add", <<1, 2>>), Op("conv", <<1, 2>>)},
                       q \in Binary({"add"}, 3) \cup {Op("conv", <<3, 2>>), Relu(3)},
                       r \in Binary({"add"}, 4) \cup {Relu(4), Relu(3)}}
        \cup {<<Op("conv", <<1, 2>>), Relu(3), Op("conv", <<a, 2>>), Relu(5)>> :
                a \in {1, 4}}
Products == {<<p, q, r>> : p \in Binary({"mul"}, 2), q \in Binary({"mul"}, 3),
                           r \in Binary({"add"}, 4)}
\* x + y -> y + x
Commute == [src |-> <<Op("add", <<-1, -2>>)>>, dst |-> <<Op("add", <<-2, -1>>)>>,
            outs |-> <<1>>]
\* (x + y) + z -> x + (y + z)
Associate == [src |-> <<Op("add", <<-1, -2>>), Op("add", <<1, -3>>)>>,
              dst |-> <<Op("add", <<-2, -3>>), Op("add", <<-1, 1>>)>>,
              outs |-> (2 :> 2)]
\* (x * z) + (y * z) -> (x + y) * z
Factor == [src |-> <<Op("mul", <<-1, -3>>), Op("mul", <<-2, -3>>), Op("add", <<1, 2>>)>>,
           dst |-> <<Op("add", <<-1, -2>>), Op("mul", <<1, -3>>)>>,
           outs |-> (3 :> 2)]
\* relu (relu x) -> relu x
Idempotent == [src |-> <<Op("relu", <<-1>>), Op("relu", <<1>>)>>,
               dst |-> <<Op("relu", <<-1>>)>>, outs |-> (2 :> 1)]

\* relu (conv x w) -> conv_relu x w, as create_conv_relu makes it
Fuse == [src |-> <<Op("conv", <<-1, -2>>), Op("relu", <<1>>)>>,
         dst |-> <<Op("conv_relu", <<-1, -2>>)>>, outs |-> (2 :> 1)]

Start(seqs) == {[edges |-> EdgesOf(s), kind |-> KindOf(s)] : s \in seqs}
MCNets == Start(Nets)
MCProducts == Start(Products)
MCRules == <<Associate, Commute, Fuse, Idempotent>>
MCFactor == <<Factor>>
MCSamples == {<<3, 5>>, <<-7, 2>>}

=============================================================================
