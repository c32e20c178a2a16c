----------------------------- MODULE MCOperators -----------------------------
(* A row with an array of 4 channels of 2 by 2, and queries of one to three *)
(* calls: every operator on the column, chains as the generated *)
(* queries have them, and queries that use an array twice.  madd on the      *)
(* column itself is left out: on a plain row the sums would grow for ever.   *)
EXTENDS Operators, TLC

CONSTANTS s1, s2

MCStored ==
  [data |-> [i \in 1 .. 4 |-> <<"in", i>>], rows |-> 4, cols |-> 4]

\* w4 and w2 take 4 and 2 channels; b2 has no bias.
MCWeights ==
  [w \in {"w4", "w2", "b2", "t4"} |->
     CASE w \in {"w4"} -> [rows |-> 2, cols |-> 4, bias |-> 2]
       [] w = "w2" -> [rows |-> 2, cols |-> 2, bias |-> 2]
       [] w = "b2" -> [rows |-> 1, cols |-> 2, bias |-> 4]
       [] w = "t4" -> [rows |-> 4, cols |-> 1, bias |-> 0]]

C(op, arg, w, k, off, n) ==
  [op |-> op, arg |-> arg, w |-> w, k |-> k, p |-> 0, s |-> 1, off |-> off, n |-> n]
U(op, i) == C(op, <<i>>, "w4", 1, <<>>, 1)
Pool(i) == C("maxpool", <<i>>, "w4", 2, <<>>, 1)
Conv(i, w, off) == C("kfm_im2col", <<i>>, w, 1, off, 1)
Group(i, w, n) == C("group_kfm_im2col", <<i>>, w, 1, <<>>, n)

Single ==
  {<<U(op, 0)>> : op \in {"relu", "im2col", "avgpool", "batchnorm", "kfm",
      "kfm_nt", "kfm_nt_acti", "mvm", "avgpool_conv", "split_vertical_array"}}
    \cup {<<Pool(0)>>, <<C("mat_mul", <<0>>, "t4", 1, <<>>, 1)>>,
          <<Conv(0, "w4", <<>>)>>, <<Conv(0, "w2", <<1, 2>>)>>,
          <<Conv(0, "gone", <<1, 2>>)>>, <<Group(0, "w2", 2)>>, <<Group(0, "w2", 3)>>,
          <<Conv(0, "w2", <<1, 5>>)>>,
          <<C("kfm_im2col_ns", <<0>>, "w4", 2, <<2, 3>>, 1)>>,
          <<C("kfm_im2col_ns", <<0>>, "w4", 5, <<2, 3>>, 1)>>,
          <<C("split_array", <<0>>, "w4", 2, <<>>, 2)>>,
          <<C("concat_array", <<0>>, "w4", 1, <<2, 3>>, 1)>>,
          <<C("conv_text", <<0>>, "w4", 2, <<>>, 1)>>}

Chains ==
  {<<Conv(0, "w4", <<>>), U("relu", 1)>>,
   <<Pool(0), Conv(1, "w2", <<2, 3>>)>>,
   <<U("avgpool", 0), Group(1, "b2", 2), U("relu", 2)>>,
   <<Conv(0, "w4", <<>>), Conv(0, "w4", <<>>), C("madd", <<1, 2>>, "w4", 1, <<>>, 1)>>,
   <<U("avgpool", 0), U("batchnorm", 0), C("concat_array", <<1, 2>>, "w4", 1, <<1, 2>>, 1)>>,
   <<Pool(0), C("concat_array", <<0, 1>>, "w4", 1, <<>>, 1)>>,
   <<Pool(0), C("concat_array", <<1>>, "w4", 1, <<2, 6>>, 1), Pool(1)>>,
   <<Pool(0), C("concat_array", <<1, 0>>, "w4", 1, <<>>, 1)>>}

Shared ==
  {<<U("batchnorm", 0), Pool(1), Conv(1, "w4", <<>>)>>,
   <<U("batchnorm", 0), U("relu", 1), C("madd", <<1, 2>>, "w4", 1, <<>>, 1)>>,
   <<U("batchnorm", 0), Conv(1, "w2", <<1, 2>>), Conv(1, "w2", <<3, 4>>)>>,
   <<Pool(0), Conv(0, "w2", <<1, 2>>), C("madd", <<1, 1>>, "w4", 1, <<>>, 1)>>,
   <<Pool(0), C("avgpool_conv", <<1>>, "w4", 1, <<>>, 1)>>,
   <<Conv(0, "w2", <<1, 2>>), Conv(0, "w2", <<3, 4>>)>>}

\* What the second session runs at the same time: a reader, and writers of the
\* data and of the header, one of which fails after it has written.
MCFewQueries ==
  {<<Pool(0)>>, <<U("relu", 0)>>, <<Conv(0, "gone", <<1, 2>>)>>,
   <<Conv(0, "w2", <<1, 2>>), Conv(0, "w2", <<3, 4>>)>>}

MCSessions == {s1, s2}
MCQueries == (s1 :> Single \cup Chains \cup Shared) @@ (s2 :> MCFewQueries)

=============================================================================
