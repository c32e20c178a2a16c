------------------------------ MODULE MCOpMemo ------------------------------
(***************************************************************************)
(* An image, a kernel, a matrix and a bias, and three nodes over them.     *)
(***************************************************************************)
EXTENDS Export

MCTensors == <<[type |-> "input", shape |-> <<1, 1, 4, 4>>],
               [type |-> "weight", shape |-> <<2, 1, 2, 2>>],
               [type |-> "weight", shape |-> <<2, 2>>],
               [type |-> "weight", shape |-> <<2>>]>>
MCShapes == {<<Rest, 2>>, <<1, Rest, 1, 2>>}
MCConstants == {<<2>>}

=============================================================================
