----------------------------- MODULE MCArrayAgg -----------------------------
(* Three rows, each with one of five arrays of two items, an empty array or  *)
(* NULL; sizes are counted in items and start at 2 instead of 1024 and 256,  *)
(* so that every growth happens.                                             *)
EXTENDS ArrayAggOrder

Arr(shape, bits) ==
  [shape |-> shape, bits |-> bits,
   items |-> IF shape = <<>> THEN 0 ELSE 2,
   nbytes |-> IF shape = <<>> THEN 0
              ELSE IF bits = <<>> THEN 2 ELSE bits[1] + bits[2]]

MCArrays ==
  {Arr(<<>>, <<>>), Arr(<<2>>, <<>>), Arr(<<2, 1>>, <<>>), Arr(<<1, 2>>, <<>>),
   Arr(<<1, 2>>, <<0, 1>>), Arr(<<1, 2>>, <<0, 0>>)}

=============================================================================
