------------------------------ MODULE MCWindows ------------------------------
(* Images of 1 to 4 pixels a side, square and not, and up to 2 channels,     *)
(* kernels of up to 3, strides 1 to 3, with and without padding: calls of    *)
(* every loop that fit and calls that do not.                                *)
EXTENDS Windows

Geo(loop, h, w, c, kh, kw, ph, pw, s) ==
  [loop |-> loop, h |-> h, w |-> w, c |-> c, kh |-> kh, kw |-> kw,
   ph |-> ph, pw |-> pw, s |-> s]

Valid(g) == g.kh <= Height(g) + 2 * g.ph /\ g.kw <= Width(g) + 2 * g.pw

\* Square images, and others with a square number of pixels and without.
Sides(n) == {<<k, k>> : k \in 1 .. n} \cup {<<1, 2>>, <<1, 4>>, <<3, 2>>}

Images(loop) ==
  {g \in {Geo(loop, hw[1], hw[2], c, k, k, p, p, s) : hw \in Sides(4),
            c \in 1 .. 2, k \in 1 .. 3, p \in 0 .. 1, s \in 1 .. 3} :
     Valid(g)}

Strips ==
  {g \in {Geo("ns_W", hw[1], hw[2], 1, 1, k, p, q, s) : hw \in Sides(3),
            k \in 1 .. 3, p \in 0 .. 1, q \in 0 .. 1, s \in 1 .. 2}
       \cup {Geo("ns_H", hw[1], hw[2], 1, k, l, p, q, s) : hw \in Sides(3),
            k \in 2 .. 3, l \in 1 .. 2, p \in 0 .. 1, q \in 0 .. 1,
            s \in 1 .. 2} : Valid(g)}

Texts ==
  {g \in {Geo("conv_text", h, w, 1, k, l, p, q, s) :
            h \in 1 .. 3, w \in 1 .. 3, k \in 1 .. 2, l \in 1 .. 2,
            p \in 0 .. 1, q \in 0 .. 1, s \in 1 .. 2} : Valid(g)}

\* The orders in which the threads may run grow with the product.
MaxElements == 9
Small(S) == {g \in S : Cardinality(Iterations(g)) * Steps(g) <= MaxElements}

MCGeometries ==
  Small(UNION {Images(loop) : loop \in {"im2col", "kfm_im2col",
                                        "group_kfm_im2col"} \cup Poolings}
        \cup Strips \cup Texts)

=============================================================================
