------------------------------- MODULE Windows -------------------------------
(***************************************************************************)
(* The loops that slide a window over an image: im2col and its parallel    *)
(* variants (matrix_op.c, conv.c, textcnn.c) and the poolings (pool.c).    *)
(* Each caller allocates the output from the geometry, and the threads of  *)
(* an OpenMP team fill it, an iteration each, an element at a time.  An    *)
(* element of the output is the set of input positions it is made of: one  *)
(* position or, in the padding, none for im2col; the window for a pooling. *)
(***************************************************************************)
EXTENDS Integers, FiniteSets

CONSTANTS
  Threads,      \* the OpenMP team
  Geometries,   \* the calls: loop, image, channels, kernel, padding, stride
  IDLE

\* The loops, by the function whose buffer they fill.
Parallel == {"kfm_im2col", "group_kfm_im2col", "ns_W", "ns_H", "conv_text"}
Poolings == {"maxpool", "avgpool"}
Loops == Parallel \cup Poolings \cup {"im2col"}

VARIABLES
  geo,    \* the call
  todo,   \* the iterations no thread has started
  busy,   \* what each thread is doing: its iteration and the next element
  mem     \* the elements written so far

loopVars == <<geo, todo, busy, mem>>

----------------------------------------------------------------------------
(* The geometry as the callers compute it.                                 *)

\* Mutant: a root is rounded up.
RootUp(n) == CHOOSE r \in 0 .. n : r * r >= n /\ \A q \in 0 .. r - 1 : q * q < n

\* sqrt, as an integer.
Root(n) == CHOOSE r \in 0 .. n : r * r <= n /\ n < (r + 1) * (r + 1)

\* height = width = sqrt(nelems_channel): an array has channels and elements of a
\* channel, and no height.  conv_text has its matrix's own dimensions.
Height(g) == IF g.loop = "conv_text" THEN g.h ELSE Root(g.h * g.w)
Width(g) == IF g.loop = "conv_text" THEN g.w ELSE Root(g.h * g.w)

ASSUME GeometryAssumption ==
  \A g \in Geometries :
    /\ g.loop \in Loops
    /\ g.h \in Nat \ {0} /\ g.w \in Nat \ {0} /\ g.c \in Nat \ {0}
    /\ g.kh \in Nat \ {0} /\ g.kw \in Nat \ {0} /\ g.s \in Nat \ {0}
    /\ g.ph \in Nat /\ g.pw \in Nat
    /\ g.kh <= Height(g) + 2 * g.ph /\ g.kw <= Width(g) + 2 * g.pw
    /\ g.loop = "ns_W" => g.kh = 1
    /\ g.loop = "conv_text" => g.c = 1
    /\ g.loop \notin {"ns_W", "ns_H", "conv_text"} => g.kh = g.kw /\ g.ph = g.pw

Out(size, pad, k, stride) == (size + 2 * pad - k) \div stride + 1
OutHeight(g) == Out(Height(g), g.ph, g.kh, g.s)
OutWidth(g) == Out(Width(g), g.pw, g.kw, g.s)

\* im2col and group_kfm_im2col round in another way.
OutShort(g) == (Width(g) + 2 * g.pw - g.kw + 1) \div g.s

\* The windows there is room for.
Allocated(g) ==
  IF g.loop \in {"im2col", "group_kfm_im2col"}
  THEN OutShort(g) * OutShort(g)
  ELSE OutWidth(g) * OutHeight(g)

Kernel(g) == g.c * g.kh * g.kw

Size(g) == Allocated(g) * (IF g.loop \in Poolings THEN g.c ELSE Kernel(g))

----------------------------------------------------------------------------
(* The loops.                                                              *)

\* im2col_core_W runs over every row and im2col_core_H over every column;
\* conv_text starts at 0 whatever the padding.
PadH(g) == IF g.loop \in {"ns_W", "conv_text"} THEN 0 ELSE g.ph
PadW(g) == IF g.loop \in {"ns_H", "conv_text"} THEN 0 ELSE g.pw
SpanH(g) == IF g.loop = "ns_W" THEN 1 ELSE g.kh
SpanW(g) == IF g.loop = "ns_H" THEN 1 ELSE g.kw

\* for (int rn = -padding; rn < height + padding - kernel + 1; rn += stride)
Starts(size, pad, span, stride) ==
  {x \in -pad .. (size + pad - span) : (x + pad) % stride = 0}

RowStarts(g) == Starts(Height(g), PadH(g), SpanH(g), g.s)
ColStarts(g) == Starts(Width(g), PadW(g), SpanW(g), g.s)

\* What the threads share out: windows, or channels for a pooling.
Iterations(g) ==
  IF g.loop \in Poolings THEN 0 .. (g.c - 1)
  ELSE {<<rn, cn>> : rn \in RowStarts(g), cn \in ColStarts(g)}

\* Mutant: the height taken for the width in every loop.
PitchHeight(g) ==
  IF g.loop \in {"im2col"} \cup Poolings THEN Cardinality(ColStarts(g))
  ELSE OutHeight(g)

\* The windows of a row of the output: im2col counts what it writes,
\* im2col_core_H takes the height.
Pitch(g) ==
  CASE g.loop \in {"im2col"} \cup Poolings -> Cardinality(ColStarts(g))
    [] g.loop = "ns_H" -> OutHeight(g)
    [] OTHER -> OutWidth(g)

WindowLen(g) == g.c * SpanH(g) * SpanW(g)

\* Elements of one iteration.
Steps(g) ==
  IF g.loop \in Poolings THEN Cardinality(RowStarts(g)) * Pitch(g)
  ELSE WindowLen(g)

\* res_idx_local, off elements into iteration i.
Dest(g, i, off) ==
  IF g.loop \in Poolings THEN i * Allocated(g) + off
  ELSE (((i[1] + PadH(g)) \div g.s) * Pitch(g) + (i[2] + PadW(g)) \div g.s)
         * WindowLen(g) + off

\* What a thread is doing: its iteration and the next element.
Job(g) == [it : Iterations(g), off : 0 .. (Steps(g) - 1)]

ASSUME IdleAssumption == \A g \in Geometries : IDLE \notin Job(g)

Inside(g, y, x) == y \in 0 .. (Height(g) - 1) /\ x \in 0 .. (Width(g) - 1)

\* The input position of channel c at row y and column x.  avgpool_core steps from
\* channel to channel by width * height, the others by nelems_channel.
At(g, c, y, x) ==
  c * (IF g.loop = "avgpool" THEN Height(g) * Width(g) ELSE g.h * g.w) + y * Width(g) + x

\* Mutant: the kernel read column by column.
CopiedTransposed(g, rn, cn, off) ==
  LET c == off \div (SpanH(g) * SpanW(g))
      kx == (off \div SpanH(g)) % SpanW(g)
      ky == off % SpanH(g)
  IN IF Inside(g, rn + ky, cn + kx) THEN {At(g, c, rn + ky, cn + kx)} ELSE {}

\* input_f[matrix_head_c + ky_offset[ky] + kx], or the 0 of the padding.
Copied(g, rn, cn, off) ==
  LET c == off \div (SpanH(g) * SpanW(g))
      ky == (off \div SpanW(g)) % SpanH(g)
      kx == off % SpanW(g)
  IN IF Inside(g, rn + ky, cn + kx) THEN {At(g, c, rn + ky, cn + kx)} ELSE {}

\* The positions of the window that fmaxf or the sum runs over.
Pooled(g, c, rn, cn) ==
  {At(g, c, rn + k[1], cn + k[2]) :
     k \in {k \in (0 .. (g.kh - 1)) \X (0 .. (g.kw - 1)) :
              Inside(g, rn + k[1], cn + k[2])}}

Value(g, i, off) ==
  IF g.loop \in Poolings
  THEN Pooled(g, i, (off \div Pitch(g)) * g.s - PadH(g),
              (off % Pitch(g)) * g.s - PadW(g))
  ELSE Copied(g, i[1], i[2], off)

----------------------------------------------------------------------------

LoopInit ==
  /\ geo \in Geometries
  /\ todo = Iterations(geo)
  /\ busy = [t \in Threads |-> IDLE]
  /\ mem = [x \in {} |-> {}]

\* im2col has no team: one loop nest, in order.
Serial(g) == g.loop = "im2col"
First(S) == CHOOSE i \in S : \A j \in S : i[1] < j[1] \/ (i[1] = j[1] /\ i[2] <= j[2])

\* A thread takes an iteration of the loop nest.
Take(t) ==
  /\ busy[t] = IDLE
  /\ \E i \in todo :
       /\ Serial(geo) => i = First(todo) /\ \A u \in Threads : busy[u] = IDLE
       /\ todo' = todo \ {i}
       /\ busy' = [busy EXCEPT ![t] = [it |-> i, off |-> 0]]
  /\ UNCHANGED <<geo, mem>>

\* An element of the output is written; next is what the thread does then.
WriteThen(t, next) ==
  /\ busy[t] # IDLE
  /\ LET i == busy[t].it
         off == busy[t].off
         d == Dest(geo, i, off)
     IN mem' = [x \in DOMAIN mem \cup {d} |->
                  IF x = d THEN Value(geo, i, off) ELSE mem[x]]
  /\ busy' = [busy EXCEPT ![t] = next]
  /\ UNCHANGED <<geo, todo>>

\* Mutant: the index is not advanced.
WriteStuck(t) ==
  /\ busy[t] # IDLE
  /\ WriteThen(t, busy[t])

\* f_matrix[res_idx_local++] = ...
Write(t) ==
  /\ busy[t] # IDLE
  /\ WriteThen(t, IF busy[t].off + 1 = Steps(geo) THEN IDLE
                  ELSE [busy[t] EXCEPT !.off = @ + 1])

LoopNext == \E t \in Threads : Take(t) \/ Write(t)

\* The iterations of a parallel loop are finished by its threads.
LoopSpec == LoopInit /\ [][LoopNext]_loopVars /\ WF_loopVars(LoopNext)

----------------------------------------------------------------------------
(* What the callers expect of the buffer.                                  *)

Finished == todo = {} /\ \A t \in Threads : busy[t] = IDLE

RightWidth(g) == Out(g.w, g.pw, g.kw, g.s)
Windows(g) == RightWidth(g) * Out(g.h, g.ph, g.kh, g.s)
Pixel(g, c, y, x) == c * g.h * g.w + y * g.w + x

\* im2col by its definition: element e of window v is kernel position
\* (ky, kx) of a channel, at output row v \div RightWidth.
Expected(g, p) ==
  LET v == p \div Kernel(g)
      e == p % Kernel(g)
      y == (v \div RightWidth(g)) * g.s - g.ph + ((e \div g.kw) % g.kh)
      x == (v % RightWidth(g)) * g.s - g.pw + (e % g.kw)
  IN IF y \in 0 .. (g.h - 1) /\ x \in 0 .. (g.w - 1)
     THEN {Pixel(g, e \div (g.kh * g.kw), y, x)} ELSE {}

\* Pooling by its definition: the part of the window inside the image.
ExpectedPool(g, p) ==
  LET v == p % Windows(g)
      top == (v \div RightWidth(g)) * g.s - g.ph
      left == (v % RightWidth(g)) * g.s - g.pw
  IN {Pixel(g, p \div Windows(g), y, x) :
        y \in (0 .. (g.h - 1)) \cap (top .. (top + g.kh - 1)),
        x \in (0 .. (g.w - 1)) \cap (left .. (left + g.kw - 1))}

\* The buffer the definition fills.
Wanted(g) ==
  IF g.loop \in Poolings
  THEN [p \in 0 .. (Windows(g) * g.c - 1) |-> ExpectedPool(g, p)]
  ELSE [p \in 0 .. (Windows(g) * Kernel(g) - 1) |-> Expected(g, p)]

Square(g) == g.h = Height(g) /\ g.w = Width(g)

\* The calls for which the two roundings, the height used as a width and the
\* padding that is left out make no difference.
Fits(g) ==
  /\ Square(g)
  /\ CASE g.loop \in {"im2col", "group_kfm_im2col"} ->
            (Width(g) + 2 * g.pw - g.kw + 1) % g.s = 0
       [] g.loop = "ns_W" -> g.ph = 0
       [] g.loop = "ns_H" ->
            /\ g.kw = 1 /\ g.pw = 0
            /\ OutHeight(g) = OutWidth(g) \/ OutHeight(g) = 1
       [] g.loop = "conv_text" -> g.ph = 0 /\ g.pw = 0
       [] OTHER -> TRUE

\* The variables have their types: no iteration is taken twice.
LoopTypeOK ==
  /\ todo \subseteq Iterations(geo)
  /\ busy \in [Threads -> Job(geo) \cup {IDLE}]
  /\ \A t \in Threads : busy[t] # IDLE => busy[t].it \notin todo

\* Every position a loop reads is one of the image it was given, square or not.
ReadsInBounds ==
  /\ LoopTypeOK
  /\ \A x \in DOMAIN mem : mem[x] \subseteq 0 .. (geo.c * geo.h * geo.w - 1)

\* No two iterations write the same element, so that the OpenMP loops have no
\* race: a thread is never about to write what has been written.
NoRace ==
  Fits(geo) =>
    \A t \in Threads :
      busy[t] # IDLE => Dest(geo, busy[t].it, busy[t].off) \notin DOMAIN mem

Right == mem = Wanted(geo) /\ Size(geo) = Cardinality(DOMAIN mem)

\* When the loop ends the buffer its caller allocated is filled, no more and no
\* less, with exactly what im2col or the pooling is by definition, if and only if
\* the call fits: whatever the order in which the threads ran.  An image that is
\* not square is right by accident only, with one window or windows of one pixel.
RightIffFits ==
  Finished =>
    /\ Fits(geo) => Right
    /\ Right => Fits(geo) \/ (~ Square(geo) /\ (Windows(geo) = 1 \/ Kernel(geo) = geo.c))

\* Every loop comes to its end.
LoopEnds == <>Finished

=============================================================================
