------------------------------ MODULE GfxRaster ------------------------------
(***************************************************************************)
(* The pixels of the software implementation of the graphics library       *)
(* (sw/gfx/drivers/gfx/bare/orgfx_sw.c): rectangles, sprites, lines,       *)
(* triangles and the Bezier curves the glyphs of vector fonts are made of. *)
(*                                                                         *)
(* A coordinate is a number of Sub-ths of a pixel, as the program passes   *)
(* it; products of coordinates are exact.  Points are not transformed;     *)
(* depth buffer, blending and the interpolation of colours are left out.   *)
(* A surface is the memory it occupies, rows of W pixels one after the     *)
(* other.                                                                  *)
(***************************************************************************)
EXTENDS Integers, Sequences

CONSTANTS W, H,       \* size of the target
          Sub,        \* FIXEDW: parts of a pixel
          Points,     \* corners of triangles and curves
          Ends,       \* ends of lines
          Corners,    \* where rectangles and sprites are put
          Image,      \* the texture: rows of colours
          Key         \* the colour key, or a colour the image does not have

RasterAssumption ==
    /\ {W, H, Sub} \subseteq Nat \ {0}
    /\ Points \subseteq Int \X Int /\ Ends \subseteq Int \X Int /\ Corners \subseteq Int \X Int
    /\ \A r, q \in DOMAIN Image : Len(Image[r]) = Len(Image[q])

VARIABLES target,   \* the memory of the render target
          drawn,    \* shapes drawn since the surface was cleared (history)
          line      \* the line being drawn

rastervars == <<target, drawn, line>>

Blank == 0
Color == 1
Memory == 0 .. W * H - 1
Abs(n) == IF n < 0 THEN -n ELSE n
Lesser(a, b) == IF a < b THEN a ELSE b
Greater(a, b) == IF a > b THEN a ELSE b
\* A float becomes an int.
Trunc(a) == IF a >= 0 THEN a \div Sub ELSE -(Abs(a) \div Sub)
Pixel(p) == <<Trunc(p[1]), Trunc(p[2])>>

-----------------------------------------------------------------------------
(* Pixels.                                                                 *)

\* Coordinates up to W and H pass; what lies behind the surface is not ours.
Passes(p) == p[1] \in 0 .. W /\ p[2] \in 0 .. H
Index(p) == p[2] * W + p[1]
put_pixel16(mem, p, c) == IF Passes(p) THEN [i \in Memory |-> IF i = Index(p) THEN c ELSE mem[i]] ELSE mem
orgfx_set_pixel(mem, p, c) == IF c = Key THEN mem ELSE put_pixel16(mem, p, c)
\* All pixels of a set in one colour.
Paint(mem, pixels) == [i \in Memory |-> IF \E p \in pixels : Passes(p) /\ Index(p) = i THEN Color ELSE mem[i]]

-----------------------------------------------------------------------------
(* Triangles and curves: the samples of the bounding box, from its least   *)
(* corner in steps of one pixel, that are on the inner side of all edges.  *)

Corner(t, i) == t[1 + (i % 3)]
Least(t, k) == Lesser(t[1][k], Lesser(t[2][k], t[3][k]))
Most(t, k) == Greater(t[1][k], Greater(t[2][k], t[3][k]))
Samples(t) == {<<Least(t, 1) + i * Sub, Least(t, 2) + j * Sub>> :
                 i \in 0 .. (Most(t, 1) - Least(t, 1) - 1) \div Sub, j \in 0 .. (Most(t, 2) - Least(t, 2) - 1) \div Sub}
\* Twice the area of p, q, r, positive when they turn from x to y.
Cross(p, q, r) == (q[1] - p[1]) * (r[2] - p[2]) - (r[1] - p[1]) * (q[2] - p[2])
\* e0, e1, e2: the parts of the area opposite to the corners.
Edge(t, i, s) == Cross(Corner(t, i + 1), Corner(t, i + 2), s)
Area(t) == Cross(t[1], t[2], t[3])
\* Fault: samples on an edge are left to the neighbour.
Inner_Strict(t, s) == \A i \in 0 .. 2 : Edge(t, i, s) > 0
Inner(t, s) == \A i \in 0 .. 2 : Edge(t, i, s) >= 0

orgfx_triangle3d(t) == IF Area(t) < 0 THEN {} ELSE {Pixel(s) : s \in {s \in Samples(t) : Inner(t, s)}}
\* The curve is where the square of the first factor equals the second: negative on the chord's side.
Side(t, s) == LET double == Edge(t, 1, s) + 2 * Edge(t, 2, s)
              IN double * double - 4 * Edge(t, 2, s) * Area(t)
orgfx_curve(t, inside) ==
    {Pixel(s) : s \in {s \in Samples(t) : Inner(t, s) /\ IF inside THEN Side(t, s) < 0 ELSE Side(t, s) > 0}}

Cover(shape) == IF shape.k = "triangle" THEN orgfx_triangle3d(shape.t) ELSE orgfx_curve(shape.t, shape.k = "inside")

DrawShape(shape) ==
    /\ line.at = "none"
    /\ target' = Paint(target, Cover(shape))
    /\ drawn' = Append(drawn, shape)
    /\ UNCHANGED line

-----------------------------------------------------------------------------
(* Rectangles and sprites: rows from the top, pixels from the left.        *)

Columns(a, b) == {x \in Trunc(a) .. Trunc(b) : x * Sub < b}
\* Texels at the right of and below the image pass too: the first of the next row, or what lies behind.
get_pixel16(u, v, stray) ==
    LET w == Len(Image[1])
        i == v * w + u
    IN IF u \in 0 .. w /\ i < w * Len(Image) THEN Image[1 + i \div w][1 + (i % w)] ELSE stray
\* Fault: the source starts at the corner of the image, whatever the source rectangle.
Texel_FromCorner(p, a, src, stray) == get_pixel16(p[1] - Trunc(a[1]), p[2] - Trunc(a[2]), stray)
\* The texel that goes with a pixel: both count from their corner.
Texel(p, a, src, stray) == get_pixel16(src[1] + p[1] - Trunc(a[1]), src[2] + p[2] - Trunc(a[2]), stray)
\* A pixel at the right of the last column is the first of the next row, which is drawn after it.
LastAt(pixels, i) ==
    LET at == {p \in pixels : Passes(p) /\ Index(p) = i} IN {p \in at : \A q \in at : q[2] <= p[2]}
Pixels(a, b) == Columns(a[1], b[1]) \X Columns(a[2], b[2])
\* The pixels of a rectangle get the colours col gives them.
orgfx_rect(a, b, col) ==
    [i \in Memory |-> LET last == LastAt({p \in Pixels(a, b) : col[p] # Key}, i)
                      IN IF last = {} THEN target[i] ELSE col[CHOOSE p \in last : TRUE]]

Fill(a, b) ==
    /\ line.at = "none" /\ drawn = <<>>
    /\ target' = orgfx_rect(a, b, [p \in Pixels(a, b) |-> Color])
    /\ drawn' = <<[k |-> "fill", t |-> <<a, b>>]>>
    /\ UNCHANGED line

\* orgfxplus_draw_surface, _section: src is the source rectangle.
DrawSection(a, src, stray) ==
    /\ line.at = "none" /\ drawn = <<>>
    /\ LET b == <<a[1] + (src[3] - src[1]) * Sub, a[2] + (src[4] - src[2]) * Sub>>
       IN target' = orgfx_rect(a, b, [p \in Pixels(a, b) |-> Texel(p, a, src, stray)])
    /\ drawn' = <<[k |-> "sprite", t |-> <<a, src>>]>>
    /\ UNCHANGED line

-----------------------------------------------------------------------------
(* Lines: one pixel a turn of a loop without limit.                        *)

NoLine == [at |-> "none", p |-> <<0, 0>>, q |-> <<0, 0>>, x |-> 0, y |-> 0, err |-> 0, path |-> <<>>]
Half(n) == IF n >= 0 THEN n \div 2 ELSE -(Abs(n) \div 2)
Dx == Abs(line.q[1] - line.p[1])
Dy == Abs(line.q[2] - line.p[2])
Sign(a, b) == IF a < b THEN 1 ELSE -1
LineStart(a, b) ==
    /\ line.at = "none" /\ drawn = <<>>
    /\ LET p == Pixel(a)
           q == Pixel(b)
           dx == Abs(q[1] - p[1])
           dy == Abs(q[2] - p[2])
       IN /\ line' = [at |-> "loop", p |-> p, q |-> q, x |-> p[1], y |-> p[2],
                      err |-> Half(IF dx > dy THEN dx ELSE -dy), path |-> <<>>]
          /\ target' = orgfx_set_pixel(orgfx_set_pixel(target, p, Color), q, Color)
    /\ UNCHANGED drawn
\* Fault: both corrections look at the error as the first has left it.
NextError_Chained(e) == LET a == IF e > -Dx THEN e - Dy ELSE e IN IF a < Dy THEN a + Dx ELSE a
NextError(e) == e - (IF e > -Dx THEN Dy ELSE 0) + (IF e < Dy THEN Dx ELSE 0)
LineTurn ==
    /\ line.at = "loop"
    /\ target' = orgfx_set_pixel(target, <<line.x, line.y>>, Color)
    /\ LET e == line.err
           here == [line EXCEPT !.path = Append(@, <<line.x, line.y>>)]
       IN line' = IF <<line.x, line.y>> = line.q THEN [here EXCEPT !.at = "done"]
                  ELSE [here EXCEPT !.x = IF e > -Dx THEN @ + Sign(line.p[1], line.q[1]) ELSE @,
                                    !.y = IF e < Dy THEN @ + Sign(line.p[2], line.q[2]) ELSE @,
                                    !.err = NextError(e)]
    /\ UNCHANGED drawn

-----------------------------------------------------------------------------
Triangles == Points \X Points \X Points
Sections == {<<0, 0, Len(Image[1]), Len(Image)>>, <<1, 0, Len(Image[1]), Len(Image)>>}
Kinds == {"triangle", "inside", "outside"}
\* The second shape shares a side with the first, in the other direction.
First == drawn = <<>> /\ \E t \in Triangles, k \in Kinds : Area(t) > 0 /\ DrawShape([k |-> k, t |-> t])
Second == /\ Len(drawn) = 1 /\ drawn[1].k \in Kinds
          /\ \E i, j \in 0 .. 2, p \in Points, k \in Kinds :
               LET a == Corner(drawn[1].t, i + 1)
                   b == Corner(drawn[1].t, i)
                   new(n) == CASE n = j -> a [] n = (j + 1) % 3 -> b [] OTHER -> p
               IN Area(<<new(0), new(1), new(2)>>) > 0 /\ DrawShape([k |-> k, t |-> <<new(0), new(1), new(2)>>])
Rectangle == \E a, b \in Corners : Fill(a, b)
Sprite == \E a \in Corners, src \in Sections, stray \in {Blank, Key} : DrawSection(a, src, stray)
Line == \E a, b \in Ends : LineStart(a, b)

Init == target = [i \in Memory |-> Blank] /\ drawn = <<>> /\ line = NoLine
Next == First \/ Second \/ Rectangle \/ Sprite \/ Line \/ LineTurn
RasterSpec == Init /\ [][Next]_rastervars

-----------------------------------------------------------------------------
(* Properties.                                                             *)

Whole(t) == \A i \in DOMAIN t : t[i][1] % Sub = 0 /\ t[i][2] % Sub = 0
\* The sides a shape fills its region up to: all of a triangle; of a curve filled inside the chord,
\* of one filled outside the other two.
Sides(shape) ==
    {<<Corner(shape.t, i), Corner(shape.t, i + 1)>> :
        i \in CASE shape.k = "triangle" -> 0 .. 2 [] shape.k = "inside" -> {2} [] OTHER -> {0, 1}}
Between(p, q, s) ==
    /\ Cross(p, q, s) = 0 /\ s # p /\ s # q
    /\ s[1] \in Lesser(p[1], q[1]) .. Greater(p[1], q[1]) /\ s[2] \in Lesser(p[2], q[2]) .. Greater(p[2], q[2])
Painted(s) == LET p == Pixel(s) IN p[1] < W /\ p[2] < H => target[Index(p)] = Color
OnGrid == {<<x * Sub, y * Sub>> : x \in 0 .. W - 1, y \in 0 .. H - 1}
\* Two shapes that share a side, as the triangles of a mesh and the triangles and curves of a glyph
\* do, leave no gap along it, nor inside the triangles, when their corners are whole pixels.
NoGap ==
    /\ \A n \in DOMAIN drawn : drawn[n].k = "triangle" /\ Whole(drawn[n].t) =>
         \A s \in OnGrid : (\A i \in 0 .. 2 : Edge(drawn[n].t, i, s) > 0) => Painted(s)
    /\ Len(drawn) = 2 /\ Whole(drawn[1].t) /\ Whole(drawn[2].t) =>
         \A p, q \in Points : <<p, q>> \in Sides(drawn[1]) /\ <<q, p>> \in Sides(drawn[2]) =>
             \A s \in OnGrid : Between(p, q, s) => Painted(s)

\* A line reaches its end after as many turns as its longer side has pixels, and no pixel of it is
\* further than half a pixel from the line, so that the loop ends.
LineExact ==
    line.at # "none" =>
        /\ Len(line.path) <= Greater(Dx, Dy) + 1
        /\ line.at = "done" => Len(line.path) = Greater(Dx, Dy) + 1
        /\ \A k \in DOMAIN line.path :
             2 * Abs(Cross(line.p, line.q, line.path[k])) <= Greater(Dx, Dy)

\* A sprite shows the texels of its source rectangle, unscaled and in place, but those of the key,
\* and leaves every other pixel alone, as long as it does not cross the right edge.
SpriteExact ==
    \A n \in DOMAIN drawn : drawn[n].k = "sprite" =>
        LET a == drawn[n].t[1]
            src == drawn[n].t[2]
            left == Trunc(a[1])
            top == Trunc(a[2])
            image(x, y) == Image[1 + src[2] + y - top][1 + src[1] + x - left]
        IN a[1] % Sub = 0 /\ a[2] % Sub = 0 /\ left + src[3] - src[1] <= W =>
             \A x \in 0 .. W - 1, y \in 0 .. H - 1 :
                target[Index(<<x, y>>)] =
                    IF /\ x \in left .. left + src[3] - src[1] - 1 /\ y \in top .. top + src[4] - src[2] - 1
                       /\ image(x, y) # Key
                    THEN image(x, y) ELSE Blank
=============================================================================
