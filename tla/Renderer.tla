------------------------------ MODULE Renderer ------------------------------
(***************************************************************************)
(* The drawing of the 3D game: user_prog/Game3D/Renderer3D.cpp, and        *)
(* BlitUpscale() of its prog.cpp.  Coordinates are integers and divisions  *)
(* exact, where the program has floating point; a polygon is flat to the   *)
(* eye, with one depth (the program's 1/z: larger is nearer).              *)
(* Triangles are those that face the eye: DrawMesh() passes over the other *)
(* ones before it clips.                                                   *)
(***************************************************************************)
EXTENDS Integers, Sequences, FiniteSets

CONSTANTS
  Width, Height,            \* of the image
  SkyWidth, SkyHeight,      \* of the sky
  ScreenWidth, ScreenHeight,
  Triangles,                \* triples of vertices: across, down, and in front of the eye
  MaxDrawn                  \* a bound: how many are drawn in a frame

VARIABLES
  drawn,      \* the triangles of this frame, clipped, in order
  image,      \* from a pixel to the triangle that it shows, or 0
  sky,        \* from a pixel to the pixel of the sky behind it
  zBuffer,
  screen      \* from a pixel of the screen to the pixel of the image

vars == <<drawn, image, sky, zBuffer, screen>>

Pixels == 0..(Width * Height - 1)
Larger(a, b) == IF a > b THEN a ELSE b
Smaller(a, b) == IF a < b THEN a ELSE b
Ceiling(a, b) == - ((- a) \div b)

\* From each pixel of a large picture to a pixel of a small one, or the other way.
Scaled(w, h, fromW, fromH) ==
  [p \in 0..(w * h - 1) |-> (((p \div w) * fromH) \div h) * fromW + ((p % w) * fromW) \div w]

\* Clear() with a sky.
Clear ==
  /\ drawn # <<>>
  /\ drawn' = <<>>
  /\ image' = [p \in Pixels |-> 0]
  /\ zBuffer' = [p \in Pixels |-> 0]
  /\ sky' = Scaled(Width, Height, SkyWidth, SkyHeight)
  /\ UNCHANGED screen

-----------------------------------------------------------------------------
\* ClipTriangle(): vertices at a distance of more than 0 are in front.  A corner of
\* what is left is a vertex, <<i, i>>, or a point between two, <<i, j>>.

InFront(v) == v[3] > 0

Clipped(t) ==
  LET at(i) == LET j == (i % 3) + 1
               IN  (IF InFront(t[i]) THEN <<<<i, i>>>> ELSE <<>>)
                   \o (IF InFront(t[i]) # InFront(t[j]) THEN <<<<i, j>>>> ELSE <<>>)
  IN  at(1) \o at(2) \o at(3)

\* The place of a corner on the image: between two vertices, here, half way.
Place(t, c) == <<(t[c[1]][1] + t[c[2]][1]) \div 2, (t[c[1]][2] + t[c[2]][2]) \div 2>>
Places(t) == LET c == Clipped(t) IN [i \in DOMAIN c |-> Place(t, c[i])]

\* FillTriangle(): the corners in order from top to bottom.
Sorted(a, b, c) ==
  LET p == IF a[2] > b[2] THEN <<b, a, c>> ELSE <<a, b, c>>
      q == IF p[1][2] > p[3][2] THEN <<p[3], p[2], p[1]>> ELSE p
  IN  IF q[2][2] > q[3][2] THEN <<q[1], q[3], q[2]>> ELSE q

\* The first pixel at or after the point where an edge meets a row.
Meets(a, b, y) == Ceiling(a[1] * (b[2] - a[2]) + (b[1] - a[1]) * (y - a[2]), b[2] - a[2])

RowsOf(v) == Larger(v[1][2], 0)..(Smaller(v[3][2], Height) - 1)

RowFilledToTheEnd(v, y) ==
  LET xA == Meets(v[1], v[3], y)
      xB == IF y < v[2][2] THEN Meets(v[1], v[2], y) ELSE Meets(v[2], v[3], y)
  IN  {y * Width + x : x \in Larger(Smaller(xA, xB), 0)..Smaller(Larger(xA, xB), Width - 1)}

RowFilled(v, y) ==
  LET xA == Meets(v[1], v[3], y)
      xB == IF y < v[2][2] THEN Meets(v[1], v[2], y) ELSE Meets(v[2], v[3], y)
  IN  {y * Width + x : x \in Larger(Smaller(xA, xB), 0)..(Smaller(Larger(xA, xB), Width) - 1)}

FillTriangle(a, b, c) ==
  LET v == Sorted(a, b, c) IN UNION {RowFilled(v, y) : y \in RowsOf(v)}

\* DrawMesh() for one triangle: what is not behind the eye is filled, as one triangle
\* or two, where nothing as near has been.
DrawTriangle(t, depth) ==
  LET p == Places(t)
      filled == (IF Len(p) >= 3 THEN FillTriangle(p[1], p[2], p[3]) ELSE {})
                \cup (IF Len(p) = 4 THEN FillTriangle(p[1], p[3], p[4]) ELSE {})
      nearer == {i \in filled : depth > zBuffer[i]}
  IN  /\ Len(drawn) < MaxDrawn
      /\ drawn' = Append(drawn, [of |-> t, depth |-> depth])
      /\ image' = [i \in Pixels |-> IF i \in nearer THEN Len(drawn) + 1 ELSE image[i]]
      /\ zBuffer' = [i \in Pixels |-> IF i \in nearer THEN depth ELSE zBuffer[i]]
      /\ UNCHANGED <<sky, screen>>

\* BlitUpscale()
BlitUpscale ==
  /\ screen = <<>>
  /\ screen' = Scaled(ScreenWidth, ScreenHeight, Width, Height)
  /\ UNCHANGED <<drawn, image, sky, zBuffer>>

Init ==
  /\ drawn = <<>>
  /\ image = [p \in Pixels |-> 0] /\ zBuffer = [p \in Pixels |-> 0]
  /\ sky = Scaled(Width, Height, SkyWidth, SkyHeight)
  /\ screen = <<>>

Next ==
  \/ Clear \/ BlitUpscale
  \/ \E t \in Triangles, depth \in {1, 2} : DrawTriangle(t, depth)

-----------------------------------------------------------------------------
\* A pixel is in a polygon if it is to the right of, or on, an odd number of its edges.
Covers(corners, x, y) ==
  LET n == Len(corners)
      edge(i) == IF corners[i][2] <= corners[(i % n) + 1][2]
                   THEN <<corners[i], corners[(i % n) + 1]>> ELSE <<corners[(i % n) + 1], corners[i]>>
      left(e) == e[1][2] <= y /\ y < e[2][2]
                 /\ e[1][1] * (e[2][2] - e[1][2]) + (e[2][1] - e[1][1]) * (y - e[1][2]) <= x * (e[2][2] - e[1][2])
  IN  Cardinality({i \in 1..n : left(edge(i))}) % 2 = 1

\* The polygon in front of the eye: its vertices, and a point on every edge that goes
\* behind, in their order around the triangle.
InOrder(t, c) ==
  /\ Len(c) \in {0, 3, 4}
  /\ {c[i] : i \in DOMAIN c} =
       {<<i, i>> : i \in {k \in 1..3 : InFront(t[k])}}
       \cup {<<i, (i % 3) + 1>> : i \in {k \in 1..3 : InFront(t[k]) # InFront(t[(k % 3) + 1])}}
  /\ \A i, j \in DOMAIN c : i < j => c[i][1] < c[j][1] \/ (c[i][1] = c[j][1] /\ c[i][1] = c[i][2])

\* A frame shows, at every pixel, the first of the nearest triangles that cover it,
\* or the sky: a clipped triangle is filled without a gap or a row too much where
\* its two halves meet, at the border of the image and between triangles
\* (ClipTriangle, FillTriangle, Clear); and scaling takes every pixel from the
\* picture, and every pixel of the picture when it grows (BlitUpscale).
FrameRight ==
  /\ \A d \in DOMAIN drawn : InOrder(drawn[d].of, Clipped(drawn[d].of))
  /\ \A x \in 0..(Width - 1), y \in 0..(Height - 1) :
       LET over == {d \in DOMAIN drawn : Covers(Places(drawn[d].of), x, y)}
           best == {d \in over : \A e \in over : drawn[d].depth > drawn[e].depth
                                                 \/ (drawn[d].depth = drawn[e].depth /\ d <= e)}
       IN  {image[y * Width + x]} = IF over = {} THEN {0} ELSE best
  /\ \A i \in Pixels : sky[i] \in 0..(SkyWidth * SkyHeight - 1)
  /\ screen # <<>> => {screen[i] : i \in DOMAIN screen} = Pixels
=============================================================================
