------------------------------ MODULE Drawing ------------------------------
(***************************************************************************)
(* What is drawn into a buffer of pixels: gui/renderer/nina.cpp, the       *)
(* calls of core/drivers/GraphicsDriver.cpp on the back buffer, text       *)
(* (gui/fonts/font.cpp), and the decoding of a bitmap file (gui/bmp.cpp).  *)
(*                                                                         *)
(* A behaviour is one call.  Its result is the set of pixels it writes,    *)
(* each by its index in the buffer, with the pixel of the bitmap that is   *)
(* copied there or blended with what there is.                             *)
(***************************************************************************)
EXTENDS Integers, Sequences, FiniteSets, FiniteSetsExt, SequencesExt

CONSTANTS
  Width, Height,   \* of the buffer
  Wide,            \* the number of unsigned machine integers
  At,              \* the coordinates that calls give
  Sizes, Radii,    \* and the sizes and radii
  Glyph,           \* from a character of the font to its columns, rows, offsets and advance
  Kerning,         \* from pairs of characters to an adjustment
  Texts,
  Bitmaps          \* the files: the signature, columns, rows, the bytes of a pixel, and whether top-down

VARIABLES call, result
vars == <<call, result>>

Pixel(x, y) == y * Width + x
Inside(x, y) == x \in 0..(Width - 1) /\ y \in 0..(Height - 1)
Visible(points) == {Pixel(p[1], p[2]) : p \in {q \in points : Inside(q[1], q[2])}}
Larger(a, b) == IF a > b THEN a ELSE b
Smaller(a, b) == IF a < b THEN a ELSE b

\* a > b, where one of the two is unsigned
Above(a, b) == a % Wide > b % Wide

-----------------------------------------------------------------------------
\* Shapes of nina.cpp

End(at, size, limit) == IF Above(at + size, limit) THEN limit ELSE at + size

FillRectangle(x, y, w, h) ==
  {Pixel(X, Y) : X \in Larger(x, 0)..(End(x, w, Width) - 1),
                 Y \in Larger(y, 0)..(End(y, h, Height) - 1)}

\* The outline of what is left of a rectangle in the buffer.
DrawRectangle(x, y, w, h) ==
  LET startX == Larger(x, 0)   endX == End(x, w, Width)
      startY == Larger(y, 0)   endY == End(y, h, Height)
  IN  Visible((startX..(endX - 1)) \X {startY, endY - 1})
      \cup Visible({startX, endX - 1} \X (startY..(endY - 1)))

\* The four corners that belong to an offset from the centre of a corner.
Corners(x, y, w, h, r, d) ==
  {x + r - d[1], x + w - r + d[1] - 1} \X {y + r - d[2], y + h - r + d[2] - 1}

Squared(d) == d[1] * d[1] + d[2] * d[2]

FillRoundedRectangle(x, y, w, h, r) ==
  FillRectangle(x + r, y, w - 2 * r, h)
  \cup FillRectangle(x, y + r, w, h - 2 * r)
  \cup Visible(UNION {Corners(x, y, w, h, r, d) :
                        d \in {e \in (0..r) \X (0..r) : Squared(e) <= r * r}})

\* Each loop's counter is compared as an unsigned integer.
Line(from, to) == IF Above(to, from) THEN from..(to - 1) ELSE {}

DrawRoundedRectangle(x, y, w, h, r) ==
  Visible(Line(x + r, x + w - r) \X {y, y + h - 1})
  \cup Visible({x, x + w - 1} \X Line(y + r, y + h - r))
  \cup Visible(UNION {Corners(x, y, w, h, r, d) :
         d \in {e \in (0..r) \X (0..r) :
                  ((r - 1) * (r - 1)) % Wide <= Squared(e) /\ Squared(e) <= r * r}})

\* The loop of both circles: y goes up, and x down when the error is positive.
Octant(r) ==
  LET s[y \in 0..(r + 1)] ==
        IF y = 0 THEN [x |-> r, err |-> 0]
        ELSE LET p == s[y - 1]
             IN  IF p.err <= 0 THEN [x |-> p.x, err |-> p.err + 2 * y + 1]
                 ELSE [x |-> p.x - 1, err |-> p.err + 2 * (y - (p.x - 1)) + 1]
  IN  {<<s[y].x, y>> : y \in {v \in 0..r : s[v].x >= v}}

FillCircle(cx, cy, r) ==
  Visible(UNION {((cx - p[1])..(cx + p[1])) \X {cy - p[2], cy + p[2]}
                 \cup ((cx - p[2])..(cx + p[2])) \X {cy - p[1], cy + p[1]} : p \in Octant(r)})

DrawCircle(cx, cy, r) ==
  Visible(UNION {{cx - p[1], cx + p[1]} \X {cy - p[2], cy + p[2]}
                 \cup {cx - p[2], cx + p[2]} \X {cy - p[1], cy + p[1]} : p \in Octant(r)})

DrawLine(x0, y0, x1, y1) ==
  LET dx == Larger(x1 - x0, x0 - x1)   sx == IF x0 < x1 THEN 1 ELSE -1
      dy == Larger(y1 - y0, y0 - y1)   sy == IF y0 < y1 THEN 1 ELSE -1
      across(p) == 2 * p.err > - dy
      along(p)  == 2 * p.err < dx
      s[i \in 0..(dx + dy)] ==
        IF i = 0 THEN [x |-> x0, y |-> y0, err |-> dx - dy]
        ELSE LET p == s[i - 1]
             IN  IF p.x = x1 /\ p.y = y1 THEN p
                 ELSE [x   |-> IF across(p) THEN p.x + sx ELSE p.x,
                       y   |-> IF along(p) THEN p.y + sy ELSE p.y,
                       err |-> p.err - (IF across(p) THEN dy ELSE 0) + (IF along(p) THEN dx ELSE 0)]
  IN  Visible({<<s[i].x, s[i].y>> : i \in 0..(dx + dy)})

DrawHorizontalLine(x, y, length) == Visible((x..(x + length - 1)) \X {y})
DrawVerticalLine(x, y, length) == Visible({x} \X (y..(y + length - 1)))

-----------------------------------------------------------------------------
\* Bitmaps.  Pixel i of one is clear when 3 divides i, and otherwise drawn.

Drawn(i) == i % 3 # 0

\* NINA::DrawBitmapToBuffer()
DrawBitmapToBuffer(x, y, w, h) ==
  {<<Pixel(x, y + p[2]) + p[1], p[2] * w + p[1]>> :
     p \in {q \in (0..(w - 1)) \X (0..(h - 1)) :
              Inside(x + q[1], y + q[2]) /\ Drawn(q[2] * w + q[1])}}

DrawBitmapWide(x, y, w, h) ==
  {<<Pixel(x, y + p[2]) + p[1], p[2] * w + p[1]>> :
     p \in {q \in (0..(w - 1)) \X (0..(h - 1)) :
              y + q[2] \in 0..(Height - 1) /\ x + q[1] <= Width /\ Drawn(q[2] * w + q[1])}}

\* NINA::DrawBitmap(), which does not look at the left side.
DrawBitmap(x, y, w, h) ==
  {<<Pixel(x, y + p[2]) + p[1], p[2] * w + p[1]>> :
     p \in {q \in (0..(w - 1)) \X (0..(h - 1)) :
              y + q[2] \in 0..(Height - 1) /\ x + q[1] < Width /\ Drawn(q[2] * w + q[1])}}

\* GraphicsDriver::DrawBitmap() clips first, and compares unsigned.
DrawBitmapOnScreen(x, y, w, h) ==
  LET endCol == IF Above(x + w, Width) THEN Width - x ELSE w
      endRow == IF Above(y + h, Height) THEN Height - y ELSE h
  IN  {<<Pixel(x + p[1], y + p[2]), p[2] * w + p[1]>> :
         p \in {q \in (Larger(- x, 0)..(endCol - 1)) \X (Larger(- y, 0)..(endRow - 1)) :
                  Drawn(q[2] * w + q[1])}}

PutPixel(x, y) == IF Above(Width, x) /\ Above(Height, y) THEN {Pixel(x, y)} ELSE {}

\* Where something of a size stands in the middle of the screen.
GetScreenCenter(w, h) ==
  <<IF w >= Width THEN 0 ELSE (Width - w) \div 2, IF h >= Height THEN 0 ELSE (Height - h) \div 2>>

\* A file that Load() refuses leaves the bitmap without pixels.
Refused(b) == ~b.signature \/ b.bytes \notin {3, 4}

\* The pixels of a file, from their place in the bitmap to their place in the file:
\* the pointer goes on by a pixel, and by the padding after a row.
Load(b) ==
  LET padding == (4 - ((b.w * b.bytes) % 4)) % 4
      at[i \in 0..(b.w * b.h)] ==
        IF i = 0 THEN 0
        ELSE at[i - 1] + b.bytes + (IF i % b.w = 0 THEN padding ELSE 0)
      target(y) == IF b.topDown THEN y ELSE b.h - 1 - y
  IN  {<<target(p[2]) * b.w + p[1], at[p[2] * b.w + p[1]]>> :
         p \in IF Refused(b) THEN {} ELSE (0..(b.w - 1)) \X (0..(b.h - 1))}

-----------------------------------------------------------------------------
\* Text

NewLine == "newline"
Clamped(c) == IF c \in DOMAIN Glyph THEN c ELSE "?"
Kern(a, b) == IF <<a, b>> \in DOMAIN Kerning THEN Kerning[<<a, b>>] ELSE 0

\* Font::getStringLength()
GetStringLength(text) ==
  LET length[i \in 0..Len(text)] ==
        IF i = 0 THEN 0
        ELSE length[i - 1] + Glyph[Clamped(text[i])].advance
             + (IF i = 1 THEN 0 ELSE Kern(Clamped(text[i - 1]), Clamped(text[i])))
  IN  length[Len(text)]

\* Font::getLineHeight()
LineHeight == Max({Glyph[c].rows + Glyph[c].top : c \in DOMAIN Glyph} \cup {0})

\* A pen that goes on from where it is when a new line begins.
PensGoingOn(x, y, text) ==
  LET pen[i \in 1..(Len(text) + 1)] ==
        IF i = 1 THEN <<x, y>>
        ELSE LET p == pen[i - 1]
                 c == text[i - 1]
             IN  IF c = NewLine THEN <<p[1], p[2] + LineHeight>>
                 ELSE <<p[1] + Glyph[Clamped(c)].advance
                        + (IF i <= Len(text) THEN Kern(Clamped(c), text[i]) ELSE 0), p[2]>>
  IN  pen

\* NINA::DrawString(): where the pen is before each character, and after the last.
Pens(x, y, text) ==
  LET pen[i \in 1..(Len(text) + 1)] ==
        IF i = 1 THEN <<x, y>>
        ELSE LET p == pen[i - 1]
                 c == text[i - 1]
             IN  IF c = NewLine THEN <<x, p[2] + LineHeight>>
                 ELSE <<p[1] + Glyph[Clamped(c)].advance
                        + (IF i <= Len(text) THEN Kern(Clamped(c), text[i]) ELSE 0), p[2]>>
  IN  pen

DrawCharacter(x, y, c) ==
  {<<p[1], c>> : p \in DrawBitmap(x + Glyph[c].left, y + Glyph[c].top, Glyph[c].columns, Glyph[c].rows)}

DrawString(x, y, text) ==
  LET pen == Pens(x, y, text)
  IN  UNION {DrawCharacter(pen[i][1], pen[i][2], Clamped(text[i])) :
               i \in {j \in DOMAIN text : text[j] # NewLine}}

-----------------------------------------------------------------------------
\* A call is its name and its arguments.

Init ==
  /\ result = <<"none">>
  /\ \/ \E x \in At, y \in At, w \in Sizes, h \in Sizes :
          \E op \in {"FillRectangle", "DrawRectangle", "DrawBitmapToBuffer", "DrawBitmap",
                     "DrawBitmapOnScreen", "PutPixel", "GetScreenCenter"} : call = <<op, x, y, w, h>>
     \/ \E x \in At, y \in At, w \in Sizes, h \in Sizes, r \in Radii :
          \E op \in {"FillRoundedRectangle", "DrawRoundedRectangle"} :
            call = <<op, x, y, w, h, r>>
     \/ \E x \in At, y \in At, r \in Radii :
          \E op \in {"FillCircle", "DrawCircle", "DrawHorizontalLine", "DrawVerticalLine"} :
            call = <<op, x, y, r>>
     \/ \E x0 \in At, y0 \in At, x1 \in At, y1 \in At : call = <<"DrawLine", x0, y0, x1, y1>>
     \/ \E x \in At, y \in {-1, 0, 1}, text \in Texts : call = <<"DrawString", x, y, text>>
     \/ \E b \in Bitmaps : call = <<"Load", b>>

Returns(op, value) == call[1] = op /\ result = <<"none">> /\ result' = <<op, value>> /\ UNCHANGED call

\* The calls of a rectangle, a line or a circle, which GraphicsDriver hands on.
DrawShape ==
  \/ Returns("FillRectangle", FillRectangle(call[2], call[3], call[4], call[5]))
  \/ Returns("DrawRectangle", DrawRectangle(call[2], call[3], call[4], call[5]))
  \/ Returns("FillRoundedRectangle", FillRoundedRectangle(call[2], call[3], call[4], call[5], call[6]))
  \/ Returns("DrawRoundedRectangle", DrawRoundedRectangle(call[2], call[3], call[4], call[5], call[6]))

DrawCurve ==
  \/ Returns("FillCircle", FillCircle(call[2], call[3], call[4]))
  \/ Returns("DrawCircle", DrawCircle(call[2], call[3], call[4]))
  \/ Returns("DrawLine", DrawLine(call[2], call[3], call[4], call[5]))
  \/ Returns("DrawHorizontalLine", DrawHorizontalLine(call[2], call[3], call[4]))
  \/ Returns("DrawVerticalLine", DrawVerticalLine(call[2], call[3], call[4]))

DrawPicture ==
  \/ Returns("DrawBitmapToBuffer", DrawBitmapToBuffer(call[2], call[3], call[4], call[5]))
  \/ Returns("DrawBitmap", DrawBitmap(call[2], call[3], call[4], call[5]))
  \/ Returns("DrawBitmapOnScreen", DrawBitmapOnScreen(call[2], call[3], call[4], call[5]))
  \/ Returns("PutPixel", PutPixel(call[2], call[3]))
  \/ Returns("GetScreenCenter", GetScreenCenter(call[4], call[5]))
  \/ Returns("Load", Load(call[2]))

DrawText ==
  Returns("DrawString", DrawString(call[2], call[3], call[4]))

Next == DrawShape \/ DrawCurve \/ DrawPicture \/ DrawText

-----------------------------------------------------------------------------
\* What the calls should do, pixel by pixel: they should write every pixel of their
\* figure that lies in the buffer, none outside the buffer, and none that is not of
\* the figure.  The code does the third only under the conditions named here.

Buffer == (0..(Width - 1)) \X (0..(Height - 1))
Of(points) == {Pixel(p[1], p[2]) : p \in points}
InRectangle(p, x, y, w, h) == p[1] \in x..(x + w - 1) /\ p[2] \in y..(y + h - 1)

\* Every pixel that should be written is, and when the condition holds no other one.
Writes(pixels, should, condition) ==
  /\ should \subseteq pixels
  /\ condition => pixels \subseteq should

\* The unsigned comparisons take a rectangle or a bitmap that ends left of the buffer
\* for one that goes on to its right side, and one that ends above it for one that goes
\* on to its bottom: it leaves its own columns, or its own rows, but not the others.
Meets(x, y, w, h) == x + w >= 0 /\ y + h >= 0
StaysIn(pixels, x, y, w, h) ==
  /\ x + w >= 0 => \A i \in pixels : i % Width \in x..(x + w - 1)
  /\ y + h >= 0 => \A i \in pixels : i \div Width \in y..(y + h - 1)

\* A rectangle of which nothing is in the buffer gets an outline at the side.
Touches(x, y, w, h) == \E p \in Buffer : InRectangle(p, x, y, w, h)

\* The corners begin in the buffer, and fit the figure.  The counters of the sides are
\* compared unsigned, so that a side that begins before the buffer is not drawn.
Begins(x, y, r) == x + r >= 0 /\ y + r >= 0
Fits(w, h, r) == w > 2 * r /\ h > 2 * r

\* How far a pixel is from the rectangle of the centres of the corners.
FromCentres(p, x, y, w, h, r) ==
  <<Larger(Larger(x + r - p[1], p[1] - (x + w - 1 - r)), 0),
    Larger(Larger(y + r - p[2], p[2] - (y + h - 1 - r)), 0)>>

Plane(x, y, w, h, r) ==
  {p \in (x..(x + w - 1)) \X (y..(y + h - 1)) : Squared(FromCentres(p, x, y, w, h, r)) <= r * r}

Neighbours(p) == {<<p[1] - 1, p[2]>>, <<p[1] + 1, p[2]>>, <<p[1], p[2] - 1>>, <<p[1], p[2] + 1>>}
Edge(points) == {p \in points : ~(Neighbours(p) \subseteq points)}

\* An outline of a rounded rectangle may be thicker than its edge.
ShapeRight(op, x, y, w, h, r, pixels) ==
  LET visible == {p \in Buffer : InRectangle(p, x, y, w, h)}
      plane == Plane(x, y, w, h, r)
  IN  /\ op = "FillRectangle" => Of(visible) \subseteq pixels /\ StaysIn(pixels, x, y, w, h)
      /\ op = "DrawRectangle" => Writes(pixels, Of(Edge(visible)), Touches(x, y, w, h))
      /\ op = "FillRoundedRectangle" /\ Fits(w, h, r) =>
           Writes(pixels, Visible(plane), Begins(x, y, r))
      /\ op = "DrawRoundedRectangle" /\ Fits(w, h, r) =>
           /\ pixels \subseteq Visible(plane)
           /\ Begins(x, y, r) => Visible(Edge(plane)) \subseteq pixels

\* A disk, up to one pixel, and its edge.
CircleRight(op, cx, cy, r, pixels) ==
  LET distance(p) == Squared(<<p[1] - cx, p[2] - cy>>)
      disk == {p \in Buffer : Pixel(p[1], p[2]) \in FillCircle(cx, cy, r)}
  IN  /\ op = "FillCircle" =>
           \A p \in Buffer : /\ distance(p) <= r * r => Pixel(p[1], p[2]) \in pixels
                             /\ distance(p) > (r + 1) * (r + 1) => Pixel(p[1], p[2]) \notin pixels
      /\ op = "DrawCircle" =>
           /\ pixels \subseteq Of(disk)
           /\ \A p \in disk : ~((Neighbours(p) \cap Buffer) \subseteq disk) => Pixel(p[1], p[2]) \in pixels

\* The pixels that are nearest to the line: one for each step along its longer side.
LineRight(x0, y0, x1, y1, pixels) ==
  LET longer == Larger(Larger(x1 - x0, x0 - x1), Larger(y1 - y0, y0 - y1))
      off(p) == 2 * ((x1 - x0) * (p[2] - y0) - (y1 - y0) * (p[1] - x0))
      box == {p \in Buffer : p[1] \in Smaller(x0, x1)..Larger(x0, x1) /\ p[2] \in Smaller(y0, y1)..Larger(y0, y1)}
  IN  /\ pixels \subseteq Of({p \in box : off(p) <= longer /\ - off(p) <= longer})
      /\ Of({p \in box : off(p) < Larger(longer, 1) /\ - off(p) < Larger(longer, 1)}) \subseteq pixels
      /\ Cardinality(pixels) <= longer + 1

\* The drawn pixels of a bitmap whose place is in the buffer.
PictureOf(x, y, w, h) ==
  {<<Pixel(x + p[1], y + p[2]), p[2] * w + p[1]>> :
     p \in {q \in (0..(w - 1)) \X (0..(h - 1)) : Inside(x + q[1], y + q[2]) /\ Drawn(q[2] * w + q[1])}}

\* NINA::DrawBitmap() writes what lies left of the buffer before the row, too.
PictureRight(op, x, y, w, h, pixels) ==
  /\ op = "DrawBitmapToBuffer" => pixels = PictureOf(x, y, w, h)
  /\ op = "DrawBitmap" => Writes(pixels, PictureOf(x, y, w, h), x >= 0)
  /\ op = "DrawBitmapOnScreen" =>
       /\ Writes(pixels, PictureOf(x, y, w, h), Meets(x, y, w, h))
       /\ StaysIn({p[1] : p \in pixels}, x, y, w, h)
  /\ op = "PutPixel" => pixels = Visible({<<x, y>>})
  /\ op = "GetScreenCenter" =>
       /\ IF w < Width THEN Width - w - 2 * pixels[1] \in {0, 1} ELSE pixels[1] = 0
       /\ IF h < Height THEN Height - h - 2 * pixels[2] \in {0, 1} ELSE pixels[2] = 0

\* A row of a file is as many bytes as its pixels, made up to a multiple of four, and
\* the last row comes first unless the height is negative.
PictureInFile(b) ==
  LET stride == ((b.w * b.bytes + 3) \div 4) * 4
  IN  {<<p[2] * b.w + p[1], (IF b.topDown THEN p[2] ELSE b.h - 1 - p[2]) * stride + p[1] * b.bytes>> :
         p \in (0..(b.w - 1)) \X (0..(b.h - 1))}

LoadRight(b, pixels) ==
  pixels = IF b.signature /\ b.bytes \in {3, 4} THEN PictureInFile(b) ELSE {}

\* A character stands as many line heights down as there are line ends before it, and
\* as far along its line as the line up to it is long by Font::getStringLength(), which
\* labels and buttons reckon with.  That one kerns before an unknown character as
\* before "?", and drawing does not.
Places(x, y, text, i) ==
  LET ends == {k \in 1..(i - 1) : text[k] = NewLine}
      line == SubSeq(text, Max(ends \cup {0}) + 1, i)
      unknown == {k \in 2..Len(line) : line[k] \notin DOMAIN Glyph}
  IN  <<x + GetStringLength(line) - Glyph[Clamped(Last(line))].advance
          - MapThenSumSet(LAMBDA k : Kern(Clamped(line[k - 1]), "?"), unknown),
        y + Cardinality(ends) * LineHeight>>

\* A character is its bitmap, at its offset from there.
TextRight(x, y, text, pixels) ==
  LET shown == {i \in DOMAIN text : text[i] # NewLine}
      left(i) == Places(x, y, text, i)[1] + Glyph[Clamped(text[i])].left
      picture(i) ==
        LET c == Clamped(text[i])
        IN  {<<p[1], c>> : p \in PictureOf(left(i), Places(x, y, text, i)[2] + Glyph[c].top,
                                           Glyph[c].columns, Glyph[c].rows)}
  IN  Writes(pixels, UNION {picture(i) : i \in shown}, \A i \in shown : left(i) >= 0)

\* No call writes outside the buffer, but for a bitmap, or a character, that begins
\* left of it.
WritesInside(op, pixels) ==
  CASE op \in {"DrawBitmapToBuffer", "DrawBitmapOnScreen"} -> \A p \in pixels : p[1] \in Of(Buffer)
    [] op = "DrawBitmap" /\ call[2] >= 0                   -> \A p \in pixels : p[1] \in Of(Buffer)
    [] op \in {"DrawBitmap", "DrawString", "Load", "GetScreenCenter"} -> TRUE
    [] OTHER -> pixels \subseteq Of(Buffer)

\* A call writes every pixel of its figure, its picture or its text that lies in the
\* buffer, and none outside the buffer; and it writes no other pixel of the buffer
\* when its coordinates meet the condition that is named above for it.  These leave
\* out what the code draws wrongly: a filled figure or a bitmap that ends left of
\* the buffer or above it (it draws too much, but in its own rows or columns), an
\* outline wholly outside, a bitmap or a character that begins left of the buffer
\* (NINA::DrawBitmap writes before the row), and the sides of a rounded outline whose
\* corners begin before the buffer.
\* A text stands where Font::getStringLength() and the line height put it; a file's
\* pixels are found by its rows and their padding, and a file with another signature
\* or other pixels gives none (nina.cpp, GraphicsDriver.cpp, font.cpp, Bitmap::Load).
DrawnRight ==
  LET op == call[1]
      done == result # <<"none">>
  IN  /\ done => WritesInside(op, result[2])
      /\ done /\ op \in {"FillRectangle", "DrawRectangle"} =>
           ShapeRight(op, call[2], call[3], call[4], call[5], 0, result[2])
      /\ done /\ op \in {"FillRoundedRectangle", "DrawRoundedRectangle"} =>
           ShapeRight(op, call[2], call[3], call[4], call[5], call[6], result[2])
      /\ done /\ op \in {"FillCircle", "DrawCircle"} => CircleRight(op, call[2], call[3], call[4], result[2])
      /\ done /\ op = "DrawLine" => LineRight(call[2], call[3], call[4], call[5], result[2])
      /\ done /\ op = "DrawHorizontalLine" =>
           result[2] = Of({p \in Buffer : InRectangle(p, call[2], call[3], call[4], 1)})
      /\ done /\ op = "DrawVerticalLine" =>
           result[2] = Of({p \in Buffer : InRectangle(p, call[2], call[3], 1, call[4])})
      /\ done /\ op \in {"DrawBitmapToBuffer", "DrawBitmap", "DrawBitmapOnScreen", "PutPixel", "GetScreenCenter"} =>
           PictureRight(op, call[2], call[3], call[4], call[5], result[2])
      /\ done /\ op = "Load" => LoadRight(call[2], result[2])
      /\ done /\ op = "DrawString" => TextRight(call[2], call[3], call[4], result[2])
=============================================================================
