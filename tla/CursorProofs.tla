---------------------------- MODULE CursorProofs ----------------------------
(* Proofs about Cursor, for every screen, pointer and mouse.               *)
EXTENDS Cursor, TLAPS

\* The cell of a pixel, and the cells of the pointer's square on the screen.
Cell(c, r) == r * Stride + c

Shown(i, j) == {n \in Int : \E c \in 0 .. Width - 1, r \in 0 .. Height - 1 :
                  c - i \in 0 .. Side - 1 /\ r - j \in 0 .. Side - 1 /\ n = Cell(c, r)}

Visible(n) == n \in 0 .. Size - 1 /\ n % Stride < Width

-----------------------------------------------------------------------------
(* Indices.                                                                *)

LEMMA Sizes ==
  /\ Width \in Nat \ {0} /\ Height \in Nat \ {0} /\ Side \in Nat \ {0}
  /\ Stride \in Nat \ {0} /\ Pitch = 4 * Stride /\ Width <= Stride
  /\ MaxAway \in Nat /\ Start \in -MaxAway .. MaxAway
  /\ SizeMod \in Nat /\ SizeMod >= 2 * (MaxAway + Width + Height + Side)
<1>1. Pitch \in Nat /\ Pitch % 4 = 0 /\ Stride = Pitch \div 4
  BY CursorAssumption DEF Stride
<1>2. Stride \in Nat /\ Pitch = 4 * Stride
  BY <1>1
<1> QED BY <1>2, CursorAssumption

\* A row of cells starts where the row of bytes does.
LEMMA RowStart == ASSUME NEW r \in Int PROVE (r * Pitch) \div 4 = r * Stride
<1>1. r * Pitch = 4 * (r * Stride) /\ r * Stride \in Int
  BY Sizes
<1> QED BY <1>1

\* A later row starts at least a stride further on.
LEMMA Later ==
  ASSUME NEW r \in Int, NEW s \in Int, r < s
  PROVE  r * Stride + Stride <= s * Stride
<1> DEFINE d == s - r - 1
<1>1. d \in Nat /\ s = r + d + 1
  OBVIOUS
<1>2. d * Stride \in Nat
  BY <1>1, Sizes
<1>3. s * Stride = r * Stride + d * Stride + Stride
  BY <1>1, Sizes
<1> QED BY <1>2, <1>3, Sizes

\* No two pixels share a cell.
LEMMA CellsDiffer ==
  ASSUME NEW c \in 0 .. Stride - 1, NEW r \in Int, NEW d \in 0 .. Stride - 1, NEW s \in Int,
         Cell(c, r) = Cell(d, s)
  PROVE  c = d /\ r = s
<1>0. r * Stride \in Int /\ s * Stride \in Int /\ Stride \in Nat
  BY Sizes
<1>1. CASE r < s
  BY <1>0, <1>1, Later DEF Cell
<1>2. CASE s < r
  BY <1>0, <1>2, Later DEF Cell
<1>3. CASE r = s
  BY <1>0, <1>3 DEF Cell
<1> QED BY <1>1, <1>2, <1>3

\* Division with a remainder.
LEMMA Remainder ==
  ASSUME NEW n \in Int, NEW s \in Nat \ {0}
  PROVE  /\ n \div s \in Int /\ n % s \in 0 .. s - 1
         /\ n = (n \div s) * s + (n % s)
OBVIOUS

\* A pixel's cell is visible.
LEMMA CellVisible ==
  ASSUME NEW c \in 0 .. Width - 1, NEW r \in 0 .. Height - 1
  PROVE  /\ Cell(c, r) \in Cells /\ Cell(c, r) \in Int /\ Visible(Cell(c, r))
<1> DEFINE n == Cell(c, r)
<1>1. Size = Height * Stride /\ Size \in Int /\ r * Stride \in Int /\ c < Stride
  BY Sizes DEF Size
<1>2. r * Stride + Stride <= Size
  BY <1>1, Sizes, Later DEF Size
<1>3. 0 <= r * Stride
  BY Sizes
<1>4. n \in 0 .. Size - 1
  BY <1>1, <1>2, <1>3, Sizes DEF Cell
<1>5. n % Stride = c
  <2> HIDE DEF n
  <2>1. /\ n \div Stride \in Int /\ n % Stride \in 0 .. Stride - 1
        /\ n = Cell(n % Stride, n \div Stride)
    BY <1>4, Sizes, Remainder DEF Cell
  <2>2. Cell(n % Stride, n \div Stride) = Cell(c, r)
    BY <2>1 DEF n
  <2>3. c \in 0 .. Stride - 1 /\ r \in Int
    BY <1>1, Sizes
  <2> QED BY <2>1, <2>2, <2>3, CellsDiffer
<1> QED BY <1>1, <1>4, <1>5, Sizes DEF Visible, Cells

LEMMA ShownVisible == \A i, j : \A n \in Shown(i, j) : n \in Cells /\ Visible(n)
BY CellVisible DEF Shown

-----------------------------------------------------------------------------
(* surface.c                                                               *)

Near == -MaxAway .. MaxAway

\* The test of a coordinate against the width or the height, after its conversion to
\* size_t, keeps those on the screen.
LEMMA OnScreen ==
  ASSUME NEW i \in Int, -MaxAway <= i, i < MaxAway + Side, NEW w \in {Width, Height}
  PROVE  /\ AsSize(i) \in Int
         /\ AsSize(i) < w <=> i \in 0 .. w - 1
         /\ i \in 0 .. w - 1 => AsSize(i) = i
<1>0. /\ SizeMod \in Nat /\ SizeMod > MaxAway + w /\ SizeMod >= MaxAway + Side
      /\ w \in Nat /\ SizeMod > 0 /\ MaxAway \in Nat
  BY Sizes
<1>1. CASE i >= 0
  BY <1>0, <1>1, Sizes DEF AsSize
<1>2. CASE i < 0
  <2>1. AsSize(i) = i + SizeMod
    <3> DEFINE d == i \div SizeMod
               m == i % SizeMod
    <3>1. d \in Int /\ m \in 0 .. SizeMod - 1 /\ i = d * SizeMod + m
      BY <1>0, Remainder
    <3> HIDE DEF d, m
    <3>2. -SizeMod <= i
      BY <1>0
    <3>3. ~(d >= 0)
      <4>1. d >= 0 => d * SizeMod >= 0
        BY <1>0, <3>1
      <4> QED BY <1>0, <1>2, <3>1, <4>1
    <3>4. ~(d <= -2)
      <4>1. d <= -2 => d * SizeMod <= -2 * SizeMod
        BY <1>0, <3>1
      <4> QED BY <1>0, <3>1, <3>2, <4>1
    <3>5. m = i + SizeMod
      BY <1>0, <3>1, <3>3, <3>4
    <3> QED BY <3>5 DEF m, AsSize
  <2> QED BY <1>0, <1>2, <2>1
<1> QED BY <1>1, <1>2

\* gfx_draw_rect writes the cells of the square.
LEMMA RectIs == ASSUME NEW i \in Near, NEW j \in Near PROVE Rect(i, j) = Shown(i, j)
<1>0. i \in Int /\ j \in Int /\ Side \in Nat
  BY Sizes DEF Near
<1>1. ASSUME NEW a \in 0 .. Side - 1, NEW b \in 0 .. Side - 1
      PROVE  PixelAt(i + a, j + b) = IF i + a \in 0 .. Width - 1 /\ j + b \in 0 .. Height - 1
                                       THEN {Cell(i + a, j + b)} ELSE {}
  BY <1>0, OnScreen, Sizes DEF PixelAt, Cell, Near
<1>2. ASSUME NEW n \in Rect(i, j) PROVE n \in Shown(i, j)
  <2>1. PICK a \in 0 .. Side - 1, b \in 0 .. Side - 1 : n \in PixelAt(i + a, j + b)
    BY DEF Rect
  <2>2. /\ i + a \in 0 .. Width - 1 /\ j + b \in 0 .. Height - 1
        /\ n = Cell(i + a, j + b)
    <3>1. CASE i + a \in 0 .. Width - 1 /\ j + b \in 0 .. Height - 1
      <4>1. PixelAt(i + a, j + b) = {Cell(i + a, j + b)}
        BY <1>1, <3>1
      <4> QED BY <2>1, <3>1, <4>1
    <3>2. CASE ~(i + a \in 0 .. Width - 1 /\ j + b \in 0 .. Height - 1)
      <4>1. PixelAt(i + a, j + b) = {}
        BY <1>1, <3>2
      <4> QED BY <2>1, <4>1
    <3> QED BY <3>1, <3>2
  <2> DEFINE c == i + a
             r == j + b
  <2>3. c - i = a /\ r - j = b
    BY <1>0
  <2>4. n \in Int
    BY <2>2, CellVisible
  <2> HIDE DEF c, r
  <2>5. c \in 0 .. Width - 1 /\ r \in 0 .. Height - 1 /\ n = Cell(c, r)
    BY <2>2 DEF c, r
  <2> QED BY <2>3, <2>4, <2>5 DEF Shown
<1>3. ASSUME NEW n \in Shown(i, j) PROVE n \in Rect(i, j)
  <2>1. PICK c \in 0 .. Width - 1, r \in 0 .. Height - 1 :
          c - i \in 0 .. Side - 1 /\ r - j \in 0 .. Side - 1 /\ n = Cell(c, r)
    BY DEF Shown
  <2> DEFINE a == c - i
             b == r - j
  <2>2. i + a = c /\ j + b = r
    BY <1>0
  <2>3. n \in PixelAt(i + a, j + b)
    BY <1>1, <2>1, <2>2
  <2> HIDE DEF a, b
  <2>4. a \in 0 .. Side - 1 /\ b \in 0 .. Side - 1
    BY <2>1 DEF a, b
  <2> QED BY <2>3, <2>4 DEF Rect
<1> QED BY <1>2, <1>3

\* gfx_surface_sync_chunk copies the same cells.
LEMMA ChunkIs == ASSUME NEW i \in Near, NEW j \in Near PROVE Chunk(i, j) = Shown(i, j)
<1> DEFINE x0 == Larger(i, 0)
           x1 == Smaller(i + Side, Width)
           y0 == Larger(j, 0)
           y1 == Smaller(j + Side, Height)
<1>0. /\ i \in Int /\ j \in Int /\ Side \in Nat
      /\ x0 \in Nat /\ y0 \in Nat /\ x1 \in Int /\ y1 \in Int
  BY Sizes DEF Near, Larger, Smaller
<1>1. /\ \A c \in Int : c \in x0 .. x1 - 1 <=> c \in 0 .. Width - 1 /\ c - i \in 0 .. Side - 1
      /\ \A r \in Int : r \in y0 .. y1 - 1 <=> r \in 0 .. Height - 1 /\ r - j \in 0 .. Side - 1
  BY <1>0, Sizes DEF Larger, Smaller
<1>2. Chunk(i, j) = IF x0 >= x1 \/ y0 >= y1 THEN {}
                    ELSE UNION {{(row * Pitch) \div 4 + x0 + k : k \in 0 .. x1 - x0 - 1}
                                  : row \in y0 .. y1 - 1}
  BY DEF Chunk
<1> HIDE DEF x0, x1, y0, y1
<1>3. ASSUME NEW n \in Chunk(i, j) PROVE n \in Shown(i, j)
  <2>1. PICK row \in y0 .. y1 - 1, k \in 0 .. x1 - x0 - 1 : n = (row * Pitch) \div 4 + x0 + k
    BY <1>2, <1>3
  <2>2. x0 + k \in x0 .. x1 - 1 /\ x0 + k \in Int /\ row \in Int
    BY <1>0, <2>1
  <2>3. n = Cell(x0 + k, row)
    BY <1>0, <2>1, <2>2, RowStart, Sizes DEF Cell
  <2>4. x0 + k \in 0 .. Width - 1 /\ row \in 0 .. Height - 1
    BY <1>1, <2>1, <2>2
  <2> QED BY <1>1, <2>1, <2>2, <2>3, <2>4, CellVisible DEF Shown
<1>4. ASSUME NEW n \in Shown(i, j) PROVE n \in Chunk(i, j)
  <2>1. PICK c \in 0 .. Width - 1, r \in 0 .. Height - 1 :
          c - i \in 0 .. Side - 1 /\ r - j \in 0 .. Side - 1 /\ n = Cell(c, r)
    BY DEF Shown
  <2>2. c \in x0 .. x1 - 1 /\ r \in y0 .. y1 - 1 /\ c \in Int /\ r \in Int
    BY <1>1, <2>1
  <2>3. PICK k \in 0 .. x1 - x0 - 1 : c = x0 + k
    <3>1. c - x0 \in 0 .. x1 - x0 - 1 /\ c = x0 + (c - x0)
      BY <1>0, <2>2
    <3> QED BY <3>1
  <2>4. n = (r * Pitch) \div 4 + x0 + k
    BY <1>0, <2>1, <2>2, <2>3, RowStart, Sizes DEF Cell
  <2>5. ~(x0 >= x1 \/ y0 >= y1)
    BY <1>0, <2>2
  <2> QED BY <1>2, <2>2, <2>3, <2>4, <2>5
<1> QED BY <1>3, <1>4

-----------------------------------------------------------------------------
(* Invariant.                                                              *)

Colours == {"was", "junk", "black", "yellow"}
Labels == {"create", "read", "draw black", "sync black", "move", "draw yellow", "sync yellow", "fault"}

\* The pointer's square has a colour in the back buffer.
Drawn(colour) == \A n \in Shown(x, y) : backbuffer # NULL /\ backbuffer[n] = colour

Pointed ==
  /\ pc \in Labels /\ ev \in [dx : Int, dy : Int]
  /\ x \in Near /\ y \in Near
  /\ pc \in {"draw black", "sync black", "move"} => x + ev.dx \in Near /\ y - ev.dy \in Near

Buffers ==
  /\ backbuffer = NULL \/ /\ backbuffer \in [Cells -> Colours]
                          /\ \A n \in Cells : ~Visible(n) => backbuffer[n] = "junk"
  /\ \A n \in Cells : ~Visible(n) => framebuffer[n] = "was"

Inv ==
  /\ Pointed /\ Buffers
  /\ pc = "sync black" => Drawn("black")
  /\ pc = "move" => \A n \in Shown(x, y) : framebuffer[n] = "black"
  /\ pc = "sync yellow" => Drawn("yellow")

LEMMA Deltas == ASSUME NEW p \in Packets PROVE Event(p) \in [dx : Int, dy : Int]
<1>1. p.x \in Int /\ p.y \in Int
  BY CursorAssumption
<1>2. ASSUME NEW b \in Int, NEW s PROVE Delta(b, s) \in Int
  BY DEF Delta
<1> QED BY <1>1, <1>2 DEF Event

LEMMA InitInv == Init => Inv
<1> SUFFICES ASSUME Init PROVE Inv
  OBVIOUS
<1>1. Pointed
  BY Sizes DEF Init, Pointed, Labels, Near
<1> QED BY <1>1 DEF Init, Inv, Buffers

LEMMA DrawStep ==
  ASSUME Inv, NEW l, NEW colour \in {"black", "yellow"}, NEW next \in Labels,
         Draw(l, colour, next)
  PROVE  /\ pc' \in {next, "fault"} /\ pc = l
         /\ UNCHANGED <<x, y, framebuffer, ev>>
         /\ Buffers'
         /\ pc' = "fault" \/ Drawn(colour)'
<1>0. /\ pc = l /\ pc' \in {next, "fault"}
      /\ x' = x /\ y' = y /\ framebuffer' = framebuffer /\ ev' = ev
      /\ Rect(x, y) = Shown(x, y)
  BY RectIs DEF Draw, Inv, Pointed
<1>1. CASE backbuffer = NULL /\ Shown(x, y) # {}
  BY <1>0, <1>1 DEF Draw, Inv, Buffers
<1>2. CASE backbuffer = NULL /\ Shown(x, y) = {}
  <2>1. backbuffer' = NULL
    BY <1>0, <1>2 DEF Draw, NULL
  <2>2. Shown(x, y)' = {}
    BY <1>0, <1>2 DEF Shown
  <2> QED BY <1>0, <2>1, <2>2 DEF Inv, Buffers, Drawn
<1>3. CASE backbuffer # NULL
  <2>1. /\ backbuffer \in [Cells -> Colours]
        /\ \A n \in Cells : ~Visible(n) => backbuffer[n] = "junk"
    BY <1>3 DEF Inv, Buffers
  <2>2. backbuffer' = [n \in Cells |-> IF n \in Shown(x, y) THEN colour ELSE backbuffer[n]]
    BY <1>0, <1>3, <2>1 DEF Draw
  <2>3. backbuffer' \in [Cells -> Colours]
    BY <2>1, <2>2 DEF Colours
  <2>4. \A n \in Shown(x, y) : n \in Cells /\ Visible(n)
    BY ShownVisible
  <2>5. ASSUME NEW n \in Cells, ~Visible(n) PROVE backbuffer'[n] = "junk"
    BY <2>1, <2>2, <2>4, <2>5
  <2>6. \A n \in Cells : ~Visible(n) => framebuffer'[n] = "was"
    BY <1>0 DEF Inv, Buffers
  <2>7. Buffers'
    <3>1. \A n \in Cells : Visible(n)' <=> Visible(n)
      BY DEF Visible
    <3> QED BY <2>3, <2>5, <2>6, <3>1 DEF Buffers
  <2>8. \A n \in Shown(x, y) : backbuffer' # NULL /\ backbuffer'[n] = colour
    <3>1. ASSUME NEW n \in Shown(x, y) PROVE backbuffer' # NULL
      <4>1. DOMAIN backbuffer' = Cells /\ n \in Cells /\ DOMAIN NULL = {}
        BY <2>2, <2>4 DEF NULL
      <4> QED BY <4>1
    <3> QED BY <2>2, <2>4, <3>1
  <2>9. Shown(x, y)' = Shown(x, y)
    BY <1>0 DEF Shown
  <2> QED BY <1>0, <2>7, <2>8, <2>9 DEF Drawn
<1> QED BY <1>1, <1>2, <1>3

\* What is synced is the square, in the colour it was drawn in.
LEMMA SyncStep ==
  ASSUME Inv, NEW l, NEW next \in Labels, NEW colour, Drawn(colour), Sync(l, next)
  PROVE  /\ pc = l /\ pc' = next /\ UNCHANGED <<x, y, backbuffer, ev>>
         /\ framebuffer' = [n \in Cells |-> IF n \in Shown(x, y) THEN colour ELSE framebuffer[n]]
         /\ Buffers'
<1>0. /\ pc = l /\ pc' = next /\ x' = x /\ y' = y /\ backbuffer' = backbuffer /\ ev' = ev
      /\ Chunk(x, y) = Shown(x, y)
  BY ChunkIs DEF Sync, Inv, Pointed
<1>1. framebuffer' = [n \in Cells |-> IF n \in Shown(x, y) THEN backbuffer[n] ELSE framebuffer[n]]
  BY <1>0 DEF Sync
<1>2. framebuffer' = [n \in Cells |-> IF n \in Shown(x, y) THEN colour ELSE framebuffer[n]]
  BY <1>1 DEF Drawn
<1>3. \A n \in Shown(x, y) : n \in Cells /\ Visible(n)
  BY ShownVisible
<1>4. Buffers'
  <2>1. ASSUME NEW n \in Cells, ~Visible(n) PROVE framebuffer'[n] = "was"
    BY <1>2, <1>3, <2>1 DEF Inv, Buffers
  <2> QED BY <1>0, <2>1 DEF Inv, Buffers, Visible
<1> QED BY <1>0, <1>2, <1>4

\* No step breaks the invariant.
LEMMA NextInv == Inv /\ [Next]_vars => Inv'
<1> SUFFICES ASSUME Inv, [Next]_vars PROVE Inv'
  OBVIOUS
<1> USE DEF Labels
<1>1. ASSUME Create PROVE Inv'
  <2>1. pc' \in {"fault", "read"} /\ x' = x /\ y' = y /\ framebuffer' = framebuffer /\ ev' = ev
    BY <1>1 DEF Create
  <2>2. \/ backbuffer' = backbuffer \/ backbuffer' = NULL
        \/ backbuffer' = [n \in Cells |-> "junk"]
    BY <1>1 DEF Create
  <2>3. Pointed'
    BY <2>1 DEF Inv, Pointed
  <2>4. Buffers'
    BY <2>1, <2>2 DEF Inv, Buffers, Colours, Visible
  <2> QED BY <2>1, <2>3, <2>4 DEF Inv
<1>2. ASSUME Read PROVE Inv'
  <2>1. /\ pc' = "draw black" /\ x' = x /\ y' = y
        /\ framebuffer' = framebuffer /\ backbuffer' = backbuffer
        /\ x + ev'.dx \in Near /\ y - ev'.dy \in Near /\ ev' \in [dx : Int, dy : Int]
    BY <1>2, Deltas DEF Read, Near
  <2>2. Pointed'
    BY <2>1 DEF Inv, Pointed
  <2>3. Buffers'
    BY <2>1 DEF Inv, Buffers, Visible
  <2> QED BY <2>1, <2>2, <2>3 DEF Inv
<1>3. ASSUME Draw("draw black", "black", "sync black") PROVE Inv'
  <2>1. /\ pc' \in {"sync black", "fault"} /\ pc = "draw black" /\ Buffers'
        /\ x' = x /\ y' = y /\ ev' = ev
        /\ pc' = "fault" \/ Drawn("black")'
    BY <1>3, DrawStep
  <2>2. Pointed'
    BY <2>1 DEF Inv, Pointed
  <2> QED BY <2>1, <2>2 DEF Inv
<1>4. ASSUME Sync("sync black", "move") PROVE Inv'
  <2>1. pc = "sync black"
    BY <1>4 DEF Sync
  <2>2. Drawn("black")
    BY <2>1 DEF Inv
  <2>3. /\ pc' = "move" /\ Buffers' /\ x' = x /\ y' = y /\ ev' = ev
        /\ framebuffer' = [n \in Cells |-> IF n \in Shown(x, y) THEN "black" ELSE framebuffer[n]]
    BY <1>4, <2>2, SyncStep
  <2>4. Pointed'
    BY <2>1, <2>3 DEF Inv, Pointed
  <2>5. Shown(x, y)' = Shown(x, y)
    BY <2>3 DEF Shown
  <2>6. \A n \in Shown(x, y) : framebuffer'[n] = "black"
    BY <2>3, ShownVisible
  <2> QED BY <2>3, <2>4, <2>5, <2>6 DEF Inv
<1>5. ASSUME Move PROVE Inv'
  <2>1. /\ pc = "move" /\ pc' = "draw yellow" /\ x' = x + ev.dx /\ y' = y - ev.dy
        /\ backbuffer' = backbuffer /\ framebuffer' = framebuffer /\ ev' = ev
    BY <1>5 DEF Move
  <2>2. Pointed'
    BY <2>1 DEF Inv, Pointed
  <2>3. Buffers'
    BY <2>1 DEF Inv, Buffers, Visible
  <2> QED BY <2>1, <2>2, <2>3 DEF Inv
<1>6. ASSUME Draw("draw yellow", "yellow", "sync yellow") PROVE Inv'
  <2>1. /\ pc' \in {"sync yellow", "fault"} /\ pc = "draw yellow" /\ Buffers'
        /\ x' = x /\ y' = y /\ ev' = ev
        /\ pc' = "fault" \/ Drawn("yellow")'
    BY <1>6, DrawStep
  <2>2. Pointed'
    BY <2>1 DEF Inv, Pointed
  <2> QED BY <2>1, <2>2 DEF Inv
<1>7. ASSUME Sync("sync yellow", "read") PROVE Inv'
  <2>1. pc = "sync yellow"
    BY <1>7 DEF Sync
  <2>2. Drawn("yellow")
    BY <2>1 DEF Inv
  <2>3. pc' = "read" /\ Buffers' /\ x' = x /\ y' = y /\ ev' = ev
    BY <1>7, <2>2, SyncStep
  <2>4. Pointed'
    BY <2>1, <2>3 DEF Inv, Pointed
  <2> QED BY <2>3, <2>4 DEF Inv
<1>8. ASSUME UNCHANGED vars PROVE Inv'
  BY <1>8 DEF vars, Inv, Pointed, Buffers, Visible, Drawn, Shown
<1> QED BY <1>1, <1>2, <1>3, <1>4, <1>5, <1>6, <1>7, <1>8 DEF Next

-----------------------------------------------------------------------------
\* Nothing is written before or behind either buffer, nor in the cells that pad a
\* row (gfx_surface_put_pixel, gfx_surface_sync_chunk), on any screen.
THEOREM StaysInside == Spec => []Inside
<1>1. Inv => Inside
  <2> SUFFICES ASSUME Inv, NEW n \in Cells, n \notin 0 .. Size - 1 \/ n % Stride >= Width
               PROVE  framebuffer[n] = "was" /\ (backbuffer # NULL => backbuffer[n] = "junk")
    BY DEF Inside
  <2>1. n \in Int
    BY DEF Cells
  <2>2. ~Visible(n)
    BY <2>1, Sizes, Remainder DEF Visible
  <2> QED BY <2>2 DEF Inv, Buffers
<1> QED BY <1>1, InitInv, NextInv, PTL DEF Spec

-----------------------------------------------------------------------------
(* Refinement.                                                             *)

\* The screen, as Pointer sees it.
Pixels == (0 .. Width - 1) \X (0 .. Height - 1)
Seen == [q \in Pixels |-> framebuffer[q[2] * Stride + q[1]]]

LEMMA PixelFacts ==
  ASSUME NEW q \in Pixels
  PROVE  /\ q[1] \in 0 .. Width - 1 /\ q[2] \in 0 .. Height - 1 /\ q \in Screen!Points
         /\ q[2] * Stride + q[1] = Cell(q[1], q[2])
         /\ Cell(q[1], q[2]) \in Cells
BY CellVisible DEF Pixels, Cell, Screen!Points

\* A pixel's cell is shown just if the pixel is in the square.
LEMMA ShownSquare ==
  ASSUME NEW q \in Pixels
  PROVE  Cell(q[1], q[2]) \in Shown(x, y) <=> q \in Screen!Square(<<x, y>>)
<1>1. /\ q[1] \in 0 .. Width - 1 /\ q[2] \in 0 .. Height - 1 /\ q \in Screen!Points
  BY PixelFacts
<1>2. q \in Screen!Square(<<x, y>>) <=> q[1] - x \in 0 .. Side - 1 /\ q[2] - y \in 0 .. Side - 1
  BY <1>1 DEF Screen!Square
<1>3. ASSUME Cell(q[1], q[2]) \in Shown(x, y)
      PROVE  q[1] - x \in 0 .. Side - 1 /\ q[2] - y \in 0 .. Side - 1
  <2>1. PICK c \in 0 .. Width - 1, r \in 0 .. Height - 1 :
          c - x \in 0 .. Side - 1 /\ r - y \in 0 .. Side - 1 /\ Cell(q[1], q[2]) = Cell(c, r)
    BY <1>3 DEF Shown
  <2>2. c = q[1] /\ r = q[2]
    <3>1. /\ c \in 0 .. Stride - 1 /\ q[1] \in 0 .. Stride - 1 /\ r \in Int /\ q[2] \in Int
      BY <1>1, Sizes
    <3> QED BY <2>1, <3>1, CellsDiffer
  <2> QED BY <2>1, <2>2
<1>4. ASSUME q[1] - x \in 0 .. Side - 1, q[2] - y \in 0 .. Side - 1
      PROVE  Cell(q[1], q[2]) \in Shown(x, y)
  BY <1>1, <1>4, CellVisible DEF Shown
<1> QED BY <1>2, <1>3, <1>4

\* Syncing the square paints it.
LEMMA PaintStep ==
  ASSUME x' = x, y' = y, NEW colour,
         framebuffer' = [n \in Cells |-> IF n \in Shown(x, y) THEN colour ELSE framebuffer[n]]
  PROVE  Seen' = Screen!Painted(colour)
<1>1. \A q \in Pixels : Seen'[q] = IF q \in Screen!Square(<<x, y>>) THEN colour ELSE Seen[q]
  <2> SUFFICES ASSUME NEW q \in Pixels
               PROVE  Seen'[q] = IF q \in Screen!Square(<<x, y>>) THEN colour ELSE Seen[q]
    OBVIOUS
  <2>1. /\ Seen'[q] = framebuffer'[Cell(q[1], q[2])] /\ Seen[q] = framebuffer[Cell(q[1], q[2])]
        /\ Cell(q[1], q[2]) \in Cells
    BY PixelFacts DEF Seen
  <2> QED BY <2>1, ShownSquare
<1>2. Screen!Painted(colour) = [q \in Pixels |-> IF q \in Screen!Square(<<x, y>>) THEN colour ELSE Seen[q]]
  BY DEF Screen!Painted, Screen!Points, Pixels, Seen
<1>3. Seen' = [q \in Pixels |-> Seen'[q]]
  BY DEF Seen, Pixels
<1> QED BY <1>1, <1>2, <1>3

\* A step of kmain's loop is a step of the pointer, or none.
LEMMA StepRefines == Inv /\ [Next]_vars => [Screen!Next]_<<<<x, y>>, Seen>>
<1> SUFFICES ASSUME Inv, [Next]_vars PROVE [Screen!Next]_<<<<x, y>>, Seen>>
  OBVIOUS
<1>1. ASSUME x' = x, y' = y, framebuffer' = framebuffer PROVE UNCHANGED <<<<x, y>>, Seen>>
  BY <1>1 DEF Seen, Pixels
<1>2. ASSUME Sync("sync black", "move") PROVE Screen!Blank
  <2>1. Drawn("black")
    BY <1>2 DEF Sync, Inv
  <2>2. /\ x' = x /\ y' = y
        /\ framebuffer' = [n \in Cells |-> IF n \in Shown(x, y) THEN "black" ELSE framebuffer[n]]
    BY <1>2, <2>1, SyncStep DEF Labels
  <2>3. Seen' = Screen!Painted("black")
    BY <2>2, PaintStep
  <2> QED BY <2>2, <2>3 DEF Screen!Blank, Seen, Pixels
<1>3. ASSUME Sync("sync yellow", "read") PROVE Screen!Paint
  <2>1. Drawn("yellow")
    BY <1>3 DEF Sync, Inv
  <2>2. /\ x' = x /\ y' = y
        /\ framebuffer' = [n \in Cells |-> IF n \in Shown(x, y) THEN "yellow" ELSE framebuffer[n]]
    BY <1>3, <2>1, SyncStep DEF Labels
  <2>3. Seen' = Screen!Painted("yellow")
    BY <2>2, PaintStep
  <2> QED BY <2>2, <2>3 DEF Screen!Paint, Seen, Pixels
<1>4. ASSUME Move PROVE Screen!Jump
  <2>1. ASSUME NEW q \in Screen!Square(<<x, y>>) PROVE Seen[q] = "black"
    <3>1. q \in Pixels
      BY DEF Screen!Square, Screen!Points, Pixels
    <3>2. Cell(q[1], q[2]) \in Shown(x, y) /\ Seen[q] = framebuffer[Cell(q[1], q[2])]
      BY <3>1, ShownSquare, PixelFacts DEF Seen
    <3> QED BY <1>4, <3>2 DEF Move, Inv
  <2>2. <<x, y>>' \in Int \X Int
    <3>1. x \in Near /\ y \in Near /\ ev \in [dx : Int, dy : Int]
      BY DEF Inv, Pointed
    <3>2. x' = x + ev.dx /\ y' = y - ev.dy
      BY <1>4 DEF Move
    <3> QED BY <3>1, <3>2, Sizes DEF Near
  <2>3. Seen' = Seen
    BY <1>4 DEF Move, Seen, Pixels
  <2> QED BY <2>1, <2>2, <2>3 DEF Screen!Jump, Seen, Pixels
<1>5. ASSUME Create \/ Read \/ Draw("draw black", "black", "sync black")
               \/ Draw("draw yellow", "yellow", "sync yellow") \/ UNCHANGED vars
      PROVE  UNCHANGED <<<<x, y>>, Seen>>
  BY <1>1, <1>5 DEF Create, Read, Draw, vars
<1> QED BY <1>2, <1>3, <1>4, <1>5 DEF Next, Screen!Next

\* kmain's loop shows the pointer where the movements put it, whole but for what is
\* off the screen, for every screen, pointer and mouse.
THEOREM Refinement == Spec => ImplementsPointer
<1>1. Init => Screen!Init
  <2> SUFFICES ASSUME Init PROVE Screen!Init
    OBVIOUS
  <2>1. <<x, y>> \in Int \X Int
    BY Sizes DEF Init
  <2>2. \A q \in Pixels : framebuffer[q[2] * Stride + q[1]] = "was"
    BY PixelFacts DEF Init
  <2>3. Seen \in [Screen!Points -> {"was"}]
    BY <2>2 DEF Seen, Pixels, Screen!Points
  <2> QED BY <2>1, <2>3 DEF Screen!Init, Seen, Pixels
<1>2. Inv /\ [Next]_vars => [Screen!Next]_<<<<x, y>>, Seen>>
  BY StepRefines
<1> QED BY <1>1, <1>2, InitInv, NextInv, PTL DEF Spec, ImplementsPointer, Screen!Spec, Seen, Pixels
=============================================================================
