------------------------------- MODULE Cursor -------------------------------
(***************************************************************************)
(* The main loop of kmain (kernel/src/kernel.c) drawing the mouse pointer, *)
(* and the surface it draws on (kernel/src/gfx/surface.c): a back buffer   *)
(* from vmalloc, and the framebuffer that parts of it are copied to.  Both *)
(* are memory, indexed by 32-bit cells from the start of the buffer; what  *)
(* lies before and behind is someone else's.  The events are any that the  *)
(* mouse's packets make: which of them are read is in InputRace.           *)
(***************************************************************************)
EXTENDS Integers

CONSTANTS
  Width, Height,  \* of the screen, in pixels
  Pitch,          \* bytes of a row
  Side,           \* of the pointer, 25
  Start,          \* where it starts, 50
  Packets,        \* what the mouse may send, without its overflow bits and buttons
  SizeMod,        \* 2^64, the range of size_t
  MaxAway         \* bound: how far from the origin the pointer moves

Stride == Pitch \div 4

\* A row is whole pixels and holds a line of the screen; size_t holds any coordinate;
\* the mouse sends bytes.
ASSUME CursorAssumption ==
  /\ {Width, Height, Side} \subseteq Nat \ {0}
  /\ Pitch \in Nat /\ Pitch % 4 = 0 /\ Width <= Stride
  /\ MaxAway \in Nat /\ Start \in -MaxAway .. MaxAway
  /\ SizeMod \in Nat /\ SizeMod >= 2 * (MaxAway + Width + Height + Side)
  /\ \A p \in Packets : {p.x, p.y} \subseteq 0 .. 255

VARIABLES
  x, y,         \* the pointer, as kmain knows it
  backbuffer,   \* cells, or NULL
  framebuffer,
  ev,           \* the event being handled
  pc

vars == <<x, y, backbuffer, framebuffer, ev, pc>>

Size == Height * Stride
Cells == -Stride .. Size + Stride - 1
NULL == [i \in {} |-> "was"]

Init ==
  /\ x = Start /\ y = Start
  /\ backbuffer = NULL /\ framebuffer = [i \in Cells |-> "was"]
  /\ ev = [dx |-> 0, dy |-> 0] /\ pc = "create"
-----------------------------------------------------------------------------
(* ps2_mouse_callback: the event of a packet.                              *)

\* dx |= 0xFFFFFF00 if the sign bit in the first byte is set.
Delta(byte, sign) == IF sign THEN byte - 256 ELSE byte

Event(p) == [dx |-> Delta(p.x, p.xsign), dy |-> Delta(p.y, p.ysign)]
-----------------------------------------------------------------------------
(* surface.c                                                               *)

\* The conversion of an int to size_t.
AsSize(i) == i % SizeMod

\* gfx_surface_put_pixel and its test of both coordinates: where it writes.
PixelAt(i, j) ==
  IF AsSize(i) < Width /\ AsSize(j) < Height THEN {AsSize(j) * Stride + AsSize(i)} ELSE {}

\* gfx_draw_rect: where it writes.
Rect(i, j) == UNION {PixelAt(i + a, j + b) : a \in 0 .. Side - 1, b \in 0 .. Side - 1}

Larger(i, j) == IF i > j THEN i ELSE j
Smaller(i, j) == IF i < j THEN i ELSE j

\* Mutated form of Chunk: the left edge is not clipped.
ChunkUnclipped(i, j) ==
  LET x1 == Smaller(i + Side, Width)
      y0 == Larger(j, 0)  y1 == Smaller(j + Side, Height)
  IN  IF i >= x1 \/ y0 >= y1 THEN {}
      ELSE UNION {{(row * Pitch) \div 4 + i + k : k \in 0 .. x1 - i - 1} : row \in y0 .. y1 - 1}

\* Mutated form of Chunk: the lower edge is clipped to a line too few.
ChunkShort(i, j) ==
  LET x0 == Larger(i, 0)  x1 == Smaller(i + Side, Width)
      y0 == Larger(j, 0)  y1 == Smaller(j + Side, Height - 1)
  IN  IF x0 >= x1 \/ y0 >= y1 THEN {}
      ELSE UNION {{(row * Pitch) \div 4 + x0 + k : k \in 0 .. x1 - x0 - 1} : row \in y0 .. y1 - 1}

\* gfx_surface_sync_chunk: the cells it copies.
Chunk(i, j) ==
  LET x0 == Larger(i, 0)  x1 == Smaller(i + Side, Width)
      y0 == Larger(j, 0)  y1 == Smaller(j + Side, Height)
  IN  IF x0 >= x1 \/ y0 >= y1 THEN {}
      ELSE UNION {{(row * Pitch) \div 4 + x0 + k : k \in 0 .. x1 - x0 - 1} : row \in y0 .. y1 - 1}
-----------------------------------------------------------------------------
(* kmain.                                                                  *)

\* gfx_surface_create: vmalloc may fail for the surface, which is then stored to
\* through NULL, and for the buffer, which is not cleared.
Create ==
  /\ pc = "create"
  /\ \/ pc' = "fault" /\ UNCHANGED backbuffer
     \/ pc' = "read" /\ backbuffer' \in {NULL, [i \in Cells |-> "junk"]}
  /\ UNCHANGED <<x, y, framebuffer, ev>>

\* dev_read has an event.
Read ==
  /\ pc = "read"
  /\ \E p \in Packets : ev' = Event(p)
  /\ {x + ev'.dx, y - ev'.dy} \subseteq -MaxAway .. MaxAway
  /\ pc' = "draw black"
  /\ UNCHANGED <<x, y, backbuffer, framebuffer>>

Draw(l, colour, next) ==
  /\ pc = l
  /\ LET to == Rect(x, y)
     IN  IF backbuffer = NULL /\ to # {} THEN pc' = "fault" /\ UNCHANGED backbuffer
         ELSE /\ pc' = next
              /\ backbuffer' = [i \in DOMAIN backbuffer |-> IF i \in to THEN colour ELSE backbuffer[i]]
  /\ UNCHANGED <<x, y, framebuffer, ev>>

Sync(l, next) ==
  /\ pc = l
  /\ LET of == Chunk(x, y)
     IN  framebuffer' = [i \in Cells |-> IF i \in of THEN backbuffer[i] ELSE framebuffer[i]]
  /\ pc' = next
  /\ UNCHANGED <<x, y, backbuffer, ev>>

\* x += ev.dx; y += -ev.dy
Move ==
  /\ pc = "move"
  /\ x' = x + ev.dx /\ y' = y - ev.dy
  /\ pc' = "draw yellow"
  /\ UNCHANGED <<backbuffer, framebuffer, ev>>

Next == \/ Create \/ Read
        \/ Draw("draw black", "black", "sync black") \/ Sync("sync black", "move")
        \/ Move
        \/ Draw("draw yellow", "yellow", "sync yellow") \/ Sync("sync yellow", "read")

Spec == Init /\ [][Next]_vars
-----------------------------------------------------------------------------
(* Properties.                                                             *)

\* Wherever the mouse goes, off the screen on any side included, nothing is written
\* before or behind either buffer, nor in the cells that pad a row.
Inside ==
  \A i \in Cells :
    i \notin 0 .. Size - 1 \/ i % Stride >= Width =>
      /\ framebuffer[i] = "was"
      /\ backbuffer # NULL => backbuffer[i] = "junk"

\* The screen shows the pointer at the sum of the movements read, whole but for what
\* is off the screen, blanked out where it was before it moves, and nothing that
\* vmalloc left in the buffer: the clipping of gfx_surface_sync_chunk, the tests of
\* gfx_surface_put_pixel and their two index formulas agree.
Screen == INSTANCE Pointer WITH
  at <- <<x, y>>,
  picture <- [q \in (0 .. Width - 1) \X (0 .. Height - 1) |-> framebuffer[q[2] * Stride + q[1]]]
ImplementsPointer == Screen!Spec
=============================================================================
