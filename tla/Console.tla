------------------------------ MODULE Console ------------------------------
(***************************************************************************)
(* What the console puts on the screen: fbcon_write and fbconchar          *)
(* (drivers/video/console/console.c) and fbdev_write (fbdev.c), in the     *)
(* bytes of the frame buffer.  A byte is TRUE for 0xFF, FALSE for 0.  All  *)
(* consoles of all processes share the cursor and the frame buffer, and a  *)
(* write runs with interrupts off, so it is taken character by character.  *)
(* Characters are those of ASCII: FONT[c] is read without a check.         *)
(***************************************************************************)
EXTENDS Integers, FiniteSetsExt, TLC

CONSTANTS
    Screens,    \* frame buffers [width, height, pitch, bpp] of the boot loader
    Chars,      \* bound: the characters written
    FbSizes     \* bound: how many bytes are written to /dev/fb

FONT_W == 8
FONT_H == 13
SCALE == 2
CELL_W == FONT_W * SCALE
CELL_H == FONT_H * SCALE
PIXEL == 4      \* bytes a pixel is written as: it is a u32

NEWLINE == 10
BACKSPACE == 8

(***************************************************************************)
(* misc_fixed_8x13B, its first glyphs: the rows of each, the leftmost      *)
(* column in the highest bit.  Entries without an initialiser are blank.   *)
(***************************************************************************)
Blank == [y \in 1..FONT_H |-> 0]
misc_fixed_8x13B ==
    [[c \in 0..40 |-> Blank] EXCEPT
        ![0] = <<0, 170, 170, 0, 130, 130, 0, 130, 130, 0, 170, 170, 0>>,
        ![33] = <<0, 24, 24, 24, 24, 24, 24, 24, 0, 24, 24, 0, 0>>,
        ![34] = <<0, 108, 108, 108, 108, 0, 0, 0, 0, 0, 0, 0, 0>>,
        ![35] = <<0, 0, 108, 108, 254, 254, 108, 254, 254, 108, 108, 0, 0>>,
        ![36] = <<0, 16, 124, 214, 208, 240, 124, 30, 22, 214, 124, 16, 0>>,
        ![37] = <<0, 230, 166, 236, 24, 24, 48, 48, 110, 202, 206, 0, 0>>,
        ![38] = <<0, 0, 0, 0, 120, 204, 204, 120, 206, 204, 126, 0, 0>>,
        ![39] = <<0, 24, 24, 24, 24, 0, 0, 0, 0, 0, 0, 0, 0>>,
        ![40] = <<0, 12, 24, 48, 48, 96, 96, 96, 48, 48, 24, 12, 0>>]

(***************************************************************************)
(* The pixel in column x and row y of a glyph.                             *)
(***************************************************************************)
Lit(c, x, y) == (misc_fixed_8x13B[c][y + 1] \div 2^(FONT_W - 1 - x)) % 2 = 1

ScreensAssumption ==
    /\ \A s \in Screens : s.width \in Nat /\ s.height \in Nat /\ s.pitch \in Nat
                          /\ s.bpp \in {16, 24, 32} /\ s.pitch >= s.width * (s.bpp \div 8)
                          /\ s.width >= CELL_W /\ s.height >= CELL_H
    /\ FbSizes \subseteq Nat
    /\ Chars \subseteq DOMAIN misc_fixed_8x13B

VARIABLES
    fb,         \* the screen
    mem,        \* its bytes
    x, y,       \* the cursor, in cells
    shown,      \* history: the character last drawn in each cell, or Nothing
    over,       \* history: lines in which a character was drawn past the edge
    mode        \* "ok"; "offscreen": drawn outside the frame buffer; "long":
                \* more bytes written to it than it has

vars == <<fb, mem, x, y, shown, over, mode>>

Nothing == -1
Columns == fb.width \div CELL_W
Lines == fb.height \div CELL_H
Bytes == fb.bpp \div 8
Cells == (0..(Columns - 1)) \X (0..(Lines - 1))

Init ==
    /\ fb \in Screens
    /\ mem = [b \in 0..(fb.pitch * fb.height - 1) |-> FALSE]
    /\ x = 0 /\ y = 0
    /\ shown = [cell \in Cells |-> Nothing]
    /\ over = {}
    /\ mode = "ok"

(***************************************************************************)
(* COORD: the first byte of the pixel in column sx of scan line sy.        *)
(***************************************************************************)
COORD(sx, sy) == sy * fb.pitch + sx * Bytes

(***************************************************************************)
(* fbconchar goes through a cell row by row of the glyph, left to right,   *)
(* and writes PIXEL bytes for each pixel: where two pixels write the same  *)
(* byte, the later one stays.  Writers(b): the pixels of the cell at       *)
(* (col, row) that write byte b; Later: their order in the loops.          *)
(***************************************************************************)
Top(row) == row * CELL_H

Writers(col, row, b) ==
    LET X == (col * CELL_W)..((col + 1) * CELL_W - 1)
        Y == Top(row)..(Top(row) + CELL_H - 1)
        line == b \div fb.pitch
    IN  UNION {LET last == (b - sy * fb.pitch) \div Bytes
               IN  {<<sx, sy>> : sx \in {v \in (last - PIXEL + 1)..last :
                                            v \in X /\ COORD(v, sy) + PIXEL > b}}
               : sy \in {line - 1, line} \cap Y}
Later(p, q) ==
    LET gy(r) == r[2] \div SCALE
    IN  \/ gy(p) > gy(q)
        \/ gy(p) = gy(q) /\ p[1] > q[1]
        \/ gy(p) = gy(q) /\ p[1] = q[1] /\ p[2] >= q[2]

GlyphMirrored(col, row, p, c) ==        \* mutant: the lowest bit on the left
    Lit(c, FONT_W - 1 - ((p[1] - col * CELL_W) \div SCALE), (p[2] - Top(row)) \div SCALE)
Glyph(col, row, p, c) ==
    Lit(c, (p[1] - col * CELL_W) \div SCALE, (p[2] - Top(row)) \div SCALE)

fbconchar(col, row, c) ==
    [b \in DOMAIN mem |->
        LET W == Writers(col, row, b) IN
        IF W = {} THEN mem[b]
        ELSE Glyph(col, row, CHOOSE p \in W : \A q \in W : Later(p, q), c)]

LastByte(col, row) ==
    COORD((col + 1) * CELL_W - 1, Top(row) + CELL_H - 1) + PIXEL - 1

Draw(col, row, c) ==
    /\ mem' = fbconchar(col, row, c)
    /\ shown' = IF <<col, row>> \in Cells
                THEN [shown EXCEPT ![<<col, row>>] = c] ELSE shown
    /\ over' = IF col >= Columns THEN over \cup {row} ELSE over
    /\ mode' = IF LastByte(col, row) \in DOMAIN mem THEN mode ELSE "offscreen"

(***************************************************************************)
(* fbcon_write, one character.  The cursor may stand one cell past the     *)
(* last column, and a character is drawn there; y has no bound.            *)
(***************************************************************************)
LineFull == x > Columns

fbcon_write(c) ==
    /\ mode = "ok"
    /\ y <= Lines                        \* bound: lines below the screen
    /\ IF LineFull \/ c = NEWLINE
       THEN y' = y + 1 /\ x' = 0 /\ UNCHANGED <<mem, shown, over, mode>>
       ELSE IF c = BACKSPACE /\ x > 0
       THEN x' = x - 1 /\ UNCHANGED <<y, mem, shown, over, mode>>
       ELSE Draw(x, y, c) /\ x' = x + 1 /\ UNCHANGED y
    /\ UNCHANGED fb

(***************************************************************************)
(* fbdev_write copies sz bytes to the start of the frame buffer, wherever  *)
(* the file's offset is.                                                   *)
(***************************************************************************)
Touched(cell, sz) == COORD(cell[1] * CELL_W, cell[2] * CELL_H) < sz

fbdev_write(sz) ==
    /\ mode = "ok"
    /\ mem' = [b \in DOMAIN mem |-> mem[b] \/ b < sz]
    /\ shown' = [cell \in Cells |-> IF Touched(cell, sz) THEN Nothing ELSE shown[cell]]
    /\ mode' = IF sz <= fb.pitch * fb.height THEN mode ELSE "long"
    /\ UNCHANGED <<fb, x, y, over>>

Stopped == mode # "ok" /\ UNCHANGED vars

Next ==
    \/ \E c \in Chars : fbcon_write(c)
    \/ \E sz \in FbSizes : fbdev_write(sz)
    \/ Stopped

Spec == Init /\ [][Next]_vars

-----------------------------------------------------------------------------
(***************************************************************************)
(* A character in column Columns runs over the edge of the screen into the *)
(* next scan lines, unless the pitch leaves it room.                       *)
(***************************************************************************)
RunsOver(row) ==
    (row \in over \/ row - 1 \in over) /\ fb.pitch < (Columns + 1) * CELL_W * Bytes

(***************************************************************************)
(* Bytes of a pixel that its left neighbour writes as well: with less than *)
(* 4 bytes to the pixel, those of the cell's first column change when the  *)
(* cell to the left is drawn again.                                        *)
(***************************************************************************)
Exposed(sx, k) == sx % CELL_W = 0 /\ k < PIXEL - Bytes

(***************************************************************************)
(* The screen shows what was written: in each cell all pixels of the       *)
(* character last drawn there, whatever was drawn around it before and     *)
(* after, with the exceptions above.                                       *)
(***************************************************************************)
CellsShow ==
    mode = "ok" => \A cell \in Cells :
        shown[cell] # Nothing /\ ~(cell[1] = 0 /\ RunsOver(cell[2])) =>
            \A i \in 0..(CELL_W - 1), j \in 0..(CELL_H - 1) :
                LET sx == cell[1] * CELL_W + i
                    sy == cell[2] * CELL_H + j
                IN  \A k \in 0..(Bytes - 1) : ~Exposed(sx, k) =>
                        mem[COORD(sx, sy) + k] = Lit(shown[cell], i \div SCALE, j \div SCALE)

(***************************************************************************)
(* The console writes inside the frame buffer as long as the cursor is on  *)
(* the screen: outside it only for a line below the last, for the cell     *)
(* past the edge, or for the last pixel of less than 4 bytes.              *)
(***************************************************************************)
OnScreen ==
    mode = "offscreen" =>
        \/ y >= Lines
        \/ \E row \in over : row = Lines - 1
        \/ Bytes < PIXEL /\ y = Lines - 1

(***************************************************************************)
(* The cursor never leaves the line it is on by more than two cells, and   *)
(* never moves left of it, for any mixture of characters and backspaces.   *)
(***************************************************************************)
CursorOnLine == x \in 0..(Columns + 1)

(***************************************************************************)
(* The screen shows what was written, and no pixel lands elsewhere while   *)
(* the cursor is on the screen, which it leaves by two cells at most.      *)
(***************************************************************************)
ScreenShows == CellsShow /\ OnScreen /\ CursorOnLine
=============================================================================
