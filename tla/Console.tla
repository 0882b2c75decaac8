------------------------------ MODULE Console ------------------------------
(***************************************************************************)
(* The framebuffer console (fb.c): fb_init, fb_output and fb_scrollup,     *)
(* pixel by pixel.  A pixel of a character is named by the character and   *)
(* its place in the glyph, so that a glyph drawn or moved askew is seen.   *)
(* A step is one fb_output: see FbOutputExclusive in KernelTraps.          *)
(***************************************************************************)
EXTENDS Integers, Sequences, FiniteSets

CONSTANTS
    Width, Height,    \* of the framebuffer
    FontW, FontH,     \* FONT_WIDTH, FONT_HEIGHT
    Printable,        \* characters with a glyph of their own
    Behind            \* pixels of memory behind the framebuffer

MaxX == Width \div FontW
MaxY == Height \div FontH

\* kernel_start is called with 800 x 600.
ASSUME ConsoleAssumption ==
    /\ Width \in Nat /\ Height \in Nat /\ FontW \in Nat \ {0} /\ FontH \in Nat \ {0}
    /\ MaxX >= 1 /\ MaxY >= 2
    /\ "?" \in Printable
    /\ {"nul", "newline", "other", "black", "theirs"} \cap Printable = {}
    /\ Behind \in Nat

VARIABLES fb, PosX, PosY

vars == <<fb, PosX, PosY>>

Black == <<"black", 0, 0>>
Theirs == <<"theirs", 0, 0>>    \* what lies behind the framebuffer
Area == Width * Height
Memory == 0..(Area + Behind - 1)

----------------------------------------------------------------------------
\* fb_init clears the screen; its hello statement is output like any other.
FbInit == fb = [p \in Memory |-> IF p < Area THEN Black ELSE Theirs]

Count == Width * ((MaxY - 1) * FontH)

\* Mutant: the height of a row is taken for the width of a character.
Row_Width == Width * FontW

Row == Width * FontH

\* Mutant: the last row is not cleared.
FbScrollup_Keep(f) == [p \in Memory |-> IF p < Count THEN f[p + Row] ELSE f[p]]

FbScrollup(f) == [p \in Memory |-> IF p < Count THEN f[p + Row]
                                   ELSE IF p < Count + Row THEN Black
                                   ELSE f[p]]

\* The glyph of ch with its corner at pixel cur.
Draw(f, cur, ch) ==
    [p \in Memory |->
        LET j == (p - cur) \div Width  i == (p - cur) % Width
        IN  IF p >= cur /\ j < FontH /\ i < FontW THEN <<ch, j, i>> ELSE f[p]]

\* Mutant: the cursor is past the last column before it wraps.
Wraps_Late(ch) == ch = "newline" \/ PosX = MaxX + 1

Wraps(ch) == ch = "newline" \/ PosX = MaxX

Known(ch) == IF ch = "other" THEN "?" ELSE ch

FbOutput(ch) ==
    /\ ch # "nul"
    /\ LET x       == IF Wraps(ch) THEN 0 ELSE PosX
           below   == IF Wraps(ch) THEN PosY + 1 ELSE PosY
           scrolls == below = MaxY
           y       == IF scrolls THEN below - 1 ELSE below
           f       == IF scrolls THEN FbScrollup(fb) ELSE fb
       IN  /\ PosY' = y
           /\ IF ch = "newline"
              THEN fb' = f /\ PosX' = 0
              ELSE /\ fb' = Draw(f, x * FontW + y * FontH * Width, Known(ch))
                   /\ PosX' = x + 1

Init == FbInit /\ PosX = 0 /\ PosY = 0

\* A NUL is not output at all.
Next == \E ch \in Printable \cup {"newline", "other"} : FbOutput(ch)

Spec == Init /\ [][Next]_vars

----------------------------------------------------------------------------
(* Properties.                                                             *)

Pixels == {Black, Theirs} \cup (Printable \X (0..(FontH - 1)) \X (0..(FontW - 1)))

\* The type invariant: the cursor is in the screen, or behind a full row.
TypeOK ==
    /\ fb \in [Memory -> Pixels]
    /\ PosX \in 0..MaxX /\ PosY \in 0..(MaxY - 1)

\* What cell x, y shows: a character, black, or a mixture of pixels.
Cell(x, y) ==
    LET at(j, i)  == fb[x * FontW + i + (y * FontH + j) * Width]
        Shows(ch) == \A j \in 0..(FontH - 1), i \in 0..(FontW - 1) :
                        at(j, i) = <<ch, j, i>>
    IN  IF \A j \in 0..(FontH - 1), i \in 0..(FontW - 1) : at(j, i) = Black
        THEN "black"
        ELSE IF \E ch \in Printable : Shows(ch)
             THEN CHOOSE ch \in Printable : Shows(ch)
             ELSE "mixture"

\* Nothing is drawn in the margins to the right and below the last row, nor
\* in memory behind the framebuffer, and from the cursor on the screen is
\* black: what scrolled away leaves no trace.
ScreenClean ==
    /\ \A p \in Memory :
          /\ p >= Area => fb[p] = Theirs
          /\ p < Area /\ (p % Width >= MaxX * FontW \/ p >= Width * MaxY * FontH) =>
                fb[p] = Black
    /\ \A x \in 0..(MaxX - 1), y \in 0..(MaxY - 1) :
          y > PosY \/ (y = PosY /\ x >= PosX) => Cell(x, y) = "black"

\* The rows that the pixels show.
ShownRow(y) ==
    LET len == IF y = PosY THEN PosX
               ELSE Cardinality({x \in 0..(MaxX - 1) : Cell(x, y) # "black"})
    IN  [x \in 1..len |-> Cell(x - 1, y)]

ShownRows == [y \in 1..(PosY + 1) |-> ShownRow(y - 1)]

T == INSTANCE Terminal WITH Glyphs <- Printable, rows <- ShownRows

\* The pixels show the text as a terminal does, whatever was scrolled away,
\* and wherever lines wrap: a newline behind a full row begins one row.
TerminalSpec == T!Spec
=============================================================================
