---------------------------- MODULE ConsoleProofs --------------------------
(***************************************************************************)
(* The console on every screen, with every font and every character set:   *)
(* the cursor stays in the screen, nothing is drawn outside the text area, *)
(* and the pixels show the rows of a terminal.                             *)
(*                                                                         *)
(* A pixel is named here by its column c and its line l, the word c + l *  *)
(* Width of the framebuffer.                                               *)
(***************************************************************************)
EXTENDS Console, TLAPS, FiniteSetTheorems

Columns == 0..(Width - 1)
GlyphJ == 0..(FontH - 1)
GlyphI == 0..(FontW - 1)
CellX == 0..(MaxX - 1)
CellY == 0..(MaxY - 1)

----------------------------------------------------------------------------
(* Arithmetic.                                                             *)

LEMMA Place ==
    ASSUME NEW w \in Nat \ {0}, NEW c \in 0..(w - 1), NEW l \in Int
    PROVE  (c + l * w) % w = c /\ (c + l * w) \div w = l
  OBVIOUS

LEMMA Places ==
    ASSUME NEW w \in Nat \ {0}, NEW p \in Nat
    PROVE  /\ p % w \in 0..(w - 1) /\ p \div w \in Nat
           /\ p = (p % w) + (p \div w) * w
  OBVIOUS

\* A line ends before the next one begins.
LEMMA LineOrder ==
    ASSUME NEW w \in Nat \ {0}, NEW c \in 0..(w - 1), NEW l \in Int, NEW k \in Int
    PROVE  c + l * w < k * w <=> l < k
  <1>1. CASE l < k
    <2>1. l + 1 <= k BY <1>1
    <2>2. (l + 1) * w <= k * w BY <2>1
    <2>3. (l + 1) * w = l * w + w OBVIOUS
    <2> QED BY <1>1, <2>2, <2>3
  <1>2. CASE l >= k
    <2>1. l * w >= k * w BY <1>2
    <2> QED BY <1>2, <2>1
  <1> QED BY <1>1, <1>2

LEMMA Product ==
    ASSUME NEW a \in Nat, NEW b \in Nat
    PROVE  a * b \in Nat /\ (a + 1) * b = a * b + b /\ a * b = b * a
  OBVIOUS

LEMMA Products ==
    ASSUME NEW a \in Nat, NEW b \in Nat, NEW c \in Nat, a < b
    PROVE  a * c + c <= b * c /\ a * c \in Nat /\ b * c \in Nat
  <1>1. (a + 1) * c <= b * c OBVIOUS
  <1> QED BY <1>1, Product

----------------------------------------------------------------------------
(* The screen.                                                             *)

LEMMA Screen ==
    /\ Width \in Nat \ {0} /\ Height \in Nat \ {0}
    /\ FontW \in Nat \ {0} /\ FontH \in Nat \ {0}
    /\ MaxX \in Nat \ {0} /\ MaxY \in Nat /\ MaxY >= 2 /\ Behind \in Nat
    /\ MaxX * FontW \in Nat /\ MaxX * FontW <= Width
    /\ MaxY * FontH \in Nat /\ MaxY * FontH <= Height
    /\ Area \in Nat
  <1>1. /\ Width \in Nat /\ Height \in Nat /\ FontW \in Nat \ {0} /\ FontH \in Nat \ {0}
        /\ MaxX >= 1 /\ MaxY >= 2 /\ Behind \in Nat
    BY ConsoleAssumption
  <1>2. \A a \in Nat, b \in Nat \ {0} : a \div b \in Nat /\ (a \div b) * b <= a
    OBVIOUS
  <1>3. /\ MaxX \in Nat /\ MaxX * FontW <= Width
        /\ MaxY \in Nat /\ MaxY * FontH <= Height
    BY <1>1, <1>2 DEF MaxX, MaxY
  <1>4. MaxX * FontW \in Nat /\ MaxY * FontH \in Nat
    BY <1>1, <1>3, Product
  <1>5. Width # 0 /\ Height # 0
    <2>1. FontW <= MaxX * FontW /\ FontH <= MaxY * FontH
      BY <1>1, <1>3, Products
    <2> QED BY <1>1, <1>3, <1>4, <2>1
  <1>6. Area \in Nat BY <1>1, Product DEF Area
  <1> QED BY <1>1, <1>3, <1>4, <1>5, <1>6

\* The pixel of row j and column i of the glyph in cell x, y.
At(x, y, j, i) == x * FontW + i + (y * FontH + j) * Width

LEMMA AtPlace ==
    ASSUME NEW x \in CellX, NEW y \in CellY, NEW j \in GlyphJ, NEW i \in GlyphI
    PROVE  /\ x * FontW + i \in Columns /\ x * FontW + i < MaxX * FontW
           /\ y * FontH + j \in Nat /\ y * FontH + j < MaxY * FontH
           /\ y * FontH + j < Height
           /\ At(x, y, j, i) = (x * FontW + i) + (y * FontH + j) * Width
           /\ At(x, y, j, i) \in Memory /\ At(x, y, j, i) < Area
  <1>1. x * FontW + FontW <= MaxX * FontW /\ x * FontW \in Nat
    BY Screen, Products DEF CellX
  <1>2. y * FontH + FontH <= MaxY * FontH /\ y * FontH \in Nat
    BY Screen, Products DEF CellY
  <1>3. /\ x * FontW + i \in Columns /\ x * FontW + i < MaxX * FontW
        /\ y * FontH + j \in Nat /\ y * FontH + j < MaxY * FontH /\ y * FontH + j < Height
    BY <1>1, <1>2, Screen DEF Columns, GlyphJ, GlyphI
  <1>4. At(x, y, j, i) = (x * FontW + i) + (y * FontH + j) * Width
    BY DEF At
  <1>5. (y * FontH + j) * Width \in Nat BY <1>3, Screen, Product
  <1>6. (x * FontW + i) + (y * FontH + j) * Width < Height * Width
    BY <1>3, Screen, LineOrder DEF Columns
  <1>7. At(x, y, j, i) \in Nat /\ At(x, y, j, i) < Area
    BY <1>3, <1>4, <1>5, <1>6, Screen, Product DEF Area, Columns
  <1> QED BY <1>3, <1>4, <1>7, Screen DEF Memory

----------------------------------------------------------------------------
(* What fb_scrollup and the drawing of a glyph do to a pixel.              *)

LEMMA ScrollAt ==
    ASSUME NEW f, NEW c \in Columns, NEW l \in Nat, c + l * Width \in Memory
    PROVE  FbScrollup(f)[c + l * Width] =
             IF l < (MaxY - 1) * FontH THEN f[c + (l + FontH) * Width]
             ELSE IF l < MaxY * FontH THEN Black ELSE f[c + l * Width]
  <1> DEFINE p == c + l * Width
             k == (MaxY - 1) * FontH
  <1>1. k \in Nat /\ k + FontH = MaxY * FontH
    BY Screen, Product
  <1>2. Count = k * Width /\ Row = FontH * Width /\ k * Width \in Nat /\ FontH * Width \in Nat
    BY <1>1, Screen, Product DEF Count, Row
  <1>3. Count + Row = (MaxY * FontH) * Width
    <2>1. (k + FontH) * Width = k * Width + FontH * Width
      BY <1>1, Screen
    <2> QED BY <1>1, <1>2, <2>1
  <1>4. p < Count <=> l < k
    BY <1>1, <1>2, Screen, LineOrder DEF Columns
  <1>5. p < Count + Row <=> l < MaxY * FontH
    BY <1>3, Screen, LineOrder DEF Columns
  <1>6. p + Row = c + (l + FontH) * Width
    <2>1. (l + FontH) * Width = l * Width + FontH * Width /\ l * Width \in Nat
      BY Screen
    <2> QED BY <1>2, <2>1, Screen DEF Columns
  <1>7. FbScrollup(f)[p] = IF p < Count THEN f[p + Row]
                           ELSE IF p < Count + Row THEN Black ELSE f[p]
    BY DEF FbScrollup
  <1> QED BY <1>4, <1>5, <1>6, <1>7

LEMMA DrawAt ==
    ASSUME NEW f, NEW ch, NEW x \in CellX, NEW y \in CellY,
           NEW c \in Columns, NEW l \in Nat, c + l * Width \in Memory
    PROVE  Draw(f, x * FontW + y * FontH * Width, ch)[c + l * Width] =
             IF /\ x * FontW <= c /\ c < x * FontW + FontW
                /\ y * FontH <= l /\ l < y * FontH + FontH
             THEN <<ch, l - y * FontH, c - x * FontW>>
             ELSE f[c + l * Width]
  <1> DEFINE cx == x * FontW
             ly == y * FontH
             p == c + l * Width
             cur == cx + ly * Width
             j == (p - cur) \div Width
             i == (p - cur) % Width
  <1>1. /\ cx \in Nat /\ cx + FontW <= Width
        /\ ly \in Nat /\ c \in 0..(Width - 1) /\ Width \in Nat \ {0}
        /\ FontW \in Nat \ {0} /\ FontH \in Nat \ {0}
    BY Screen, Products DEF CellX, CellY, Columns
  <1>2. Draw(f, cur, ch)[p] = IF p >= cur /\ j < FontH /\ i < FontW
                              THEN <<ch, j, i>> ELSE f[p]
    BY DEF Draw
  <1> HIDE DEF cx, ly
  <1>3. p - cur = (c - cx) + (l - ly) * Width
    <2>1. (l - ly) * Width = l * Width - ly * Width
      BY <1>1
    <2>2. l * Width \in Int /\ ly * Width \in Int BY <1>1
    <2> QED BY <1>1, <2>1, <2>2
  <1>9. ASSUME NEW e \in 0..(Width - 1), NEW m \in Int, p - cur = e + m * Width
        PROVE  i = e /\ j = m
    BY <1>1, <1>9, Place
  <1> HIDE DEF i, j
  <1>4. CASE cx <= c
    <2>1. c - cx \in 0..(Width - 1) BY <1>1, <1>4
    <2>2. i = c - cx /\ j = l - ly
      BY <1>1, <1>3, <1>9, <2>1
    <2>3. p >= cur <=> l >= ly
      <3>1. (c - cx) + (l - ly) * Width < 0 * Width <=> l - ly < 0
        BY <1>1, <2>1, LineOrder
      <3>2. l * Width \in Int /\ ly * Width \in Int BY <1>1
      <3> QED BY <1>1, <1>3, <3>1, <3>2
    <2> QED BY <1>1, <1>2, <1>4, <2>2, <2>3 DEF cx, ly
  <1>5. CASE c < cx
    <2> DEFINE d == c - cx + Width
    <2>1. d \in 0..(Width - 1) BY <1>1, <1>5
    <2>2. p - cur = d + (l - ly - 1) * Width
      <3>1. (l - ly) * Width = (l - ly - 1) * Width + Width BY <1>1
      <3> QED BY <1>1, <1>3, <3>1
    <2>3. d + cx = c + Width /\ c >= 0 BY <1>1
    <2>4. l - ly - 1 \in Int BY <1>1
    <2> HIDE DEF d
    <2>5. i = d BY <1>9, <2>1, <2>2, <2>4
    <2>6. ~(i < FontW) BY <1>1, <2>1, <2>3, <2>5
    <2> QED BY <1>1, <1>2, <1>5, <2>6 DEF cx, ly
  <1> QED BY <1>1, <1>4, <1>5

----------------------------------------------------------------------------
(* The same for the pixels of a cell.                                      *)

\* fb_scrollup moves every cell up by a row, and clears the last row.
LEMMA CellScroll ==
    ASSUME NEW f, NEW x \in CellX, NEW y \in CellY, NEW j \in GlyphJ, NEW i \in GlyphI
    PROVE  FbScrollup(f)[At(x, y, j, i)] =
             IF y < MaxY - 1 THEN f[At(x, y + 1, j, i)] ELSE Black
  <1> DEFINE c == x * FontW + i
             l == y * FontH + j
  <1>1. /\ c \in Columns /\ l \in Nat /\ l < MaxY * FontH
        /\ At(x, y, j, i) = c + l * Width /\ c + l * Width \in Memory
    BY AtPlace
  <1>2. l < (MaxY - 1) * FontH <=> y < MaxY - 1
    <2>1. j + y * FontH < (MaxY - 1) * FontH <=> y < MaxY - 1
      BY Screen, LineOrder DEF GlyphJ, CellY
    <2>2. y * FontH \in Int BY Screen DEF CellY
    <2> QED BY <2>1, <2>2 DEF GlyphJ
  <1>3. At(x, y + 1, j, i) = c + (l + FontH) * Width
    <2>1. (y + 1) * FontH + j = l + FontH BY Screen, Product DEF CellY, GlyphJ
    <2> QED BY <2>1 DEF At
  <1> HIDE DEF c, l
  <1> QED BY <1>1, <1>2, <1>3, ScrollAt

\* A glyph is drawn in its cell, and leaves the other cells alone.
LEMMA CellDraw ==
    ASSUME NEW f, NEW ch, NEW u \in CellX, NEW v \in CellY,
           NEW x \in CellX, NEW y \in CellY, NEW j \in GlyphJ, NEW i \in GlyphI
    PROVE  Draw(f, u * FontW + v * FontH * Width, ch)[At(x, y, j, i)] =
             IF x = u /\ y = v THEN <<ch, j, i>> ELSE f[At(x, y, j, i)]
  <1> DEFINE c == x * FontW + i
             l == y * FontH + j
  <1>1. /\ c \in Columns /\ l \in Nat
        /\ At(x, y, j, i) = c + l * Width /\ c + l * Width \in Memory
    BY AtPlace
  <1>2. u * FontW <= c /\ c < u * FontW + FontW <=> x = u
    <2>1. /\ i + x * FontW < u * FontW <=> x < u
          /\ i + x * FontW < (u + 1) * FontW <=> x < u + 1
      BY Screen, LineOrder DEF GlyphI, CellX
    <2>2. (u + 1) * FontW = u * FontW + FontW /\ u * FontW \in Nat /\ x * FontW \in Nat
      BY Screen, Product DEF CellX
    <2> QED BY <2>1, <2>2 DEF GlyphI, CellX
  <1>3. v * FontH <= l /\ l < v * FontH + FontH <=> y = v
    <2>1. /\ j + y * FontH < v * FontH <=> y < v
          /\ j + y * FontH < (v + 1) * FontH <=> y < v + 1
      BY Screen, LineOrder DEF GlyphJ, CellY
    <2>2. (v + 1) * FontH = v * FontH + FontH /\ v * FontH \in Nat /\ y * FontH \in Nat
      BY Screen, Product DEF CellY
    <2> QED BY <2>1, <2>2 DEF GlyphJ, CellY
  <1>4. x = u => c - u * FontW = i
    BY Screen, Product DEF CellX, GlyphI
  <1>5. y = v => l - v * FontH = j
    BY Screen, Product DEF CellY, GlyphJ
  <1> HIDE DEF c, l
  <1>6. ASSUME NEW d \in Columns, NEW k \in Nat, d + k * Width \in Memory
        PROVE  Draw(f, u * FontW + v * FontH * Width, ch)[d + k * Width] =
                 IF /\ u * FontW <= d /\ d < u * FontW + FontW
                    /\ v * FontH <= k /\ k < v * FontH + FontH
                 THEN <<ch, k - v * FontH, d - u * FontW>>
                 ELSE f[d + k * Width]
    BY <1>6, DrawAt
  <1> QED BY <1>1, <1>2, <1>3, <1>4, <1>5, <1>6

----------------------------------------------------------------------------
(* The inductive invariant: the margins are as fb_init left them, and a    *)
(* row is a run of characters with black behind it, which ends at the      *)
(* cursor in the cursor's row, and is empty below.                         *)

Blank(f, x, y) == \A j \in GlyphJ, i \in GlyphI : f[At(x, y, j, i)] = Black
Shows(f, x, y, ch) == \A j \in GlyphJ, i \in GlyphI : f[At(x, y, j, i)] = <<ch, j, i>>

Filled(f, y, n) ==
    \A x \in CellX :
        /\ x < n => \E ch \in Printable : Shows(f, x, y, ch)
        /\ x >= n => Blank(f, x, y)

Margins(f) ==
    \A c \in Columns, l \in Nat :
        c + l * Width \in Memory =>
            /\ l >= Height => f[c + l * Width] = Theirs
            /\ l < Height /\ (c >= MaxX * FontW \/ l >= MaxY * FontH) =>
                  f[c + l * Width] = Black

Rows(f, x, y) ==
    \A v \in CellY : \E n \in 0..MaxX :
        /\ Filled(f, v, n)
        /\ v = y => n = x
        /\ v > y => n = 0

ScreenOk(f, x, y) ==
    /\ f \in [Memory -> Pixels] /\ x \in 0..MaxX /\ y \in CellY
    /\ Margins(f) /\ Rows(f, x, y)

ScreenInv == ScreenOk(fb, PosX, PosY)

LEMMA InMemory ==
    ASSUME NEW c \in Columns, NEW l \in Nat, l < Height
    PROVE  c + l * Width \in Memory
  <1>1. c + l * Width < Height * Width BY Screen, LineOrder DEF Columns
  <1>2. l * Width \in Nat /\ Height * Width = Area BY Screen, Product DEF Area
  <1> QED BY <1>1, <1>2, Screen DEF Memory, Columns

LEMMA ScrollType ==
    ASSUME NEW f \in [Memory -> Pixels]
    PROVE  FbScrollup(f) \in [Memory -> Pixels]
  <1>1. ASSUME NEW p \in Memory
        PROVE  FbScrollup(f)[p] \in Pixels
    <2>1. PICK c \in Columns, l \in Nat : p = c + l * Width
      <3>1. p \in Nat /\ Width \in Nat \ {0} BY Screen DEF Memory
      <3>2. p % Width \in Columns /\ p \div Width \in Nat /\ p = (p % Width) + (p \div Width) * Width
        BY <3>1, Places DEF Columns
      <3> QED BY <3>2
    <2>2. Black \in Pixels BY DEF Pixels
    <2>3. l < (MaxY - 1) * FontH => f[c + (l + FontH) * Width] \in Pixels
      <3>1. (MaxY - 1) * FontH + FontH = MaxY * FontH /\ (MaxY - 1) * FontH \in Nat
        BY Screen, Product
      <3>2. l < (MaxY - 1) * FontH => l + FontH \in Nat /\ l + FontH < Height
        BY <3>1, Screen
      <3> QED BY <3>2, InMemory
    <2> QED BY <2>1, <2>2, <2>3, ScrollAt
  <1>2. FbScrollup(f) = [p \in Memory |-> FbScrollup(f)[p]]
    BY DEF FbScrollup
  <1> QED BY <1>1, <1>2

LEMMA DrawType ==
    ASSUME NEW f \in [Memory -> Pixels], NEW ch \in Printable, NEW cur
    PROVE  /\ cur \in Nat => Draw(f, cur, ch) \in [Memory -> Pixels]
  <1> SUFFICES ASSUME cur \in Nat, NEW p \in Memory
               PROVE  (LET j == (p - cur) \div Width  i == (p - cur) % Width
                       IN  IF p >= cur /\ j < FontH /\ i < FontW
                           THEN <<ch, j, i>> ELSE f[p]) \in Pixels
    BY DEF Draw
  <1>1. p \in Nat BY DEF Memory
  <1>2. CASE p >= cur
    <2>1. p - cur \in Nat BY <1>1, <1>2
    <2>2. (p - cur) \div Width \in Nat /\ (p - cur) % Width \in Nat
      BY <2>1, Screen, Places
    <2> QED BY <1>1, <1>2, <2>2, Screen DEF Pixels
  <1>3. CASE ~(p >= cur) BY <1>3
  <1> QED BY <1>2, <1>3

LEMMA MarginsScroll ==
    ASSUME NEW f, Margins(f)
    PROVE  Margins(FbScrollup(f))
  <1> SUFFICES ASSUME NEW c \in Columns, NEW l \in Nat, c + l * Width \in Memory
               PROVE  /\ l >= Height => FbScrollup(f)[c + l * Width] = Theirs
                      /\ l < Height /\ (c >= MaxX * FontW \/ l >= MaxY * FontH) =>
                            FbScrollup(f)[c + l * Width] = Black
    BY DEF Margins
  <1>1. (MaxY - 1) * FontH + FontH = MaxY * FontH /\ (MaxY - 1) * FontH \in Nat
    BY Screen, Product
  <1>2. CASE l < (MaxY - 1) * FontH
    <2>1. l + FontH \in Nat /\ l + FontH < Height /\ l + FontH < MaxY * FontH
      BY <1>1, <1>2, Screen
    <2>2. c + (l + FontH) * Width \in Memory BY <2>1, InMemory
    <2>3. c >= MaxX * FontW => f[c + (l + FontH) * Width] = Black
      BY <2>1, <2>2 DEF Margins
    <2> QED BY <1>1, <1>2, <2>1, <2>3, Screen, ScrollAt
  <1>3. CASE ~(l < (MaxY - 1) * FontH) /\ l < MaxY * FontH
    BY <1>3, Screen, ScrollAt
  <1>4. CASE l >= MaxY * FontH
    <2>1. FbScrollup(f)[c + l * Width] = f[c + l * Width]
      BY <1>1, <1>4, Screen, ScrollAt
    <2> QED BY <2>1 DEF Margins
  <1> QED BY <1>2, <1>3, <1>4, Screen

LEMMA MarginsDraw ==
    ASSUME NEW f, NEW ch, NEW x \in CellX, NEW y \in CellY, Margins(f)
    PROVE  Margins(Draw(f, x * FontW + y * FontH * Width, ch))
  <1> DEFINE g == Draw(f, x * FontW + y * FontH * Width, ch)
  <1> SUFFICES ASSUME NEW c \in Columns, NEW l \in Nat, c + l * Width \in Memory
               PROVE  /\ l >= Height => g[c + l * Width] = Theirs
                      /\ l < Height /\ (c >= MaxX * FontW \/ l >= MaxY * FontH) =>
                            g[c + l * Width] = Black
    BY DEF Margins
  <1>1. x * FontW + FontW <= MaxX * FontW /\ x * FontW \in Nat
    BY Screen, Products DEF CellX
  <1>2. y * FontH + FontH <= MaxY * FontH /\ y * FontH \in Nat
    BY Screen, Products DEF CellY
  <1>3. ASSUME l >= Height \/ c >= MaxX * FontW \/ l >= MaxY * FontH
        PROVE  g[c + l * Width] = f[c + l * Width]
    <2>1. ~(/\ x * FontW <= c /\ c < x * FontW + FontW
            /\ y * FontH <= l /\ l < y * FontH + FontH)
      BY <1>1, <1>2, <1>3, Screen DEF Columns
    <2>2. g[c + l * Width] =
             IF /\ x * FontW <= c /\ c < x * FontW + FontW
                /\ y * FontH <= l /\ l < y * FontH + FontH
             THEN <<ch, l - y * FontH, c - x * FontW>>
             ELSE f[c + l * Width]
      BY DrawAt
    <2> QED BY <2>1, <2>2, Zenon
  <1> HIDE DEF g
  <1> QED BY <1>3 DEF Margins

----------------------------------------------------------------------------
(* The parts of fb_output: a new row, a row scrolled away, a glyph drawn.  *)

LEMMA FeedOk ==
    ASSUME NEW f, NEW x, NEW y, ScreenOk(f, x, y), y < MaxY - 1
    PROVE  ScreenOk(f, 0, y + 1)
  <1>1. y + 1 \in CellY /\ y \in CellY /\ 0 \in 0..MaxX
    BY Screen DEF ScreenOk, CellY
  <1>2. ASSUME NEW v \in CellY
        PROVE  \E n \in 0..MaxX : /\ Filled(f, v, n)
                                  /\ v = y + 1 => n = 0
                                  /\ v > y + 1 => n = 0
    <2>1. PICK n \in 0..MaxX : Filled(f, v, n) /\ (v > y => n = 0)
      BY DEF ScreenOk, Rows
    <2> QED BY <1>1, <2>1 DEF CellY
  <1> QED BY <1>1, <1>2 DEF ScreenOk, Rows

LEMMA FilledScroll ==
    ASSUME NEW f, NEW y \in CellY, NEW n \in 0..MaxX
    PROVE  /\ y < MaxY - 1 /\ Filled(f, y + 1, n) => Filled(FbScrollup(f), y, n)
           /\ y = MaxY - 1 => Filled(FbScrollup(f), y, 0)
  <1> DEFINE g == FbScrollup(f)
  <1> HIDE DEF g
  <1>1. ASSUME y < MaxY - 1, Filled(f, y + 1, n), NEW x \in CellX
        PROVE  /\ x < n => \E ch \in Printable : Shows(g, x, y, ch)
               /\ x >= n => Blank(g, x, y)
    <2>1. \A j \in GlyphJ, i \in GlyphI : g[At(x, y, j, i)] = f[At(x, y + 1, j, i)]
      BY <1>1, CellScroll DEF g
    <2>2. /\ x < n => \E ch \in Printable : Shows(f, x, y + 1, ch)
          /\ x >= n => Blank(f, x, y + 1)
      BY <1>1 DEF Filled
    <2> QED BY <2>1, <2>2 DEF Shows, Blank
  <1>2. ASSUME y = MaxY - 1, NEW x \in CellX
        PROVE  ~(x < 0) /\ Blank(g, x, y)
    BY <1>2, CellScroll, Screen DEF g, Blank, CellX
  <1> QED BY <1>1, <1>2 DEF Filled, g

LEMMA ScrollOk ==
    ASSUME NEW f, NEW x, ScreenOk(f, x, MaxY - 1)
    PROVE  ScreenOk(FbScrollup(f), 0, MaxY - 1)
  <1>1. MaxY - 1 \in CellY /\ 0 \in 0..MaxX BY Screen DEF CellY
  <1>2. FbScrollup(f) \in [Memory -> Pixels] /\ Margins(FbScrollup(f))
    BY ScrollType, MarginsScroll DEF ScreenOk
  <1>3. ASSUME NEW v \in CellY
        PROVE  \E n \in 0..MaxX : /\ Filled(FbScrollup(f), v, n)
                                  /\ v = MaxY - 1 => n = 0
                                  /\ v > MaxY - 1 => n = 0
    <2>1. CASE v < MaxY - 1
      <3>1. v + 1 \in CellY BY <2>1, Screen DEF CellY
      <3>2. PICK n \in 0..MaxX : Filled(f, v + 1, n)
        BY <3>1 DEF ScreenOk, Rows
      <3>3. Filled(FbScrollup(f), v, n) BY <2>1, <3>2, FilledScroll
      <3> QED BY <2>1, <3>3, Screen DEF CellY
    <2>2. CASE v = MaxY - 1
      BY <1>1, <2>2, FilledScroll
    <2> QED BY <2>1, <2>2, Screen DEF CellY
  <1> QED BY <1>1, <1>2, <1>3 DEF ScreenOk, Rows

LEMMA FilledDraw ==
    ASSUME NEW f, NEW ch \in Printable, NEW x \in CellX, NEW y \in CellY,
           NEW v \in CellY, NEW n \in 0..MaxX, Filled(f, v, n)
    PROVE  LET g == Draw(f, x * FontW + y * FontH * Width, ch)
           IN  /\ v # y => Filled(g, v, n)
               /\ v = y /\ n = x => Filled(g, v, x + 1)
  <1> DEFINE g == Draw(f, x * FontW + y * FontH * Width, ch)
  <1>1. ASSUME NEW u \in CellX
        PROVE  \A j \in GlyphJ, i \in GlyphI :
                  g[At(u, v, j, i)] = IF u = x /\ v = y THEN <<ch, j, i>>
                                      ELSE f[At(u, v, j, i)]
    BY CellDraw
  <1> HIDE DEF g
  <1>2. ASSUME NEW u \in CellX
        PROVE  /\ u < n => \E c \in Printable : Shows(f, u, v, c)
               /\ u >= n => Blank(f, u, v)
    BY DEF Filled
  <1>3. ASSUME v # y PROVE Filled(g, v, n)
    BY <1>1, <1>2, <1>3 DEF Filled, Shows, Blank
  <1>4. ASSUME v = y, n = x PROVE Filled(g, v, x + 1)
    <2> SUFFICES ASSUME NEW u \in CellX
                 PROVE  /\ u < x + 1 => \E c \in Printable : Shows(g, u, v, c)
                        /\ u >= x + 1 => Blank(g, u, v)
      BY DEF Filled
    <2>1. CASE u = x
      <3>1. Shows(g, u, v, ch) BY <1>1, <1>4, <2>1 DEF Shows
      <3> QED BY <2>1, <3>1 DEF CellX
    <2>2. CASE u < x
      <3>1. PICK c \in Printable : Shows(f, u, v, c) BY <1>2, <1>4, <2>2
      <3>2. u # x BY <2>2 DEF CellX
      <3>3. Shows(g, u, v, c) BY <1>1, <3>1, <3>2 DEF Shows
      <3> QED BY <2>2, <3>3 DEF CellX
    <2>3. CASE u > x
      <3>1. Blank(f, u, v) BY <1>2, <1>4, <2>3 DEF CellX
      <3>2. u # x BY <2>3 DEF CellX
      <3>3. Blank(g, u, v) BY <1>1, <3>1, <3>2 DEF Blank
      <3> QED BY <2>3, <3>3 DEF CellX
    <2> QED BY <2>1, <2>2, <2>3 DEF CellX
  <1> QED BY <1>3, <1>4 DEF g

LEMMA DrawOk ==
    ASSUME NEW f, NEW x \in CellX, NEW y, NEW ch \in Printable, ScreenOk(f, x, y)
    PROVE  ScreenOk(Draw(f, x * FontW + y * FontH * Width, ch), x + 1, y)
  <1> DEFINE cur == x * FontW + y * FontH * Width
             g == Draw(f, cur, ch)
  <1>1. y \in CellY /\ x + 1 \in 0..MaxX /\ f \in [Memory -> Pixels]
    BY Screen DEF ScreenOk, CellX
  <1>2. cur \in Nat
    <2>1. x * FontW \in Nat /\ y * FontH \in Nat BY <1>1, Screen, Product DEF CellX, CellY
    <2>2. y * FontH * Width \in Nat BY <2>1, Screen, Product
    <2> QED BY <2>1, <2>2
  <1>3. g \in [Memory -> Pixels] BY <1>1, <1>2, DrawType
  <1>4. Margins(g) BY <1>1, MarginsDraw DEF ScreenOk
  <1>5. ASSUME NEW v \in CellY
        PROVE  \E n \in 0..MaxX : /\ Filled(g, v, n)
                                  /\ v = y => n = x + 1
                                  /\ v > y => n = 0
    <2>1. PICK n \in 0..MaxX : Filled(f, v, n) /\ (v = y => n = x) /\ (v > y => n = 0)
      BY DEF ScreenOk, Rows
    <2>2. CASE v = y
      <3>1. Filled(g, v, x + 1) BY <1>1, <2>1, <2>2, FilledDraw
      <3> QED BY <1>1, <2>2, <3>1 DEF CellY
    <2>3. CASE v # y
      <3>1. Filled(g, v, n) BY <1>1, <2>1, <2>3, FilledDraw
      <3> QED BY <2>1, <2>3, <3>1
    <2> QED BY <2>2, <2>3
  <1> HIDE DEF g
  <1>6. ScreenOk(g, x + 1, y) BY <1>1, <1>3, <1>4, <1>5 DEF ScreenOk, Rows
  <1> QED BY <1>6 DEF g

----------------------------------------------------------------------------
(* Invariance.                                                             *)

LEMMA ScreenInit == Init => ScreenInv
  <1> SUFFICES ASSUME Init PROVE ScreenInv
    OBVIOUS
  <1>1. PosX = 0 /\ PosY = 0 /\ 0 \in 0..MaxX /\ 0 \in CellY
    BY Screen DEF Init, CellY
  <1>2. \A p \in Memory : fb[p] = IF p < Area THEN Black ELSE Theirs
    BY DEF Init, FbInit
  <1>3. fb \in [Memory -> Pixels]
    BY DEF Init, FbInit, Pixels
  <1>4. Margins(fb)
    <2> SUFFICES ASSUME NEW c \in Columns, NEW l \in Nat, c + l * Width \in Memory
                 PROVE  /\ l >= Height => fb[c + l * Width] = Theirs
                        /\ l < Height => fb[c + l * Width] = Black
      BY DEF Margins
    <2>1. c + l * Width < Height * Width <=> l < Height
      BY Screen, LineOrder DEF Columns
    <2>2. Height * Width = Area BY Screen, Product DEF Area
    <2> QED BY <1>2, <2>1, <2>2, Screen
  <1>5. \A x \in CellX, y \in CellY : Blank(fb, x, y)
    BY <1>2, AtPlace DEF Blank
  <1>6. \A y \in CellY : Filled(fb, y, 0)
    BY <1>5 DEF Filled, CellX
  <1> QED BY <1>1, <1>3, <1>4, <1>6 DEF ScreenInv, ScreenOk, Rows

\* The screen and the cursor when fb_output comes to the character.
Ready(ch) == IF ~Wraps(ch) THEN fb
             ELSE IF PosY + 1 = MaxY THEN FbScrollup(fb) ELSE fb
ReadyX(ch) == IF Wraps(ch) THEN 0 ELSE PosX
ReadyY(ch) == IF Wraps(ch) /\ PosY + 1 # MaxY THEN PosY + 1 ELSE PosY

LEMMA ReadyOk ==
    ASSUME ScreenInv, NEW ch
    PROVE  /\ ScreenOk(Ready(ch), ReadyX(ch), ReadyY(ch))
           /\ ReadyX(ch) \in CellX /\ ReadyY(ch) \in CellY
  <1>1. PosX \in 0..MaxX /\ PosY \in CellY BY DEF ScreenInv, ScreenOk
  <1>2. CASE ~Wraps(ch)
    <2>1. PosX # MaxX BY <1>2 DEF Wraps
    <2> QED BY <1>1, <1>2, <2>1, Screen DEF ScreenInv, Ready, ReadyX, ReadyY, CellX
  <1>3. CASE Wraps(ch) /\ PosY + 1 # MaxY
    <2>1. PosY < MaxY - 1 /\ PosY + 1 \in CellY BY <1>1, <1>3, Screen DEF CellY
    <2>2. ScreenOk(fb, 0, PosY + 1) BY <2>1, FeedOk DEF ScreenInv
    <2> QED BY <1>3, <2>1, <2>2, Screen DEF Ready, ReadyX, ReadyY, CellX
  <1>4. CASE Wraps(ch) /\ PosY + 1 = MaxY
    <2>1. PosY = MaxY - 1 BY <1>1, <1>4, Screen DEF CellY
    <2>2. ScreenOk(FbScrollup(fb), 0, PosY) BY <2>1, ScrollOk DEF ScreenInv
    <2> QED BY <1>1, <1>4, <2>2, Screen DEF Ready, ReadyX, ReadyY, CellX
  <1> QED BY <1>2, <1>3, <1>4

LEMMA OutputIs ==
    ASSUME ScreenInv, NEW ch \in Printable \cup {"newline", "other"}, FbOutput(ch)
    PROVE  /\ PosY' = ReadyY(ch)
           /\ ch = "newline" => fb' = Ready(ch) /\ PosX' = 0 /\ Wraps(ch)
           /\ ch # "newline" =>
                /\ Known(ch) \in Printable
                /\ PosX' = ReadyX(ch) + 1
                /\ fb' = Draw(Ready(ch), ReadyX(ch) * FontW + ReadyY(ch) * FontH * Width,
                              Known(ch))
  <1>1. PosX \in 0..MaxX /\ PosY \in 0..(MaxY - 1) /\ MaxY \in Nat
    BY Screen DEF ScreenInv, ScreenOk, CellY
  <1> DEFINE below == IF Wraps(ch) THEN PosY + 1 ELSE PosY
  <1>2. below = MaxY <=> Wraps(ch) /\ PosY + 1 = MaxY BY <1>1
  <1>3. (IF below = MaxY THEN below - 1 ELSE below) = ReadyY(ch)
    BY <1>1, <1>2 DEF ReadyY
  <1>4. (IF below = MaxY THEN FbScrollup(fb) ELSE fb) = Ready(ch)
    BY <1>1, <1>2 DEF Ready
  <1>5. ch # "newline" => Known(ch) \in Printable
    BY ConsoleAssumption DEF Known
  <1>6. ch = "newline" => Wraps(ch) BY DEF Wraps
  <1> QED BY <1>3, <1>4, <1>5, <1>6 DEF FbOutput, ReadyX

LEMMA ScreenStep == ScreenInv /\ [Next]_vars => ScreenInv'
  <1> SUFFICES ASSUME ScreenInv, [Next]_vars PROVE ScreenInv'
    OBVIOUS
  <1>1. ASSUME NEW ch \in Printable \cup {"newline", "other"}, FbOutput(ch)
        PROVE  ScreenOk(fb', PosX', PosY')
    <2>1. /\ ScreenOk(Ready(ch), ReadyX(ch), ReadyY(ch))
          /\ ReadyX(ch) \in CellX /\ ReadyY(ch) \in CellY
      BY ReadyOk
    <2>2. CASE ch = "newline"
      BY <1>1, <2>1, <2>2, OutputIs DEF ReadyX
    <2>3. CASE ch # "newline"
      BY <1>1, <2>1, <2>3, OutputIs, DrawOk
    <2> QED BY <2>2, <2>3
  <1>2. CASE UNCHANGED vars BY <1>2 DEF vars, ScreenInv
  <1>3. ScreenOk(fb', PosX', PosY') => ScreenInv' BY DEF ScreenInv
  <1> QED BY <1>1, <1>2, <1>3 DEF Next

THEOREM ScreenInvariance == Spec => []ScreenInv
  <1> QED BY ScreenInit, ScreenStep, PTL DEF Spec

\* fb_output keeps the cursor in the screen, or behind a full row, and every
\* pixel what some character or fb_init makes of it.
THEOREM Typed == Spec => []TypeOK
  <1>1. ScreenInv => TypeOK BY DEF ScreenInv, ScreenOk, TypeOK, CellY
  <1> QED BY <1>1, ScreenInvariance, PTL

----------------------------------------------------------------------------
(* The screen is clean.                                                    *)

\* What cell x, y of the memory f shows.
CellOf(f, x, y) ==
    IF Blank(f, x, y) THEN "black"
    ELSE IF \E ch \in Printable : Shows(f, x, y, ch)
         THEN CHOOSE ch \in Printable : Shows(f, x, y, ch)
         ELSE "mixture"

LEMMA CellIs == ASSUME NEW x, NEW y PROVE Cell(x, y) = CellOf(fb, x, y)
  BY DEF Cell, CellOf, Blank, Shows, At, GlyphJ, GlyphI

\* fb.c:43-58, 78-89: scrolling and drawing leave no pixel behind, at no
\* width and height that the font does not divide either.
THEOREM NothingLeft == Spec => []ScreenClean
  <1> SUFFICES ASSUME ScreenInv PROVE ScreenClean
    BY ScreenInvariance, PTL
  <1>1. Margins(fb) /\ Rows(fb, PosX, PosY) /\ PosX \in 0..MaxX /\ PosY \in CellY
    BY DEF ScreenInv, ScreenOk
  <1>2. ASSUME NEW p \in Memory
        PROVE  /\ p >= Area => fb[p] = Theirs
               /\ p < Area /\ (p % Width >= MaxX * FontW \/ p >= Width * MaxY * FontH) =>
                     fb[p] = Black
    <2> DEFINE c == p % Width
               l == p \div Width
    <2>1. p \in Nat BY DEF Memory
    <2>2. c \in Columns /\ l \in Nat /\ p = c + l * Width
      BY <2>1, Screen, Places DEF Columns
    <2> HIDE DEF c, l
    <2>3. p < Height * Width <=> l < Height
      BY <2>2, Screen, LineOrder DEF Columns
    <2>4. Height * Width = Area BY Screen, Product DEF Area
    <2>5. p < (MaxY * FontH) * Width <=> l < MaxY * FontH
      BY <2>2, Screen, LineOrder DEF Columns
    <2>6. (MaxY * FontH) * Width = Width * MaxY * FontH
      BY Screen
    <2>7. /\ l >= Height => fb[p] = Theirs
          /\ l < Height /\ (c >= MaxX * FontW \/ l >= MaxY * FontH) => fb[p] = Black
      BY <1>1, <2>2 DEF Margins
    <2>8. p % Width = c BY DEF c
    <2>9. Area \in Nat /\ Height \in Nat /\ MaxY * FontH \in Nat BY Screen
    <2>10. /\ p >= Area <=> l >= Height
           /\ p < Area <=> l < Height
      BY <2>1, <2>2, <2>3, <2>4, <2>9
    <2>11. p >= Width * MaxY * FontH <=> l >= MaxY * FontH
      <3> DEFINE q == Width * MaxY * FontH
      <3>1. q \in Nat /\ (p < q <=> l < MaxY * FontH)
        BY <2>5, <2>6, <2>9, Screen, Product
      <3> HIDE DEF q
      <3>2. p >= q <=> l >= MaxY * FontH BY <2>1, <2>2, <2>9, <3>1
      <3> QED BY <3>2 DEF q
    <2> QED BY <2>7, <2>8, <2>10, <2>11
  <1>3. ASSUME NEW x \in CellX, NEW y \in CellY, y > PosY \/ (y = PosY /\ x >= PosX)
        PROVE  Cell(x, y) = "black"
    <2>1. PICK n \in 0..MaxX : Filled(fb, y, n) /\ (y = PosY => n = PosX) /\ (y > PosY => n = 0)
      BY <1>1 DEF Rows
    <2>2. x >= n BY <1>3, <2>1, Screen DEF CellX
    <2>3. Blank(fb, x, y) BY <2>1, <2>2 DEF Filled
    <2> QED BY <2>3, CellIs DEF CellOf
  <1> QED BY <1>2, <1>3 DEF ScreenClean, CellX, CellY

----------------------------------------------------------------------------
(* The pixels show a terminal's rows.                                      *)

RowOf(f, x, y, v) ==
    LET len == IF v = y THEN x
               ELSE Cardinality({u \in CellX : CellOf(f, u, v) # "black"})
    IN  [u \in 1..len |-> CellOf(f, u - 1, v)]

RowsOf(f, x, y) == [v \in 1..(y + 1) |-> RowOf(f, x, y, v - 1)]

\* r is what row v shows.
IsRow(f, v, r) ==
    /\ r \in Seq(Printable) /\ Len(r) \in 0..MaxX
    /\ \A u \in CellX :
          /\ u < Len(r) => Shows(f, u, v, r[u + 1])
          /\ u >= Len(r) => Blank(f, u, v)

LEMMA CellFacts ==
    ASSUME NEW f, NEW x, NEW y
    PROVE  /\ Blank(f, x, y) => CellOf(f, x, y) = "black"
           /\ \A ch \in Printable :
                 Shows(f, x, y, ch) => CellOf(f, x, y) = ch /\ ch # "black"
  <1> SUFFICES ASSUME NEW ch \in Printable, Shows(f, x, y, ch)
               PROVE  CellOf(f, x, y) = ch /\ ch # "black"
    BY DEF CellOf
  <1>1. 0 \in GlyphJ /\ 0 \in GlyphI BY Screen DEF GlyphJ, GlyphI
  <1>2. f[At(x, y, 0, 0)] = <<ch, 0, 0>> BY <1>1 DEF Shows
  <1>3. ch # "black" BY ConsoleAssumption
  <1>4. <<ch, 0, 0>> # Black BY <1>3 DEF Black
  <1>5. ~Blank(f, x, y) BY <1>1, <1>2, <1>4 DEF Blank
  <1>6. ASSUME NEW c \in Printable, Shows(f, x, y, c)
        PROVE  c = ch
    <2>1. f[At(x, y, 0, 0)] = <<c, 0, 0>> BY <1>1, <1>6 DEF Shows
    <2> QED BY <1>2, <2>1
  <1>7. (CHOOSE c \in Printable : Shows(f, x, y, c)) = ch
    BY <1>6
  <1> QED BY <1>3, <1>5, <1>7 DEF CellOf

LEMMA RowUnique ==
    ASSUME NEW f, NEW x, NEW y, NEW v \in CellY, NEW r, IsRow(f, v, r), v = y => Len(r) = x
    PROVE  RowOf(f, x, y, v) = r
  <1>1. r \in Seq(Printable) /\ Len(r) \in 0..MaxX /\ MaxX \in Nat
    BY Screen DEF IsRow
  <1>2. ASSUME NEW u \in CellX
        PROVE  /\ u < Len(r) => CellOf(f, u, v) = r[u + 1] /\ CellOf(f, u, v) # "black"
               /\ u >= Len(r) => CellOf(f, u, v) = "black"
    <2>1. u < Len(r) => r[u + 1] \in Printable BY <1>1 DEF CellX
    <2> QED BY <2>1, CellFacts DEF IsRow
  <1>3. {u \in CellX : CellOf(f, u, v) # "black"} = 0..(Len(r) - 1)
    BY <1>1, <1>2 DEF CellX
  <1>4. Cardinality(0..(Len(r) - 1)) = Len(r)
    <2>1. \A a, b \in Int : Cardinality(a..b) = IF a > b THEN 0 ELSE b - a + 1
      BY FS_Interval
    <2>2. 0 \in Int /\ Len(r) - 1 \in Int BY <1>1
    <2>3. Cardinality(0..(Len(r) - 1)) = IF 0 > Len(r) - 1 THEN 0 ELSE Len(r) - 1 - 0 + 1
      BY <2>1, <2>2, Zenon
    <2> QED BY <1>1, <2>3
  <1>5. RowOf(f, x, y, v) = [u \in 1..Len(r) |-> CellOf(f, u - 1, v)]
    BY <1>3, <1>4 DEF RowOf
  <1>6. \A u \in 1..Len(r) : CellOf(f, u - 1, v) = r[u]
    <2> TAKE u \in 1..Len(r)
    <2>1. u - 1 \in CellX /\ u - 1 < Len(r) /\ (u - 1) + 1 = u BY <1>1 DEF CellX
    <2> QED BY <1>2, <2>1
  <1>7. r = [u \in 1..Len(r) |-> r[u]] BY <1>1
  <1> QED BY <1>5, <1>6, <1>7

LEMMA RowExists ==
    ASSUME NEW f, NEW v \in CellY, NEW n \in 0..MaxX, Filled(f, v, n)
    PROVE  \E r : IsRow(f, v, r) /\ Len(r) = n
  <1> DEFINE r == [u \in 1..n |-> CellOf(f, u - 1, v)]
  <1>1. MaxX \in Nat BY Screen
  <1>2. ASSUME NEW u \in CellX, u < n
        PROVE  CellOf(f, u, v) \in Printable /\ Shows(f, u, v, CellOf(f, u, v))
    BY <1>2, CellFacts DEF Filled
  <1>3. \A u \in 1..n : CellOf(f, u - 1, v) \in Printable
    BY <1>1, <1>2 DEF CellX
  <1>4. r \in Seq(Printable) /\ Len(r) = n /\ \A u \in 1..n : r[u] = CellOf(f, u - 1, v)
    BY <1>1, <1>3
  <1> HIDE DEF r
  <1>5. ASSUME NEW u \in CellX
        PROVE  /\ u < Len(r) => Shows(f, u, v, r[u + 1])
               /\ u >= Len(r) => Blank(f, u, v)
    <2>1. u < n => u + 1 \in 1..n /\ (u + 1) - 1 = u BY <1>1 DEF CellX
    <2> QED BY <1>2, <1>4, <2>1 DEF Filled
  <1>6. IsRow(f, v, r) BY <1>1, <1>4, <1>5 DEF IsRow
  <1> QED BY <1>4, <1>6

\* Every row of a good screen is the row that RowOf finds.
LEMMA RowIs ==
    ASSUME NEW f, NEW x, NEW y, ScreenOk(f, x, y), NEW v \in CellY, v <= y
    PROVE  /\ IsRow(f, v, RowOf(f, x, y, v))
           /\ v = y => Len(RowOf(f, x, y, v)) = x
  <1>1. PICK n \in 0..MaxX : Filled(f, v, n) /\ (v = y => n = x)
    BY DEF ScreenOk, Rows
  <1>2. PICK r : IsRow(f, v, r) /\ Len(r) = n BY <1>1, RowExists
  <1>3. RowOf(f, x, y, v) = r BY <1>1, <1>2, RowUnique
  <1> QED BY <1>1, <1>2, <1>3

LEMMA RowsType ==
    ASSUME NEW f, NEW x, NEW y, ScreenOk(f, x, y)
    PROVE  /\ RowsOf(f, x, y) \in Seq(Seq(Printable))
           /\ Len(RowsOf(f, x, y)) = y + 1 /\ y + 1 \in 1..MaxY
           /\ \A v \in 1..(y + 1) : RowsOf(f, x, y)[v] = RowOf(f, x, y, v - 1)
           /\ Len(RowsOf(f, x, y)[y + 1]) = x
  <1>1. y \in 0..(MaxY - 1) /\ MaxY \in Nat BY Screen DEF ScreenOk, CellY
  <1>2. ASSUME NEW v \in 1..(y + 1)
        PROVE  RowOf(f, x, y, v - 1) \in Seq(Printable)
    <2>1. v - 1 \in CellY /\ v - 1 <= y BY <1>1 DEF CellY
    <2> QED BY <2>1, RowIs DEF IsRow
  <1>3. RowsOf(f, x, y) \in Seq(Seq(Printable)) /\ Len(RowsOf(f, x, y)) = y + 1
    BY <1>1, <1>2 DEF RowsOf
  <1>4. \A v \in 1..(y + 1) : RowsOf(f, x, y)[v] = RowOf(f, x, y, v - 1)
    BY DEF RowsOf
  <1>5. RowsOf(f, x, y)[y + 1] = RowOf(f, x, y, y)
    BY <1>1, <1>4
  <1>6. Len(RowOf(f, x, y, y)) = x
    BY <1>1, RowIs DEF CellY
  <1> QED BY <1>1, <1>3, <1>4, <1>5, <1>6

\* Two sequences of rows are the same if they have the same rows.
LEMMA SameRows ==
    ASSUME NEW p \in Seq(Seq(Printable)), NEW q \in Seq(Seq(Printable)), Len(p) = Len(q),
           \A k \in 1..Len(p) : p[k] = q[k]
    PROVE  p = q
  <1>1. PICK n \in Nat : n = Len(p) OBVIOUS
  <1>2. p = [k \in 1..n |-> p[k]]
    <2>1. PICK S : S = Seq(Printable) OBVIOUS
    <2> QED BY <1>1, <2>1
  <1>3. q = [k \in 1..n |-> q[k]]
    <2>1. PICK S : S = Seq(Printable) OBVIOUS
    <2> QED BY <1>1, <2>1
  <1>4. [k \in 1..n |-> p[k]] = [k \in 1..n |-> q[k]] BY <1>1
  <1> QED BY <1>2, <1>3, <1>4, Zenon

LEMMA FeedRows ==
    ASSUME NEW f, NEW x, NEW y, ScreenOk(f, x, y), y < MaxY - 1
    PROVE  RowsOf(f, 0, y + 1) = Append(RowsOf(f, x, y), <<>>)
  <1> DEFINE old == RowsOf(f, x, y)
             new == RowsOf(f, 0, y + 1)
  <1>1. ScreenOk(f, 0, y + 1) BY FeedOk
  <1>2. y \in Nat /\ MaxY \in Nat BY Screen DEF ScreenOk, CellY
  <1>3. /\ old \in Seq(Seq(Printable)) /\ Len(old) = y + 1
        /\ \A v \in 1..(y + 1) : old[v] = RowOf(f, x, y, v - 1)
    BY RowsType
  <1>4. /\ new \in Seq(Seq(Printable)) /\ Len(new) = y + 2
        /\ \A v \in 1..(y + 2) : new[v] = RowOf(f, 0, y + 1, v - 1)
    BY <1>1, <1>2, RowsType
  <1> HIDE DEF old, new
  <1>5. ASSUME NEW v \in 1..(y + 1) PROVE new[v] = old[v]
    <2>1. v - 1 \in CellY /\ v - 1 <= y /\ v - 1 # y + 1 BY <1>2 DEF CellY
    <2>2. IsRow(f, v - 1, RowOf(f, x, y, v - 1)) BY <2>1, RowIs
    <2>3. RowOf(f, 0, y + 1, v - 1) = RowOf(f, x, y, v - 1) BY <2>1, <2>2, RowUnique
    <2> QED BY <1>2, <1>3, <1>4, <2>3
  <1>6. new[y + 2] = <<>>
    <2>1. y + 1 \in CellY BY <1>2 DEF CellY
    <2>2. Len(RowOf(f, 0, y + 1, y + 1)) = 0 /\ RowOf(f, 0, y + 1, y + 1) \in Seq(Printable)
      BY <1>1, <1>2, <2>1, RowIs DEF IsRow
    <2>3. new[y + 2] = RowOf(f, 0, y + 1, y + 1) BY <1>2, <1>4
    <2> QED BY <2>2, <2>3
  <1>7. /\ Append(old, <<>>) \in Seq(Seq(Printable)) /\ Len(Append(old, <<>>)) = y + 2
        /\ \A v \in 1..(y + 1) : Append(old, <<>>)[v] = old[v]
        /\ Append(old, <<>>)[y + 2] = <<>>
    BY <1>2, <1>3
  <1>8. ASSUME NEW v \in 1..Len(new) PROVE new[v] = Append(old, <<>>)[v]
    <2>1. CASE v = y + 2 BY <1>6, <1>7, <2>1
    <2>2. CASE v # y + 2
      <3>1. v \in 1..(y + 1) BY <1>2, <1>4, <2>2
      <3> QED BY <1>5, <1>7, <3>1
    <2> QED BY <2>1, <2>2
  <1>9. new = Append(old, <<>>) BY <1>4, <1>7, <1>8, SameRows
  <1> QED BY <1>9 DEF old, new

LEMMA ScrollRow ==
    ASSUME NEW f, NEW v \in CellY, NEW r
    PROVE  /\ v < MaxY - 1 /\ IsRow(f, v + 1, r) => IsRow(FbScrollup(f), v, r)
           /\ v = MaxY - 1 => IsRow(FbScrollup(f), v, <<>>)
  <1>1. ASSUME v < MaxY - 1, IsRow(f, v + 1, r), NEW u \in CellX
        PROVE  /\ u < Len(r) => Shows(FbScrollup(f), u, v, r[u + 1])
               /\ u >= Len(r) => Blank(FbScrollup(f), u, v)
    <2>1. \A j \in GlyphJ, i \in GlyphI : FbScrollup(f)[At(u, v, j, i)] = f[At(u, v + 1, j, i)]
      BY <1>1, CellScroll
    <2>2. /\ u < Len(r) => Shows(f, u, v + 1, r[u + 1])
          /\ u >= Len(r) => Blank(f, u, v + 1)
      BY <1>1 DEF IsRow
    <2> QED BY <2>1, <2>2 DEF Shows, Blank
  <1>2. ASSUME v = MaxY - 1, NEW u \in CellX
        PROVE  ~(u < 0) /\ Blank(FbScrollup(f), u, v)
    BY <1>2, CellScroll, Screen DEF Blank, CellX
  <1>3. v < MaxY - 1 /\ IsRow(f, v + 1, r) => IsRow(FbScrollup(f), v, r)
    BY <1>1 DEF IsRow
  <1>4. Len(<<>>) = 0 /\ <<>> \in Seq(Printable) /\ 0 \in 0..MaxX BY Screen
  <1>5. v = MaxY - 1 => IsRow(FbScrollup(f), v, <<>>)
    BY <1>2, <1>4 DEF IsRow
  <1> QED BY <1>3, <1>5

LEMMA ScrollRows ==
    ASSUME NEW f, NEW x, ScreenOk(f, x, MaxY - 1)
    PROVE  RowsOf(FbScrollup(f), 0, MaxY - 1) = Tail(Append(RowsOf(f, x, MaxY - 1), <<>>))
  <1> DEFINE y == MaxY - 1
             old == RowsOf(f, x, y)
             g == FbScrollup(f)
             new == RowsOf(g, 0, y)
             all == Append(old, <<>>)
  <1>1. ScreenOk(g, 0, y) BY ScrollOk
  <1>2. y \in Nat /\ y >= 1 /\ MaxY \in Nat BY Screen
  <1>3. /\ old \in Seq(Seq(Printable)) /\ Len(old) = y + 1
        /\ \A v \in 1..(y + 1) : old[v] = RowOf(f, x, y, v - 1)
    BY RowsType
  <1>4. /\ new \in Seq(Seq(Printable)) /\ Len(new) = y + 1
        /\ \A v \in 1..(y + 1) : new[v] = RowOf(g, 0, y, v - 1)
    BY <1>1, RowsType
  <1>5. \A v \in CellY : v <= y BY <1>2 DEF CellY
  <1>6. \A v \in CellY : IsRow(f, v, RowOf(f, x, y, v))
    BY <1>5, RowIs
  <1>7. \A v \in CellY : \A r : /\ v < y /\ IsRow(f, v + 1, r) => IsRow(g, v, r)
                                /\ v = y => IsRow(g, v, <<>>)
    BY ScrollRow
  <1>8. \A v \in 0..y : v \in CellY BY <1>2 DEF CellY
  <1>9. /\ all \in Seq(Seq(Printable)) /\ Len(all) = y + 2
        /\ \A v \in 1..(y + 1) : all[v] = old[v]
        /\ all[y + 2] = <<>>
    <2> HIDE DEF old, y
    <2> QED BY <1>2, <1>3
  <1> HIDE DEF old, new, g, y, all
  <1>10. ASSUME NEW v \in 1..(y + 1) PROVE new[v] = all[v + 1]
    <2>1. CASE v <= y
      <3>1. v - 1 \in CellY /\ v \in CellY /\ v - 1 < y /\ v - 1 # y /\ (v - 1) + 1 = v
        BY <1>2, <1>8, <2>1
      <3>2. IsRow(g, v - 1, RowOf(f, x, y, v))
        <4>1. PICK r : r = RowOf(f, x, y, v) OBVIOUS
        <4>2. PICK u \in CellY : u = v - 1 BY <3>1
        <4>3. IsRow(f, u + 1, r) /\ u < y BY <1>6, <3>1, <4>1, <4>2
        <4>4. IsRow(g, u, r) BY <1>7, <4>3, Zenon
        <4> QED BY <4>1, <4>2, <4>4
      <3>3. RowOf(g, 0, y, v - 1) = RowOf(f, x, y, v) BY <3>1, <3>2, RowUnique
      <3>4. v + 1 \in 1..(y + 1) /\ (v + 1) - 1 = v BY <1>2, <2>1
      <3> QED BY <1>3, <1>4, <1>9, <3>3, <3>4
    <2>2. CASE v = y + 1
      <3>1. v - 1 = y /\ y \in CellY BY <1>2, <1>8, <2>2
      <3>2. IsRow(g, y, <<>>) /\ Len(<<>>) = 0 BY <1>7, <3>1
      <3>3. RowOf(g, 0, y, y) = <<>> BY <3>1, <3>2, RowUnique
      <3> QED BY <1>2, <1>4, <1>9, <2>2, <3>1, <3>3
    <2> QED BY <1>2, <2>1, <2>2
  <1>11. /\ Tail(all) \in Seq(Seq(Printable)) /\ Len(Tail(all)) = y + 1
         /\ \A v \in 1..(y + 1) : Tail(all)[v] = all[v + 1]
    BY <1>2, <1>9
  <1>12. new = Tail(all) BY <1>4, <1>10, <1>11, SameRows
  <1> QED BY <1>12 DEF old, new, g, y, all

LEMMA DrawRow ==
    ASSUME NEW f, NEW ch \in Printable, NEW x \in CellX, NEW y \in CellY, NEW v \in CellY,
           NEW r, IsRow(f, v, r)
    PROVE  LET g == Draw(f, x * FontW + y * FontH * Width, ch)
           IN  /\ v # y => IsRow(g, v, r)
               /\ v = y /\ Len(r) = x => IsRow(g, v, Append(r, ch))
  <1> DEFINE g == Draw(f, x * FontW + y * FontH * Width, ch)
  <1>1. \A u \in CellX, j \in GlyphJ, i \in GlyphI :
           g[At(u, v, j, i)] = IF u = x /\ v = y THEN <<ch, j, i>> ELSE f[At(u, v, j, i)]
    BY CellDraw
  <1> HIDE DEF g
  <1>2. /\ r \in Seq(Printable) /\ Len(r) \in 0..MaxX
        /\ \A u \in CellX : /\ u < Len(r) => Shows(f, u, v, r[u + 1])
                            /\ u >= Len(r) => Blank(f, u, v)
    BY DEF IsRow
  <1>3. ASSUME v # y PROVE IsRow(g, v, r)
    BY <1>1, <1>2, <1>3 DEF IsRow, Shows, Blank
  <1>4. ASSUME v = y, Len(r) = x PROVE IsRow(g, v, Append(r, ch))
    <2> DEFINE s == Append(r, ch)
    <2>1. /\ s \in Seq(Printable) /\ Len(s) = x + 1 /\ s[x + 1] = ch
          /\ \A u \in CellX : u < x => s[u + 1] = r[u + 1]
      BY <1>2, <1>4 DEF CellX
    <2>2. x + 1 \in 0..MaxX BY Screen DEF CellX
    <2> HIDE DEF s
    <2>3. ASSUME NEW u \in CellX
          PROVE  /\ u < x + 1 => Shows(g, u, v, s[u + 1])
                 /\ u >= x + 1 => Blank(g, u, v)
      <3>1. CASE u = x
        <4>1. s[u + 1] = ch BY <2>1, <3>1
        <4>2. \A j \in GlyphJ, i \in GlyphI : g[At(u, v, j, i)] = <<ch, j, i>>
          BY <1>1, <1>4, <3>1
        <4>3. ~(u >= x + 1) BY <3>1 DEF CellX
        <4> QED BY <4>1, <4>2, <4>3 DEF Shows
      <3>2. CASE u # x
        <4>1. \A j \in GlyphJ, i \in GlyphI : g[At(u, v, j, i)] = f[At(u, v, j, i)]
          BY <1>1, <3>2
        <4>2. u < x + 1 => u < x BY <3>2 DEF CellX
        <4>3. u >= x + 1 => u >= x BY DEF CellX
        <4> QED BY <1>2, <1>4, <2>1, <4>1, <4>2, <4>3 DEF Shows, Blank
      <3> QED BY <3>1, <3>2
    <2>4. IsRow(g, v, s) BY <2>1, <2>2, <2>3 DEF IsRow
    <2> QED BY <2>4 DEF s
  <1> QED BY <1>3, <1>4 DEF g

PutIn(p, n, ch) == [p EXCEPT ![n] = Append(@, ch)]

LEMMA DrawRows ==
    ASSUME NEW f, NEW x \in CellX, NEW y, NEW ch \in Printable, ScreenOk(f, x, y)
    PROVE  RowsOf(Draw(f, x * FontW + y * FontH * Width, ch), x + 1, y) =
             PutIn(RowsOf(f, x, y), y + 1, ch)
  <1> DEFINE g == Draw(f, x * FontW + y * FontH * Width, ch)
             old == RowsOf(f, x, y)
             new == RowsOf(g, x + 1, y)
             put == [old EXCEPT ![y + 1] = Append(@, ch)]
  <1>1. ScreenOk(g, x + 1, y) BY DrawOk
  <1>2. y \in CellY /\ y \in Nat /\ MaxY \in Nat /\ y < MaxY
    BY Screen DEF ScreenOk, CellY
  <1>3. /\ old \in Seq(Seq(Printable)) /\ Len(old) = y + 1
        /\ \A v \in 1..(y + 1) : old[v] = RowOf(f, x, y, v - 1)
    BY RowsType
  <1>4. /\ new \in Seq(Seq(Printable)) /\ Len(new) = y + 1
        /\ \A v \in 1..(y + 1) : new[v] = RowOf(g, x + 1, y, v - 1)
    BY <1>1, RowsType
  <1>5. ASSUME NEW v \in CellY, v <= y
        PROVE  /\ v # y => RowOf(g, x + 1, y, v) = RowOf(f, x, y, v)
               /\ v = y => RowOf(g, x + 1, y, v) = Append(RowOf(f, x, y, v), ch)
    <2> DEFINE r == RowOf(f, x, y, v)
    <2>1. IsRow(f, v, r) /\ (v = y => Len(r) = x) BY <1>5, RowIs
    <2> HIDE DEF r
    <2>2. CASE v # y
      <3>1. IsRow(g, v, r) BY <1>2, <2>1, <2>2, DrawRow
      <3>2. RowOf(g, x + 1, y, v) = r BY <2>2, <3>1, RowUnique
      <3> QED BY <2>2, <3>2 DEF r
    <2>3. CASE v = y
      <3>1. IsRow(g, v, Append(r, ch)) BY <1>2, <2>1, <2>3, DrawRow
      <3>2. Len(Append(r, ch)) = x + 1 BY <2>1, <2>3 DEF IsRow
      <3>3. ASSUME NEW z, NEW s, z = x + 1, s = Append(r, ch) PROVE RowOf(g, z, y, v) = s
        <4>1. IsRow(g, v, s) /\ Len(s) = z BY <3>1, <3>2, <3>3
        <4> QED BY <4>1, RowUnique
      <3> QED BY <2>3, <3>3 DEF r
    <2> QED BY <2>2, <2>3
  <1>6. old[y + 1] \in Seq(Printable) BY <1>2, <1>3
  <1>7. /\ put \in Seq(Seq(Printable)) /\ Len(put) = y + 1
        /\ \A v \in 1..(y + 1) : put[v] = IF v = y + 1 THEN Append(old[v], ch) ELSE old[v]
    <2> HIDE DEF old
    <2>1. Append(old[y + 1], ch) \in Seq(Printable) BY <1>6
    <2>2. y + 1 \in 1..Len(old) BY <1>2, <1>3
    <2> QED BY <1>2, <1>3, <2>1, <2>2
  <1> HIDE DEF g, old, new, put
  <1>8. ASSUME NEW v \in 1..(y + 1) PROVE new[v] = put[v]
    <2>1. v - 1 \in CellY /\ v - 1 <= y /\ (v = y + 1 <=> v - 1 = y)
      BY <1>2 DEF CellY
    <2> QED BY <1>3, <1>4, <1>5, <1>7, <2>1
  <1>9. new = put BY <1>4, <1>7, <1>8, SameRows
  <1> QED BY <1>9 DEF g, old, new, put, PutIn

----------------------------------------------------------------------------
(* The refinement.                                                         *)

LEMMA RowsAre == ShownRows = RowsOf(fb, PosX, PosY)
  <1>1. ASSUME NEW y PROVE ShownRow(y) = RowOf(fb, PosX, PosY, y)
    BY CellIs DEF ShownRow, RowOf, CellX
  <1> QED BY <1>1 DEF RowsOf, ShownRows

LEMMA RowsAreNext == ShownRows' = RowsOf(fb', PosX', PosY')
  <1>1. ASSUME NEW x, NEW y PROVE Cell(x, y)' = CellOf(fb', x, y)
    BY DEF Cell, CellOf, Blank, Shows, At, GlyphJ, GlyphI
  <1>2. ASSUME NEW y PROVE ShownRow(y)' = RowOf(fb', PosX', PosY', y)
    BY <1>1 DEF ShownRow, RowOf, CellX
  <1> QED BY <1>2 DEF RowsOf, ShownRows

LEMMA PutAt ==
    ASSUME NEW S, NEW p \in Seq(S), NEW n \in 1..Len(p), NEW e \in S
    PROVE  LET c == [p EXCEPT ![n] = e]
           IN  /\ c \in Seq(S) /\ Len(c) = Len(p)
               /\ \A k \in 1..Len(p) : c[k] = IF k = n THEN e ELSE p[k]
  OBVIOUS

\* A character behind an empty row makes the row of that character.
LEMMA PutLast ==
    ASSUME NEW p \in Seq(Seq(Printable)), NEW ch \in Printable, Len(p) >= 1
    PROVE  /\ [Append(p, <<>>) EXCEPT ![Len(p) + 1] = Append(@, ch)] = Append(p, <<ch>>)
           /\ [Tail(Append(p, <<>>)) EXCEPT ![Len(p)] = Append(@, ch)] =
                 Tail(Append(p, <<ch>>))
  <1> DEFINE a == Append(p, <<>>)
             b == Append(p, <<ch>>)
             n == Len(p)
  <1>1. /\ a \in Seq(Seq(Printable)) /\ b \in Seq(Seq(Printable))
        /\ Len(a) = n + 1 /\ Len(b) = n + 1 /\ n \in Nat
        /\ \A k \in 1..n : a[k] = p[k] /\ b[k] = p[k]
        /\ a[n + 1] = <<>> /\ b[n + 1] = <<ch>>
    OBVIOUS
  <1>2. Append(<<>>, ch) = <<ch>> OBVIOUS
  <1> HIDE DEF a, b, n
  <1>3. n >= 1 BY DEF n
  <1>4. [a EXCEPT ![n + 1] = Append(@, ch)] = b
    <2> DEFINE c == [a EXCEPT ![n + 1] = <<ch>>]
    <2>1. <<ch>> \in Seq(Printable) /\ n + 1 \in 1..Len(a) BY <1>1, <1>3
    <2>2. /\ c \in Seq(Seq(Printable)) /\ Len(c) = n + 1
          /\ \A k \in 1..(n + 1) : c[k] = IF k = n + 1 THEN <<ch>> ELSE a[k]
      BY <1>1, <2>1, PutAt
    <2>3. [a EXCEPT ![n + 1] = Append(@, ch)] = c BY <1>1, <1>2
    <2> HIDE DEF c
    <2>4. ASSUME NEW k \in 1..(n + 1) PROVE c[k] = b[k]
      <3>1. CASE k = n + 1 BY <1>1, <2>2, <3>1
      <3>2. CASE k # n + 1
        <4>1. k \in 1..n BY <1>1, <3>2
        <4> QED BY <1>1, <2>2, <3>2, <4>1
      <3> QED BY <3>1, <3>2
    <2>5. c = b BY <1>1, <2>2, <2>4, SameRows
    <2> QED BY <2>3, <2>5
  <1>5. [Tail(a) EXCEPT ![n] = Append(@, ch)] = Tail(b)
    <2> DEFINE t == Tail(a)
               c == [t EXCEPT ![n] = Append(@, ch)]
    <2>1. <<ch>> \in Seq(Printable) OBVIOUS
    <2>2. /\ t \in Seq(Seq(Printable)) /\ Len(t) = n
          /\ \A k \in 1..n : t[k] = a[k + 1]
      BY <1>1
    <2>3. /\ Tail(b) \in Seq(Seq(Printable)) /\ Len(Tail(b)) = n
          /\ \A k \in 1..n : Tail(b)[k] = b[k + 1]
      BY <1>1
    <2> HIDE DEF t
    <2>4. c \in Seq(Seq(Printable)) /\ Len(c) = n
      BY <1>1, <1>2, <1>3, <2>1, <2>2
    <2>5. \A k \in 1..n : c[k] = IF k = n THEN Append(t[k], ch) ELSE t[k]
      BY <1>1, <2>2
    <2> HIDE DEF c
    <2>6. ASSUME NEW k \in 1..n PROVE c[k] = Tail(b)[k]
      <3>1. CASE k = n
        <4>1. n \in 1..n BY <1>1, <1>3
        <4>2. t[n] = <<>> /\ Tail(b)[n] = <<ch>> BY <1>1, <2>2, <2>3, <4>1
        <4>3. c[n] = Append(t[n], ch) BY <2>5, <4>1
        <4> QED BY <1>2, <3>1, <4>2, <4>3, Zenon
      <3>2. CASE k # n
        <4>1. k + 1 \in 1..n BY <1>1, <3>2
        <4> QED BY <1>1, <2>2, <2>3, <2>5, <3>2, <4>1
      <3> QED BY <3>1, <3>2
    <2>7. c = Tail(b) BY <2>3, <2>4, <2>6, SameRows
    <2> QED BY <2>7 DEF c, t
  <1> QED BY <1>4, <1>5 DEF a, b, n

\* The rows when fb_output comes to the character.
LEMMA ReadyRows ==
    ASSUME ScreenInv, NEW ch
    PROVE  LET rows == RowsOf(fb, PosX, PosY)
               ready == RowsOf(Ready(ch), ReadyX(ch), ReadyY(ch))
           IN  /\ ~Wraps(ch) => ready = rows
               /\ Wraps(ch) => ready = T!Shown(Append(rows, <<>>))
               /\ Wraps(ch) => ReadyY(ch) + 1 = IF Len(rows) = MaxY THEN Len(rows)
                                                ELSE Len(rows) + 1
  <1> DEFINE rows == RowsOf(fb, PosX, PosY)
  <1>1. /\ rows \in Seq(Seq(Printable)) /\ Len(rows) = PosY + 1 /\ PosY + 1 \in 1..MaxY
        /\ PosY \in CellY /\ MaxY \in Nat /\ PosY \in Nat
    BY RowsType, Screen DEF ScreenInv, ScreenOk, CellY
  <1>2. Len(Append(rows, <<>>)) = PosY + 2
    <2> HIDE DEF rows
    <2> QED BY <1>1
  <1>3. CASE ~Wraps(ch) BY <1>3 DEF Ready, ReadyX, ReadyY
  <1>4. CASE Wraps(ch) /\ PosY + 1 # MaxY
    <2>1. PosY < MaxY - 1 BY <1>1, <1>4 DEF CellY
    <2>2. RowsOf(fb, 0, PosY + 1) = Append(rows, <<>>)
      BY <2>1, FeedRows DEF ScreenInv
    <2>4. ~(Len(Append(rows, <<>>)) > MaxY)
      <3>1. ~(PosY + 2 > MaxY) BY <1>1, <2>1
      <3> QED BY <1>2, <3>1
    <2> QED BY <1>1, <1>4, <2>2, <2>4 DEF Ready, ReadyX, ReadyY, T!Shown
  <1>5. CASE Wraps(ch) /\ PosY + 1 = MaxY
    <2>1. PosY = MaxY - 1 BY <1>1, <1>5 DEF CellY
    <2>2. RowsOf(FbScrollup(fb), 0, PosY) = Tail(Append(rows, <<>>))
      BY <2>1, ScrollRows DEF ScreenInv
    <2>4. Len(Append(rows, <<>>)) > MaxY
      <3>1. PosY + 2 > MaxY BY <1>1, <1>5
      <3> QED BY <1>2, <3>1
    <2> QED BY <1>1, <1>5, <2>2, <2>4 DEF Ready, ReadyX, ReadyY, T!Shown
  <1> QED BY <1>3, <1>4, <1>5

LEMMA TerminalInit == Init => ShownRows = << <<>> >>
  <1> SUFFICES ASSUME Init PROVE ShownRows = << <<>> >>
    OBVIOUS
  <1>0. PosX = 0 /\ PosY = 0 BY DEF Init
  <1>1. ScreenOk(fb, PosX, PosY) BY ScreenInit DEF ScreenInv
  <1> DEFINE rows == RowsOf(fb, PosX, PosY)
  <1>2. /\ rows \in Seq(Seq(Printable)) /\ Len(rows) = PosY + 1
        /\ Len(rows[PosY + 1]) = PosX
    BY <1>1, RowsType
  <1> HIDE DEF rows
  <1>3. rows[1] = <<>> /\ Len(rows) = 1 BY <1>0, <1>2
  <1>4. PICK top : top = << <<>> >> OBVIOUS
  <1>5. top \in Seq(Seq(Printable)) /\ Len(top) = 1 /\ top[1] = <<>> BY <1>4
  <1>6. \A k \in 1..Len(rows) : rows[k] = top[k] BY <1>3, <1>5
  <1>7. rows = top BY <1>2, <1>3, <1>5, <1>6, SameRows
  <1> QED BY <1>4, <1>7, RowsAre DEF rows

LEMMA TerminalStep ==
    ASSUME ScreenInv, NEW ch \in Printable \cup {"newline", "other"}, FbOutput(ch)
    PROVE  T!Next
  <1> DEFINE rows == ShownRows
             ready == RowsOf(Ready(ch), ReadyX(ch), ReadyY(ch))
             y == ReadyY(ch)
  <1>1. rows = RowsOf(fb, PosX, PosY) /\ rows' = RowsOf(fb', PosX', PosY')
    BY RowsAre, RowsAreNext
  <1>2. /\ rows \in Seq(Seq(Printable)) /\ Len(rows) = PosY + 1 /\ PosY + 1 \in 1..MaxY
        /\ Len(rows[PosY + 1]) = PosX
    BY <1>1, RowsType DEF ScreenInv
  <1>3. /\ ~Wraps(ch) => ready = rows /\ y = PosY
        /\ Wraps(ch) => /\ ready = T!Shown(Append(rows, <<>>))
                        /\ y + 1 = IF Len(rows) = MaxY THEN Len(rows) ELSE Len(rows) + 1
    BY <1>1, ReadyRows DEF ReadyY
  <1>4. Len(rows[Len(rows)]) = PosX BY <1>2
  <1>5. CASE ch = "newline"
    <2>1. rows' = ready /\ Wraps(ch)
      BY <1>1, <1>5, OutputIs DEF ReadyX
    <2> QED BY <1>3, <2>1 DEF T!Next, T!Newline
  <1>6. CASE ch # "newline"
    <2> DEFINE g == Known(ch)
    <2>1. /\ g \in Printable /\ PosX' = ReadyX(ch) + 1 /\ PosY' = y
          /\ fb' = Draw(Ready(ch), ReadyX(ch) * FontW + y * FontH * Width, g)
      BY <1>6, OutputIs
    <2>2. rows' = PutIn(ready, y + 1, g)
      <3>1. ASSUME NEW f, NEW x \in CellX, NEW v, NEW c \in Printable, ScreenOk(f, x, v)
            PROVE  RowsOf(Draw(f, x * FontW + v * FontH * Width, c), x + 1, v) =
                      PutIn(RowsOf(f, x, v), v + 1, c)
        BY <3>1, DrawRows
      <3>2. ScreenOk(Ready(ch), ReadyX(ch), y) /\ ReadyX(ch) \in CellX
        BY ReadyOk
      <3> QED BY <1>1, <2>1, <3>1, <3>2
    <2> HIDE DEF g, ready, y, rows
    <2>3. T!Put(g)
      <3>1. CASE ~Wraps(ch)
        <4>1. PosX # MaxX BY <3>1 DEF Wraps
        <4>2. rows' = [rows EXCEPT ![Len(rows)] = Append(@, g)]
          BY <1>2, <1>3, <2>2, <3>1 DEF PutIn
        <4> QED BY <1>4, <4>1, <4>2 DEF T!Put, rows
      <3>2. CASE Wraps(ch)
        <4>1. PosX = MaxX BY <1>6, <3>2 DEF Wraps
        <4>2. /\ Append(rows, <<>>) \in Seq(Seq(Printable))
              /\ Len(Append(rows, <<>>)) = Len(rows) + 1
              /\ Len(Append(rows, <<g>>)) = Len(rows) + 1
          BY <1>2
        <4>3. /\ [Append(rows, <<>>) EXCEPT ![Len(rows) + 1] = Append(@, g)] = Append(rows, <<g>>)
              /\ [Tail(Append(rows, <<>>)) EXCEPT ![Len(rows)] = Append(@, g)] =
                    Tail(Append(rows, <<g>>))
          <5>1. rows \in Seq(Seq(Printable)) /\ Len(rows) >= 1 BY <1>2
          <5>2. g \in Printable BY <2>1
          <5> QED BY <5>1, <5>2, PutLast
        <4>4. rows' = T!Shown(Append(rows, <<g>>))
          <5>1. CASE Len(rows) = MaxY
            <6>1. ready = Tail(Append(rows, <<>>)) /\ y + 1 = Len(rows)
              BY <1>2, <1>3, <3>2, <4>2, <5>1 DEF T!Shown
            <6>2. T!Shown(Append(rows, <<g>>)) = Tail(Append(rows, <<g>>))
              BY <1>2, <4>2, <5>1 DEF T!Shown
            <6> QED BY <2>2, <4>3, <6>1, <6>2 DEF PutIn
          <5>2. CASE Len(rows) # MaxY
            <6>0. ~(Len(rows) + 1 > MaxY) BY <1>2, <5>2, Screen
            <6>1. ready = Append(rows, <<>>) /\ y + 1 = Len(rows) + 1
              BY <1>2, <1>3, <3>2, <4>2, <5>2, <6>0 DEF T!Shown
            <6>2. T!Shown(Append(rows, <<g>>)) = Append(rows, <<g>>)
              BY <4>2, <6>0 DEF T!Shown
            <6> QED BY <2>2, <4>3, <6>1, <6>2 DEF PutIn
          <5> QED BY <5>1, <5>2
        <4> QED BY <1>4, <4>1, <4>4 DEF T!Put, rows
      <3> QED BY <3>1, <3>2
    <2> QED BY <2>1, <2>3 DEF T!Next
  <1> QED BY <1>5, <1>6

\* fb.c shows what a terminal shows, for every size of the screen and of the
\* font: whatever is scrolled away, wherever lines wrap, and with no row
\* between a full one and the newline behind it.
THEOREM ShowsTheText == Spec => TerminalSpec
  <1>1. Init => T!Init BY TerminalInit DEF T!Init
  <1>2. ScreenInv /\ [Next]_vars => [T!Next]_ShownRows
    <2> SUFFICES ASSUME ScreenInv, [Next]_vars PROVE T!Next \/ UNCHANGED ShownRows
      OBVIOUS
    <2>1. CASE UNCHANGED vars
      BY <2>1 DEF vars, ShownRows, ShownRow, Cell
    <2> QED BY <2>1, TerminalStep DEF Next
  <1> QED BY <1>1, <1>2, ScreenInvariance, PTL DEF Spec, TerminalSpec, T!Spec

=============================================================================
