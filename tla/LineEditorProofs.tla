--------------------------- MODULE LineEditorProofs ---------------------------
(***************************************************************************)
(* Proofs about Writer and LineEditor: for any size of the display and of  *)
(* the glyphs, whatever is printed, the pixels the Writer draws and moves  *)
(* are those of a page of text, nothing stands after the cursor, and the   *)
(* line being edited is what stands before it.                             *)
(***************************************************************************)
EXTENDS LineEditor, Induction

Chars   == Printable \cup {"space", "box", "junk"}
Slices  == Chars \X (0 .. GLYPH_HEIGHT - 1)
Memory  == [Lines -> [Cols -> Slices]]
Writers == [mem : Memory, column : 0 .. COLUMNS, row : Nat]

(* The first pixel line of a text row.                                       *)
Top(r) == r * GLYPH_HEIGHT

-----------------------------------------------------------------------------
(* Rows and pixel lines.                                                     *)

LEMMA Sizes ==
  /\ GLYPH_HEIGHT \in Nat \ {0} /\ COLUMNS \in Nat \ {0} /\ HEIGHT \in Nat \ {0}
  /\ LINES \in Nat \ {0} /\ HEIGHT >= GLYPH_HEIGHT /\ LINES >= HEIGHT
BY WriterAssumption DEF WriterAssumption

LEMMA Products ==
  ASSUME NEW n \in Nat, NEW r \in Nat
  PROVE  r * n \in Nat /\ (r + 1) * n = r * n + n
OBVIOUS

LEMMA ProductsGrow ==
  ASSUME NEW n \in Nat, NEW r \in Nat, NEW s \in Nat, r <= s
  PROVE  r * n <= s * n
<1>1. s - r \in Nat /\ s = r + (s - r)
  OBVIOUS
<1>2. (s - r) * n \in Nat
  BY <1>1, Products
<1>3. s * n = r * n + (s - r) * n
  BY <1>1
<1>4. r * n \in Nat
  BY Products
<1>5. QED
  BY <1>2, <1>3, <1>4

LEMMA Tops ==
  ASSUME NEW r \in Nat
  PROVE  Top(r) \in Nat /\ Top(r + 1) = Top(r) + GLYPH_HEIGHT
BY Sizes, Products DEF Top

LEMMA TopsGrow ==
  ASSUME NEW r \in Nat, NEW s \in Nat, r < s
  PROVE  Top(r) + GLYPH_HEIGHT <= Top(s)
<1>1. r + 1 \in Nat /\ r + 1 <= s
  OBVIOUS
<1>2. Top(r + 1) <= Top(s)
  BY <1>1, Sizes, ProductsGrow DEF Top
<1>3. QED
  BY <1>2, Tops

LEMMA Division ==
  ASSUME NEW n \in Nat \ {0}, NEW a \in Nat
  PROVE  /\ a \div n \in Nat /\ (a \div n) * n <= a /\ a < (a \div n) * n + n
         /\ a % n = a - (a \div n) * n /\ a % n \in 0 .. n - 1
OBVIOUS

(* The quotient is the only number like this.                                *)
LEMMA DivisionUnique ==
  ASSUME NEW n \in Nat \ {0}, NEW q \in Nat, NEW x \in 0 .. n - 1
  PROVE  (q * n + x) \div n = q /\ (q * n + x) % n = x
<1> DEFINE a == q * n + x
           k == a \div n
<1>1. q * n \in Nat
  BY Products
<1>2. a \in Nat /\ a >= q * n /\ a < q * n + n
  <2> DEFINE p == q * n
  <2>1. p \in Nat
    BY <1>1
  <2> HIDE DEF p
  <2>2. p + x \in Nat /\ p + x >= p /\ p + x < p + n
    BY <2>1
  <2>3. QED
    BY <2>2 DEF p
<1> HIDE DEF a
<1>3. k \in Nat /\ k * n <= a /\ a < k * n + n /\ a % n = a - k * n
  BY <1>2, Division
<1> HIDE DEF k
<1>4. k * n \in Nat /\ (k + 1) * n = k * n + n /\ (q + 1) * n = q * n + n /\ k + 1 \in Nat /\ q + 1 \in Nat
  BY <1>3, Products
<1>5. k = q
  <2>1. CASE k < q
    <3>1. k + 1 <= q
      BY <1>3, <2>1
    <3>2. (k + 1) * n <= q * n
      BY <1>4, <3>1, ProductsGrow
    <3>3. QED
      BY <1>1, <1>2, <1>3, <1>4, <3>2
  <2>2. CASE k > q
    <3>1. q + 1 <= k
      BY <1>3, <2>2
    <3>2. (q + 1) * n <= k * n
      BY <1>3, <1>4, <3>1, ProductsGrow
    <3>3. QED
      BY <1>1, <1>2, <1>3, <1>4, <3>2
  <2>3. QED
    BY <1>3, <2>1, <2>2
<1>6. a % n = x
  <2> DEFINE p == q * n
  <2>1. a = p + x /\ a % n = a - p /\ p \in Nat
    BY <1>1, <1>3, <1>5 DEF a
  <2> HIDE DEF p
  <2>2. QED
    BY <2>1
<1>7. QED
  BY <1>5, <1>6 DEF k, a

LEMMA RowsFit ==
  /\ ROWS \in Nat \ {0} /\ Top(ROWS) <= HEIGHT /\ HEIGHT < Top(ROWS) + GLYPH_HEIGHT
<1>1. ROWS \in Nat /\ Top(ROWS) <= HEIGHT /\ HEIGHT < Top(ROWS) + GLYPH_HEIGHT
  BY Sizes, Division DEF ROWS, Top
<1>2. ROWS # 0
  <2>1. SUFFICES ASSUME ROWS = 0 PROVE FALSE
    OBVIOUS
  <2>2. Top(0) = 0
    BY Sizes DEF Top
  <2>3. QED
    BY <1>1, <2>1, <2>2, Sizes
<1>3. QED
  BY <1>1, <1>2

LEMMA RowFits ==
  ASSUME NEW r \in Nat, r < ROWS
  PROVE  Top(r) \in Nat /\ Top(r) + GLYPH_HEIGHT <= HEIGHT
<1>1. Top(r) + GLYPH_HEIGHT <= Top(ROWS) /\ Top(r) \in Nat /\ Top(ROWS) \in Nat
  BY RowsFit, TopsGrow, Tops
<1>2. QED
  BY <1>1, RowsFit, Sizes

-----------------------------------------------------------------------------
(* What the Writer's functions do to memory, slice by slice.                 *)

LEMMA WriterFields ==
  ASSUME NEW w \in Writers
  PROVE  w.mem \in Memory /\ w.column \in 0 .. COLUMNS /\ w.row \in Nat
BY DEF Writers

LEMMA DrawFields ==
  ASSUME NEW w \in Writers, w.column \in Cols, NEW c \in Chars
  PROVE  LET v == DrawGlyph(w, c)
             t == Top(w.row)
         IN  /\ v \in Writers /\ v.column = w.column /\ v.row = w.row
             /\ \A y \in Lines, x \in Cols :
                  v.mem[y][x] = IF x = w.column /\ y >= t /\ y < t + GLYPH_HEIGHT /\ y < HEIGHT
                                THEN Slice(c, y - t) ELSE w.mem[y][x]
<1> DEFINE t == Top(w.row)
           On(y) == y \in t .. t + GLYPH_HEIGHT - 1 /\ y < HEIGHT
           m == [y \in Lines |-> IF On(y) THEN [w.mem[y] EXCEPT ![w.column] = Slice(c, y - t)]
                                 ELSE w.mem[y]]
<1>1. w.mem \in Memory /\ w.column \in 0 .. COLUMNS /\ w.row \in Nat
  BY WriterFields
<1>2. t \in Nat
  BY <1>1, Tops
<1>3. DrawGlyph(w, c) = [w EXCEPT !.mem = m]
  BY DEF DrawGlyph, Top
<1>4. DrawGlyph(w, c) = [mem |-> m, column |-> w.column, row |-> w.row]
  BY <1>3 DEF Writers
<1> HIDE DEF t
<1>5. ASSUME NEW y \in Lines, On(y) PROVE Slice(c, y - t) \in Slices
  <2>1. y - t \in 0 .. GLYPH_HEIGHT - 1 /\ 0 \in 0 .. GLYPH_HEIGHT - 1
    BY <1>2, <1>5, Sizes DEF Lines
  <2>2. QED
    BY <2>1 DEF Slice, Slices, Background, Chars
<1>6. ASSUME NEW y \in Lines
      PROVE  m[y] \in [Cols -> Slices]
  <2>1. w.mem[y] \in [Cols -> Slices]
    BY <1>1 DEF Memory
  <2>2. QED
    BY <1>5, <2>1
<1>7. m \in Memory
  BY <1>6 DEF Memory
<1>8. ASSUME NEW y \in Lines, NEW x \in Cols
      PROVE  m[y][x] = IF x = w.column /\ y >= t /\ y < t + GLYPH_HEIGHT /\ y < HEIGHT
                       THEN Slice(c, y - t) ELSE w.mem[y][x]
  <2>1. w.mem[y] \in [Cols -> Slices]
    BY <1>1 DEF Memory
  <2>2. On(y) <=> y >= t /\ y < t + GLYPH_HEIGHT /\ y < HEIGHT
    BY <1>2, Sizes DEF Lines
  <2>3. QED
    BY <2>1, <2>2
<1> HIDE DEF m
<1> DEFINE v == DrawGlyph(w, c)
<1>9. v.mem = m /\ v.column = w.column /\ v.row = w.row
  BY <1>4
<1>10. v \in Writers
  BY <1>1, <1>4, <1>7 DEF Writers
<1>11. QED
  BY <1>8, <1>9, <1>10, Zenon DEF t

LEMMA ScrollFields ==
  ASSUME NEW w \in Writers
  PROVE  LET v == Scroll(w)
         IN  /\ v \in Writers /\ v.column = w.column /\ v.row = ROWS - 1
             /\ \A y \in Lines, x \in Cols :
                  v.mem[y][x] = IF y >= HEIGHT - GLYPH_HEIGHT /\ y < HEIGHT THEN Background
                                ELSE IF y + GLYPH_HEIGHT < LINES
                                     THEN w.mem[y + GLYPH_HEIGHT][x] ELSE w.mem[y][x]
<1> DEFINE m == [y \in Lines |-> IF y \in ClearedByScroll THEN BlankLine ELSE Moved(w.mem)[y]]
           v == Scroll(w)
<1>1. w.mem \in Memory /\ w.column \in 0 .. COLUMNS /\ w.row \in Nat
  BY WriterFields
<1>2. v = [mem |-> m, column |-> w.column, row |-> ROWS - 1]
  <2>1. v = [w EXCEPT !.mem = m, !.row = ROWS - 1]
    BY Zenon DEF Scroll
  <2> HIDE DEF m, v
  <2>2. QED
    BY <2>1 DEF Writers
<1>3. BlankLine \in [Cols -> Slices] /\ \A x \in Cols : BlankLine[x] = Background
  <2>1. 0 \in 0 .. GLYPH_HEIGHT - 1
    BY Sizes
  <2>2. QED
    BY <2>1 DEF BlankLine, Background, Slices, Chars
<1>4. ASSUME NEW y \in Lines
      PROVE  /\ Moved(w.mem)[y] \in [Cols -> Slices]
             /\ Moved(w.mem)[y] = IF y + GLYPH_HEIGHT < LINES
                                  THEN w.mem[y + GLYPH_HEIGHT] ELSE w.mem[y]
  <2>1. y + GLYPH_HEIGHT < LINES => y + GLYPH_HEIGHT \in Lines
    BY Sizes DEF Lines
  <2>2. QED
    BY <1>1, <2>1 DEF Memory, Moved
<1>5. m \in Memory
  BY <1>3, <1>4 DEF Memory
<1>6. ASSUME NEW y \in Lines
      PROVE  y \in ClearedByScroll <=> y >= HEIGHT - GLYPH_HEIGHT /\ y < HEIGHT
  BY Sizes DEF ClearedByScroll, Lines
<1>7. ASSUME NEW y \in Lines, NEW x \in Cols
      PROVE  m[y][x] = IF y >= HEIGHT - GLYPH_HEIGHT /\ y < HEIGHT THEN Background
                       ELSE IF y + GLYPH_HEIGHT < LINES
                            THEN w.mem[y + GLYPH_HEIGHT][x] ELSE w.mem[y][x]
  BY <1>3, <1>4, <1>6
<1> HIDE DEF m
<1>8. v.mem = m /\ v.column = w.column /\ v.row = ROWS - 1
  BY <1>2
<1>9. ROWS - 1 \in Nat
  BY RowsFit
<1>10. v \in Writers
  BY <1>1, <1>2, <1>5, <1>9 DEF Writers
<1>11. QED
  BY <1>7, <1>8, <1>10, Zenon

-----------------------------------------------------------------------------
(* Cells of the display.                                                     *)

CellOf(m, r, x) ==
  LET c == m[Top(r)][x][1]
  IN  IF \A g \in 0 .. GLYPH_HEIGHT - 1 : m[Top(r) + g][x] = Slice(c, g)
      THEN c ELSE "garbled"

LEMMA CellIs ==
  ASSUME NEW r, NEW x
  PROVE  Cell(r, x) = CellOf(mem, r, x)
BY DEF Cell, CellOf, Top

Shows(m, r, x, c) == \A g \in 0 .. GLYPH_HEIGHT - 1 : m[Top(r) + g][x] = Slice(c, g)

LEMMA CellShows ==
  ASSUME NEW m, NEW r \in Nat, NEW x, NEW c, Shows(m, r, x, c)
  PROVE  CellOf(m, r, x) = c
<1> USE DEF Shows
<1>1. Top(r) + 0 = Top(r) /\ 0 \in 0 .. GLYPH_HEIGHT - 1
  BY Tops, Sizes
<1>2. m[Top(r)][x] = Slice(c, 0)
  BY <1>1
<1>3. Slice(c, 0)[1] = c
  BY DEF Slice, Background
<1>4. QED
  BY <1>2, <1>3, Zenon DEF CellOf

SameSlices(m, r, n, s, x) ==
  \A g \in 0 .. GLYPH_HEIGHT - 1 : m[Top(r) + g][x] = n[Top(s) + g][x]

LEMMA CellSame ==
  ASSUME NEW m, NEW n, NEW r \in Nat, NEW s \in Nat, NEW x, SameSlices(m, r, n, s, x)
  PROVE  CellOf(m, r, x) = CellOf(n, s, x)
<1> USE DEF SameSlices
<1>1. Top(r) + 0 = Top(r) /\ Top(s) + 0 = Top(s) /\ 0 \in 0 .. GLYPH_HEIGHT - 1
  BY Tops, Sizes
<1>2. m[Top(r)][x] = n[Top(s)][x]
  BY <1>1
<1>3. QED
  BY <1>2, Zenon DEF CellOf

(* A line of a text row.                                                     *)
LEMMA LineOfRow ==
  ASSUME NEW r \in Nat, r < ROWS, NEW g \in 0 .. GLYPH_HEIGHT - 1
  PROVE  /\ Top(r) + g \in Lines /\ Top(r) + g \in Nat /\ Top(r) + g < HEIGHT
         /\ Top(r) + g >= Top(r) /\ Top(r) + g < Top(r) + GLYPH_HEIGHT
<1>1. Top(r) \in Nat /\ Top(r) + GLYPH_HEIGHT <= HEIGHT
  BY RowFits
<1>2. QED
  BY <1>1, Sizes DEF Lines

LEMMA DrawCells ==
  ASSUME NEW w \in Writers, w.column \in Cols, w.row < ROWS, NEW c \in Chars,
         NEW r \in Nat, r < ROWS, NEW x \in Cols
  PROVE  CellOf(DrawGlyph(w, c).mem, r, x) =
           IF r = w.row /\ x = w.column THEN c ELSE CellOf(w.mem, r, x)
<1> DEFINE m == DrawGlyph(w, c).mem
           t == Top(w.row)
<1>1. w.row \in Nat
  BY WriterFields
<1>2. \A y \in Lines :
        m[y][x] = IF x = w.column /\ y >= t /\ y < t + GLYPH_HEIGHT /\ y < HEIGHT
                  THEN Slice(c, y - t) ELSE w.mem[y][x]
  BY DrawFields
<1> HIDE DEF m
<1>3. t \in Nat
  BY <1>1, Tops
<1>4. CASE r = w.row /\ x = w.column
  <2>1. ASSUME NEW g \in 0 .. GLYPH_HEIGHT - 1 PROVE m[Top(r) + g][x] = Slice(c, g)
    <3>1. Top(r) + g \in Lines /\ Top(r) + g < HEIGHT /\ Top(r) + g >= t /\ Top(r) + g < t + GLYPH_HEIGHT
      BY <1>4, LineOfRow
    <3>2. (Top(r) + g) - t = g
      BY <1>3, <1>4
    <3> DEFINE y == Top(r) + g
    <3>3. m[y][x] = Slice(c, y - t)
      <4> HIDE DEF y, t
      <4>1. QED
        BY <1>2, <1>4, <3>1 DEF y
    <3>4. QED
      BY <3>2, <3>3, Zenon
  <2>2. CellOf(m, r, x) = c
    <3>1. Shows(m, r, x, c)
      BY <2>1, Zenon DEF Shows
    <3>2. QED
      BY <3>1, CellShows
  <2>3. QED
    BY <1>4, <2>2 DEF m
<1>5. CASE ~ (r = w.row /\ x = w.column)
  <2>1. ASSUME NEW g \in 0 .. GLYPH_HEIGHT - 1 PROVE m[Top(r) + g][x] = w.mem[Top(r) + g][x]
    <3>1. /\ Top(r) + g \in Lines /\ Top(r) + g \in Nat
          /\ Top(r) + g >= Top(r) /\ Top(r) + g < Top(r) + GLYPH_HEIGHT /\ Top(r) \in Nat
      BY LineOfRow, Tops
    <3>2. r # w.row => Top(r) + GLYPH_HEIGHT <= t \/ t + GLYPH_HEIGHT <= Top(r)
      BY <1>1, TopsGrow
    <3>3. r # w.row => ~ (Top(r) + g >= t /\ Top(r) + g < t + GLYPH_HEIGHT)
      <4> HIDE DEF t
      <4>1. QED
        BY <1>3, <3>1, <3>2, Sizes
    <3>4. QED
      BY <1>2, <1>5, <3>1, <3>3
  <2>2. CellOf(m, r, x) = CellOf(w.mem, r, x)
    <3>1. SameSlices(m, r, w.mem, r, x)
      BY <2>1, Zenon DEF SameSlices
    <3>2. QED
      BY <3>1, CellSame
  <2>3. QED
    BY <1>5, <2>2 DEF m
<1>6. QED
  BY <1>4, <1>5

-----------------------------------------------------------------------------
(* A Writer between two bytes: its cursor is on the display, and everything   *)
(* after the cursor is blank.                                                 *)

Beyond(r, c, y, x) == y >= Top(r) + GLYPH_HEIGHT \/ (y >= Top(r) /\ x >= c)

BlankAfter(m, r, c) ==
  \A y \in Lines, x \in Cols : y < HEIGHT /\ Beyond(r, c, y, x) => m[y][x] = Background

Screens == {w \in Writers : w.row < ROWS /\ BlankAfter(w.mem, w.row, w.column)}

LEMMA ScreenFields ==
  ASSUME NEW w \in Screens
  PROVE  /\ w \in Writers /\ w.mem \in Memory /\ w.column \in 0 .. COLUMNS /\ w.row \in Nat
         /\ w.row < ROWS /\ BlankAfter(w.mem, w.row, w.column)
BY WriterFields DEF Screens

LEMMA BlankCell ==
  ASSUME NEW m, NEW r \in Nat, r < ROWS, NEW x \in Cols, NEW c, BlankAfter(m, r, c), x >= c
  PROVE  CellOf(m, r, x) = "space"
<1>1. ASSUME NEW g \in 0 .. GLYPH_HEIGHT - 1 PROVE m[Top(r) + g][x] = Slice("space", g)
  <2>1. Top(r) + g \in Lines /\ Top(r) + g < HEIGHT /\ Top(r) + g >= Top(r)
    BY LineOfRow
  <2>2. Beyond(r, c, Top(r) + g, x)
    BY <2>1 DEF Beyond
  <2>3. m[Top(r) + g][x] = Background
    BY <2>1, <2>2, Zenon DEF BlankAfter
  <2>4. QED
    BY <2>3 DEF Slice
<1>2. Shows(m, r, x, "space")
  BY <1>1, Zenon DEF Shows
<1>3. QED
  BY <1>2, CellShows

(* new_line below the last row: everything moves up.                          *)
LEMMA ScrollLastRow ==
  ASSUME NEW w \in Writers, BlankAfter(w.mem, ROWS - 1, COLUMNS)
  PROVE  LET v == Scroll(w)
         IN  /\ BlankAfter(v.mem, ROWS - 1, 0)
             /\ \A r \in 0 .. ROWS - 2, x \in Cols : CellOf(v.mem, r, x) = CellOf(w.mem, r + 1, x)
<1> DEFINE m == Scroll(w).mem
           n == w.mem
           last == Top(ROWS - 1)
<1>1. ROWS - 1 \in Nat /\ ROWS - 1 < ROWS /\ (ROWS - 1) + 1 = ROWS
  BY RowsFit
<1>2. last \in Nat /\ Top(ROWS) = last + GLYPH_HEIGHT /\ last + GLYPH_HEIGHT <= HEIGHT
  BY <1>1, Tops, RowsFit
<1>3. \A y \in Lines, x \in Cols :
         m[y][x] = IF y >= HEIGHT - GLYPH_HEIGHT /\ y < HEIGHT THEN Background
                   ELSE IF y + GLYPH_HEIGHT < LINES THEN n[y + GLYPH_HEIGHT][x] ELSE n[y][x]
  BY ScrollFields, Zenon
<1> HIDE DEF m, n
<1>4. ASSUME NEW y \in Lines, y < HEIGHT - GLYPH_HEIGHT, NEW x \in Cols
      PROVE  /\ m[y][x] = n[y + GLYPH_HEIGHT][x]
             /\ y + GLYPH_HEIGHT \in Lines /\ y + GLYPH_HEIGHT < HEIGHT
  <2>1. y + GLYPH_HEIGHT \in Lines /\ y + GLYPH_HEIGHT < HEIGHT /\ y + GLYPH_HEIGHT < LINES
    BY <1>4, Sizes DEF Lines
  <2>2. ~ (y >= HEIGHT - GLYPH_HEIGHT)
    BY <1>4, Sizes DEF Lines
  <2>3. QED
    BY <1>3, <2>1, <2>2
<1>5. ASSUME NEW y \in Lines, NEW x \in Cols, y < HEIGHT, Beyond(ROWS - 1, 0, y, x)
      PROVE  m[y][x] = Background
  <2>1. y >= last
    <3> HIDE DEF last
    <3>1. y >= last + GLYPH_HEIGHT \/ y >= last
      BY <1>5 DEF Beyond, last
    <3>2. QED
      BY <1>2, <3>1, Sizes DEF Lines
  <2>2. CASE y >= HEIGHT - GLYPH_HEIGHT
    BY <1>3, <1>5, <2>2
  <2>3. CASE y < HEIGHT - GLYPH_HEIGHT
    <3>1. /\ m[y][x] = n[y + GLYPH_HEIGHT][x]
          /\ y + GLYPH_HEIGHT \in Lines /\ y + GLYPH_HEIGHT < HEIGHT
      BY <1>4, <2>3
    <3>2. y + GLYPH_HEIGHT >= last + GLYPH_HEIGHT
      <4> HIDE DEF last
      <4>1. QED
        BY <1>2, <2>1, Sizes DEF Lines
    <3>3. Beyond(ROWS - 1, COLUMNS, y + GLYPH_HEIGHT, x)
      BY <3>2, Zenon DEF Beyond
    <3>4. n[y + GLYPH_HEIGHT][x] = Background
      BY <3>1, <3>3, Zenon DEF BlankAfter, n
    <3>5. QED
      BY <3>1, <3>4
  <2>4. QED
    BY <2>2, <2>3, Sizes DEF Lines
<1>6. BlankAfter(m, ROWS - 1, 0)
  BY <1>5, Zenon DEF BlankAfter
<1>7. ASSUME NEW r \in 0 .. ROWS - 2, NEW x \in Cols
      PROVE  CellOf(m, r, x) = CellOf(n, r + 1, x)
  <2>1. r \in Nat /\ r + 1 \in Nat /\ r < ROWS /\ r < ROWS - 1
    BY <1>1
  <2>2. ASSUME NEW g \in 0 .. GLYPH_HEIGHT - 1 PROVE m[Top(r) + g][x] = n[Top(r + 1) + g][x]
    <3> DEFINE y == Top(r) + g
    <3>1. /\ Top(r) \in Nat /\ Top(r + 1) = Top(r) + GLYPH_HEIGHT
          /\ Top(r) + GLYPH_HEIGHT <= last
      BY <1>1, <2>1, Tops, TopsGrow
    <3>2. y \in Lines
      BY <2>1, LineOfRow
    <3>3. y < HEIGHT - GLYPH_HEIGHT /\ y + GLYPH_HEIGHT = Top(r + 1) + g
      <4> HIDE DEF last
      <4>1. QED
        BY <1>2, <3>1, Sizes
    <3>4. m[y][x] = n[y + GLYPH_HEIGHT][x]
      <4> HIDE DEF y
      <4>1. QED
        BY <1>4, <3>2, <3>3
    <3>5. QED
      BY <3>3, <3>4, Zenon
  <2>3. SameSlices(m, r, n, r + 1, x)
    BY <2>2, Zenon DEF SameSlices
  <2>4. QED
    BY <2>1, <2>3, CellSame
<1>8. QED
  BY <1>6, <1>7, Zenon DEF m, n

LEMMA NewLineIs ==
  ASSUME NEW w \in Screens
  PROVE  LET v == NewLine(w)
         IN  /\ v \in Screens /\ v.column = 0
             /\ \/ /\ w.row + 1 < ROWS /\ v.row = w.row + 1 /\ v.mem = w.mem
                \/ /\ w.row = ROWS - 1 /\ v.row = ROWS - 1
                   /\ \A r \in 0 .. ROWS - 2, x \in Cols : CellOf(v.mem, r, x) = CellOf(w.mem, r + 1, x)
<1> DEFINE u == [w EXCEPT !.column = 0, !.row = @ + 1]
           v == NewLine(w)
<1>1. /\ w \in Writers /\ w.mem \in Memory /\ w.column \in 0 .. COLUMNS /\ w.row \in Nat
      /\ w.row < ROWS /\ BlankAfter(w.mem, w.row, w.column) /\ ROWS \in Nat
  BY ScreenFields, RowsFit
<1>2. u = [mem |-> w.mem, column |-> 0, row |-> w.row + 1]
  <2> DEFINE a == [w EXCEPT !.column = 0]
  <2>1. a = [mem |-> w.mem, column |-> 0, row |-> w.row]
    BY <1>1 DEF Writers
  <2>2. u = [a EXCEPT !.row = @ + 1]
    BY Zenon
  <2> HIDE DEF a, u
  <2>3. QED
    BY <2>1, <2>2
<1>3. u.mem = w.mem /\ u.column = 0 /\ u.row = w.row + 1 /\ u \in Writers
  <2>1. 0 \in 0 .. COLUMNS /\ w.row + 1 \in Nat
    BY <1>1, Sizes
  <2>2. QED
    BY <1>1, <1>2, <2>1 DEF Writers
<1> HIDE DEF u
<1>4. v = IF u.row >= ROWS THEN Scroll(u) ELSE u
  BY DEF NewLine, ScrollIfBelow, u
<1> HIDE DEF v
<1>5. CASE w.row + 1 < ROWS
  <2>1. v = u
    BY <1>1, <1>3, <1>4, <1>5
  <2>2. ASSUME NEW y \in Lines, NEW x \in Cols, Beyond(w.row + 1, 0, y, x)
        PROVE  Beyond(w.row, w.column, y, x)
    <3>1. Top(w.row) \in Nat /\ Top(w.row + 1) = Top(w.row) + GLYPH_HEIGHT
      BY <1>1, Tops
    <3>2. y >= Top(w.row) + GLYPH_HEIGHT
      BY <2>2, <3>1, Sizes DEF Beyond, Lines
    <3>3. QED
      BY <3>2 DEF Beyond
  <2>3. BlankAfter(w.mem, w.row + 1, 0)
    BY <1>1, <2>2, Zenon DEF BlankAfter
  <2>4. v \in Screens
    BY <1>3, <1>5, <2>1, <2>3 DEF Screens
  <2>5. QED
    BY <1>3, <1>5, <2>1, <2>4 DEF v
<1>6. CASE ~ (w.row + 1 < ROWS)
  <2>1. w.row = ROWS - 1 /\ u.row >= ROWS
    BY <1>1, <1>3, <1>6
  <2>2. v = Scroll(u)
    BY <1>4, <2>1
  <2>3. ASSUME NEW x \in Cols, x >= COLUMNS PROVE FALSE
    BY <2>3, Sizes DEF Cols
  <2>4. BlankAfter(u.mem, ROWS - 1, COLUMNS)
    <3>1. \A y \in Lines, x \in Cols : Beyond(ROWS - 1, COLUMNS, y, x) => Beyond(w.row, w.column, y, x)
      BY <2>1, <2>3 DEF Beyond
    <3>2. QED
      BY <1>1, <1>3, <3>1, Zenon DEF BlankAfter
  <2>5. /\ BlankAfter(v.mem, ROWS - 1, 0)
        /\ \A r \in 0 .. ROWS - 2, x \in Cols : CellOf(v.mem, r, x) = CellOf(w.mem, r + 1, x)
    <3>1. /\ BlankAfter(Scroll(u).mem, ROWS - 1, 0)
          /\ \A r \in 0 .. ROWS - 2, x \in Cols :
               CellOf(Scroll(u).mem, r, x) = CellOf(u.mem, r + 1, x)
      BY <1>3, <2>4, ScrollLastRow
    <3>2. QED
      BY <1>3, <2>2, <3>1
  <2>6. v \in Writers /\ v.column = 0 /\ v.row = ROWS - 1
    BY <1>3, <2>2, ScrollFields
  <2>7. v \in Screens
    <3>1. ROWS - 1 < ROWS
      BY <1>1
    <3>2. QED
      BY <2>5, <2>6, <3>1 DEF Screens
  <2>8. QED
    BY <2>1, <2>5, <2>6, <2>7, Zenon DEF v
<1>7. QED
  BY <1>5, <1>6

(* A character is drawn at the cursor, which moves on.                        *)
DrawNext(w, c) == [DrawGlyph(w, c) EXCEPT !.column = @ + 1]

LEMMA DrawNextIs ==
  ASSUME NEW w \in Screens, w.column # COLUMNS, NEW c \in Chars
  PROVE  LET v == DrawNext(w, c)
         IN  /\ v \in Screens /\ v.column = w.column + 1 /\ v.row = w.row
             /\ \A r \in 0 .. w.row, x \in Cols :
                  CellOf(v.mem, r, x) = IF r = w.row /\ x = w.column THEN c ELSE CellOf(w.mem, r, x)
<1> DEFINE u == DrawGlyph(w, c)
           v == DrawNext(w, c)
           t == Top(w.row)
<1>1. /\ w \in Writers /\ w.mem \in Memory /\ w.column \in 0 .. COLUMNS /\ w.row \in Nat
      /\ w.row < ROWS /\ BlankAfter(w.mem, w.row, w.column) /\ ROWS \in Nat
  BY ScreenFields, RowsFit
<1>2. w.column \in Cols /\ w.column + 1 \in 0 .. COLUMNS
  BY <1>1, Sizes DEF Cols
<1>3. u \in Writers /\ u.column = w.column /\ u.row = w.row
  BY <1>1, <1>2, DrawFields
<1>4. \A y \in Lines, x \in Cols :
        u.mem[y][x] = IF x = w.column /\ y >= t /\ y < t + GLYPH_HEIGHT /\ y < HEIGHT
                      THEN Slice(c, y - t) ELSE w.mem[y][x]
  BY <1>1, <1>2, DrawFields, Zenon
<1>5. ASSUME NEW r \in 0 .. w.row, NEW x \in Cols
      PROVE  CellOf(u.mem, r, x) = IF r = w.row /\ x = w.column THEN c ELSE CellOf(w.mem, r, x)
  <2>1. r \in Nat /\ r < ROWS
    BY <1>1
  <2>2. QED
    BY <1>1, <1>2, <2>1, DrawCells
<1> HIDE DEF u
<1>6. v = [mem |-> u.mem, column |-> u.column + 1, row |-> u.row]
  <2>1. v = [u EXCEPT !.column = @ + 1]
    BY DEF DrawNext, u
  <2> HIDE DEF v
  <2>2. QED
    BY <1>3, <2>1 DEF Writers
<1>7. v \in Writers /\ v.mem = u.mem /\ v.column = w.column + 1 /\ v.row = w.row
  <2>1. u.mem \in Memory
    BY <1>3, WriterFields
  <2>2. QED
    BY <1>1, <1>2, <1>3, <1>6, <2>1 DEF Writers
<1> HIDE DEF v
<1>8. ASSUME NEW y \in Lines, NEW x \in Cols, y < HEIGHT, Beyond(w.row, w.column + 1, y, x)
      PROVE  u.mem[y][x] = Background
  <2>1. t \in Nat /\ (y >= t + GLYPH_HEIGHT \/ (y >= t /\ x >= w.column + 1))
    BY <1>1, <1>8, Tops DEF Beyond
  <2> HIDE DEF t
  <2>2. ~ (x = w.column /\ y >= t /\ y < t + GLYPH_HEIGHT /\ y < HEIGHT)
    BY <1>1, <2>1, Sizes DEF Lines, Cols
  <2>3. y >= t + GLYPH_HEIGHT \/ (y >= t /\ x >= w.column)
    BY <1>1, <2>1, Sizes DEF Lines, Cols
  <2>4. Beyond(w.row, w.column, y, x)
    BY <2>3 DEF Beyond, t
  <2>5. w.mem[y][x] = Background
    BY <1>1, <1>8, <2>4, Zenon DEF BlankAfter
  <2>6. QED
    BY <1>4, <2>2, <2>5, Zenon
<1>9. v \in Screens
  <2>1. BlankAfter(u.mem, w.row, w.column + 1)
    BY <1>8, Zenon DEF BlankAfter
  <2>2. QED
    BY <1>1, <1>7, <2>1 DEF Screens
<1>10. QED
  BY <1>5, <1>7, <1>9, Zenon DEF v

LEMMA BackspaceIs ==
  ASSUME NEW w \in Screens, w.column # 0
  PROVE  LET v == Backspace(w)
         IN  /\ v \in Screens /\ v.column = w.column - 1 /\ v.row = w.row
             /\ \A r \in 0 .. w.row, x \in Cols :
                  CellOf(v.mem, r, x) = IF r = w.row /\ x = w.column - 1 THEN "space" ELSE CellOf(w.mem, r, x)
<1> DEFINE u == [w EXCEPT !.column = @ - 1]
           v == Backspace(w)
           t == Top(w.row)
<1>1. /\ w \in Writers /\ w.mem \in Memory /\ w.column \in 0 .. COLUMNS /\ w.row \in Nat
      /\ w.row < ROWS /\ BlankAfter(w.mem, w.row, w.column) /\ ROWS \in Nat
  BY ScreenFields, RowsFit
<1>2. w.column - 1 \in Cols /\ w.column - 1 \in 0 .. COLUMNS
  BY <1>1, Sizes DEF Cols
<1>3. u = [mem |-> w.mem, column |-> w.column - 1, row |-> w.row]
  BY <1>1 DEF Writers
<1>4. v = DrawGlyph(u, "space")
  BY DEF Backspace
<1> HIDE DEF u
<1>5. u \in Writers /\ u.mem = w.mem /\ u.column = w.column - 1 /\ u.row = w.row /\ u.column \in Cols
  BY <1>1, <1>2, <1>3 DEF Writers
<1>6. "space" \in Chars
  BY DEF Chars
<1> HIDE DEF v
<1>7. v \in Writers /\ v.column = w.column - 1 /\ v.row = w.row
  BY <1>4, <1>5, <1>6, DrawFields
<1>8. \A y \in Lines, x \in Cols :
        v.mem[y][x] = IF x = w.column - 1 /\ y >= t /\ y < t + GLYPH_HEIGHT /\ y < HEIGHT
                      THEN Slice("space", y - t) ELSE w.mem[y][x]
  <2>1. \A y \in Lines, x \in Cols :
          DrawGlyph(u, "space").mem[y][x] =
            IF x = u.column /\ y >= Top(u.row) /\ y < Top(u.row) + GLYPH_HEIGHT /\ y < HEIGHT
            THEN Slice("space", y - Top(u.row)) ELSE u.mem[y][x]
    BY <1>5, <1>6, DrawFields, Zenon
  <2>2. QED
    BY <1>4, <1>5, <2>1
<1>9. ASSUME NEW r \in 0 .. w.row, NEW x \in Cols
      PROVE  CellOf(v.mem, r, x) = IF r = w.row /\ x = w.column - 1 THEN "space" ELSE CellOf(w.mem, r, x)
  <2>1. r \in Nat /\ r < ROWS
    BY <1>1
  <2>2. CellOf(DrawGlyph(u, "space").mem, r, x) =
          IF r = u.row /\ x = u.column THEN "space" ELSE CellOf(u.mem, r, x)
    BY <1>1, <1>5, <1>6, <2>1, DrawCells
  <2>3. QED
    BY <1>4, <1>5, <2>2
<1>10. ASSUME NEW y \in Lines, NEW x \in Cols, y < HEIGHT, Beyond(w.row, w.column - 1, y, x)
      PROVE  v.mem[y][x] = Background
  <2>1. t \in Nat /\ (y >= t + GLYPH_HEIGHT \/ (y >= t /\ x >= w.column - 1))
    BY <1>1, <1>10, Tops DEF Beyond
  <2> HIDE DEF t
  <2>2. CASE x = w.column - 1 /\ y >= t /\ y < t + GLYPH_HEIGHT
    BY <1>8, <1>10, <2>2 DEF Slice
  <2>3. CASE ~ (x = w.column - 1 /\ y >= t /\ y < t + GLYPH_HEIGHT)
    <3>1. y >= t + GLYPH_HEIGHT \/ (y >= t /\ x >= w.column)
      BY <1>1, <2>1, <2>3, Sizes DEF Lines, Cols
    <3>2. Beyond(w.row, w.column, y, x)
      BY <3>1 DEF Beyond, t
    <3>3. w.mem[y][x] = Background
      BY <1>1, <1>10, <3>2, Zenon DEF BlankAfter
    <3>4. QED
      BY <1>8, <2>3, <3>3, Zenon
  <2>4. QED
    BY <2>2, <2>3
<1>11. v \in Screens
  <2>1. BlankAfter(v.mem, w.row, w.column - 1)
    BY <1>10, Zenon DEF BlankAfter
  <2>2. QED
    BY <1>1, <1>7, <2>1 DEF Screens
<1>12. QED
  BY <1>7, <1>9, <1>11, Zenon DEF v

(* A character wraps a full row first.                                        *)
LEMMA PutByteIs ==
  ASSUME NEW w \in Screens, NEW c
  PROVE  LET at == IF w.column = COLUMNS THEN NewLine(w) ELSE w
         IN  at \in Screens /\ at.column # COLUMNS /\ PutByte(w, c) = DrawNext(at, c)
<1> DEFINE a == IF w.column >= COLUMNS THEN NewLine(w) ELSE w
           at == IF w.column = COLUMNS THEN NewLine(w) ELSE w
<1>1. w.column \in 0 .. COLUMNS /\ COLUMNS \in Nat \ {0}
  BY ScreenFields, Sizes
<1>2. a = at
  BY <1>1
<1>3. at \in Screens /\ at.column # COLUMNS
  BY <1>1, NewLineIs
<1> HIDE DEF at
<1>4. at.row \in Nat /\ at.row < ROWS /\ ROWS \in Nat
  BY <1>3, ScreenFields, RowsFit
<1>5. ScrollIfBelow(at) = at
  BY <1>4 DEF ScrollIfBelow
<1>6. PutByte(w, c) = [DrawGlyph(ScrollIfBelow(a), c) EXCEPT !.column = @ + 1]
  BY Zenon DEF PutByte
<1> HIDE DEF a
<1>7. PutByte(w, c) = DrawNext(at, c)
  BY <1>2, <1>5, <1>6, Zenon DEF DrawNext
<1>8. QED
  BY <1>3, <1>7 DEF at

-----------------------------------------------------------------------------
(* The page of text that a Writer shows.                                      *)

Shapes   == Chars \cup {"garbled"}
TextRows == [1 .. COLUMNS -> Shapes]
RowOf(m, r)  == [x \in 1 .. COLUMNS |-> CellOf(m, r, x - 1)]
PageOf(m, r) == [i \in 1 .. r + 1 |-> RowOf(m, i - 1)]
ViewOf(w)    == [page |-> PageOf(w.mem, w.row), col |-> w.column]

LEMMA CellTyped ==
  ASSUME NEW m \in Memory, NEW r \in Nat, r < ROWS, NEW x \in Cols
  PROVE  CellOf(m, r, x) \in Shapes
<1>1. 0 \in 0 .. GLYPH_HEIGHT - 1 /\ Top(r) \in Nat /\ Top(r) + 0 = Top(r)
  BY Sizes, Tops
<1>2. Top(r) \in Lines
  BY <1>1, LineOfRow
<1>3. m[Top(r)][x] \in Slices
  BY <1>2 DEF Memory
<1>4. m[Top(r)][x][1] \in Chars
  BY <1>3 DEF Slices
<1>5. QED
  BY <1>4, Zenon DEF CellOf, Shapes

LEMMA PageTyped ==
  ASSUME NEW m \in Memory, NEW r \in Nat, r < ROWS
  PROVE  /\ PageOf(m, r) \in Seq(TextRows) /\ Len(PageOf(m, r)) = r + 1
         /\ \A i \in 1 .. r + 1 : PageOf(m, r)[i] = RowOf(m, i - 1) /\ RowOf(m, i - 1) \in TextRows
<1>1. ASSUME NEW i \in 1 .. r + 1 PROVE RowOf(m, i - 1) \in TextRows
  <2>1. i - 1 \in Nat /\ i - 1 < ROWS
    BY RowsFit
  <2>2. ASSUME NEW x \in 1 .. COLUMNS PROVE CellOf(m, i - 1, x - 1) \in Shapes
    <3>1. x - 1 \in Cols
      BY Sizes DEF Cols
    <3>2. QED
      BY <2>1, <3>1, CellTyped
  <2>3. QED
    BY <2>2 DEF RowOf, TextRows
<1>2. \A i \in 1 .. r + 1 : PageOf(m, r)[i] = RowOf(m, i - 1)
  BY DEF PageOf
<1>3. PageOf(m, r) \in [1 .. r + 1 -> TextRows] /\ r + 1 \in Nat
  BY <1>1 DEF PageOf
<1>4. PageOf(m, r) \in Seq(TextRows) /\ Len(PageOf(m, r)) = r + 1
  BY <1>3
<1>5. QED
  BY <1>1, <1>2, <1>4

LEMMA BlankRowIs ==
  ASSUME NEW w \in Screens, w.column = 0
  PROVE  RowOf(w.mem, w.row) = Text!BlankRow
<1>1. ASSUME NEW x \in 1 .. COLUMNS PROVE CellOf(w.mem, w.row, x - 1) = "space"
  <2>1. x - 1 \in Cols /\ x - 1 >= 0
    BY Sizes DEF Cols
  <2>2. BlankAfter(w.mem, w.row, 0) /\ w.row \in Nat /\ w.row < ROWS
    BY ScreenFields
  <2>3. QED
    BY <2>1, <2>2, BlankCell
<1>2. QED
  BY <1>1 DEF RowOf, Text!BlankRow

LEMMA ViewNewRow ==
  ASSUME NEW w \in Screens
  PROVE  Text!NewRow(ViewOf(w)) = ViewOf(NewLine(w))
<1> DEFINE v == NewLine(w)
           p == PageOf(w.mem, w.row)
           q == PageOf(v.mem, v.row)
           longer == Append(p, Text!BlankRow)
<1>1. w.mem \in Memory /\ w.row \in Nat /\ w.row < ROWS /\ ROWS \in Nat \ {0}
  BY ScreenFields, RowsFit
<1>2. /\ v \in Screens /\ v.column = 0
      /\ \/ /\ w.row + 1 < ROWS /\ v.row = w.row + 1 /\ v.mem = w.mem
         \/ /\ w.row = ROWS - 1 /\ v.row = ROWS - 1
            /\ \A r \in 0 .. ROWS - 2, x \in Cols : CellOf(v.mem, r, x) = CellOf(w.mem, r + 1, x)
  BY NewLineIs, Zenon
<1> HIDE DEF v
<1>3. v.mem \in Memory /\ v.row \in Nat /\ v.row < ROWS
  BY <1>2, ScreenFields
<1>4. RowOf(v.mem, v.row) = Text!BlankRow
  BY <1>2, BlankRowIs
<1>5. /\ p \in Seq(TextRows) /\ Len(p) = w.row + 1
      /\ \A i \in 1 .. w.row + 1 : p[i] = RowOf(w.mem, i - 1)
  BY <1>1, PageTyped
<1>6. /\ q \in Seq(TextRows) /\ Len(q) = v.row + 1
      /\ \A i \in 1 .. v.row + 1 : q[i] = RowOf(v.mem, i - 1)
      /\ RowOf(v.mem, v.row) \in TextRows
  <2>1. v.row + 1 \in 1 .. v.row + 1 /\ (v.row + 1) - 1 = v.row
    BY <1>3
  <2>2. QED
    BY <1>3, <2>1, PageTyped
<1> HIDE DEF p, q
<1>7. Text!BlankRow \in TextRows
  BY <1>4, <1>6
<1>8. /\ longer \in Seq(TextRows) /\ Len(longer) = w.row + 2
      /\ longer[w.row + 2] = Text!BlankRow
      /\ \A i \in 1 .. w.row + 1 : longer[i] = RowOf(w.mem, i - 1)
  <2> HIDE DEF Text!BlankRow
  <2>1. QED
    BY <1>1, <1>5, <1>7
<1> HIDE DEF longer
<1>9. (IF Len(longer) > ROWS THEN Tail(longer) ELSE longer) = q
  <2>1. CASE w.row + 1 < ROWS
    <3>1. v.row = w.row + 1 /\ v.mem = w.mem
      BY <1>1, <1>2, <2>1
    <3>2. Len(q) = Len(longer) /\ ~ (Len(longer) > ROWS)
      BY <1>1, <1>6, <1>8, <2>1, <3>1
    <3>3. ASSUME NEW i \in 1 .. Len(longer) PROVE q[i] = longer[i]
      <4>1. q[i] = RowOf(w.mem, i - 1)
        BY <1>1, <1>6, <1>8, <3>1
      <4>2. CASE i = w.row + 2
        BY <1>1, <1>4, <1>8, <3>1, <4>1, <4>2
      <4>3. CASE i # w.row + 2
        BY <1>1, <1>8, <4>1, <4>3
      <4>4. QED
        BY <4>2, <4>3
    <3>4. q = longer
      BY <1>6, <1>8, <3>2, <3>3
    <3>5. QED
      BY <3>2, <3>4
  <2>2. CASE ~ (w.row + 1 < ROWS)
    <3>1. /\ w.row = ROWS - 1 /\ v.row = ROWS - 1
          /\ \A r \in 0 .. ROWS - 2, x \in Cols : CellOf(v.mem, r, x) = CellOf(w.mem, r + 1, x)
      BY <1>2, <2>2
    <3>2. /\ Len(longer) = ROWS + 1 /\ Len(longer) > ROWS /\ longer # <<>>
          /\ Len(q) = ROWS /\ w.row + 2 = ROWS + 1 /\ v.row + 1 = ROWS
      BY <1>1, <1>6, <1>8, <3>1
    <3>3. /\ Tail(longer) \in Seq(TextRows) /\ Len(Tail(longer)) = ROWS
          /\ \A i \in 1 .. ROWS : Tail(longer)[i] = longer[i + 1]
      BY <1>1, <1>8, <3>2
    <3>4. ASSUME NEW i \in 1 .. ROWS PROVE longer[i + 1] = q[i]
      <4>1. q[i] = RowOf(v.mem, i - 1)
        BY <1>6, <3>2
      <4>2. CASE i = ROWS
        BY <1>4, <1>8, <3>1, <3>2, <4>1, <4>2
      <4>3. CASE i # ROWS
        <5>1. i + 1 \in 1 .. w.row + 1 /\ i - 1 \in 0 .. ROWS - 2 /\ (i - 1) + 1 = i /\ (i + 1) - 1 = i
          BY <1>1, <3>1, <4>3
        <5>2. longer[i + 1] = RowOf(w.mem, i)
          BY <1>8, <5>1
        <5>3. ASSUME NEW x \in 1 .. COLUMNS PROVE CellOf(v.mem, i - 1, x - 1) = CellOf(w.mem, i, x - 1)
          <6>1. x - 1 \in Cols
            BY Sizes DEF Cols
          <6>2. QED
            BY <3>1, <5>1, <6>1
        <5>4. RowOf(v.mem, i - 1) = RowOf(w.mem, i)
          BY <5>3, Zenon DEF RowOf
        <5>5. QED
          BY <4>1, <5>2, <5>4
      <4>4. QED
        BY <4>2, <4>3
    <3> DEFINE tl == Tail(longer)
    <3>5. tl \in Seq(TextRows) /\ Len(tl) = Len(q) /\ \A i \in 1 .. Len(q) : tl[i] = q[i]
      BY <3>2, <3>3, <3>4
    <3> HIDE DEF tl
    <3>6. tl = q
      BY <1>6, <3>5
    <3>7. QED
      BY <3>2, <3>6 DEF tl
  <2>3. QED
    BY <2>1, <2>2
<1>10. Text!NewRow(ViewOf(w)) = [page |-> IF Len(longer) > ROWS THEN Tail(longer) ELSE longer, col |-> 0]
  BY DEF Text!NewRow, ViewOf, longer, p
<1>11. ViewOf(v) = [page |-> q, col |-> 0]
  BY <1>2 DEF ViewOf, q
<1>12. QED
  BY <1>9, <1>10, <1>11 DEF v

(* One cell of the newest row changes.                                        *)
OneCell(m, n, r, k, c) ==
  \A s \in 0 .. r, x \in Cols :
    CellOf(n, s, x) = IF s = r /\ x = k THEN c ELSE CellOf(m, s, x)

LEMMA PageChanged ==
  ASSUME NEW m \in Memory, NEW n \in Memory, NEW r \in Nat, r < ROWS,
         NEW k \in Cols, NEW c, OneCell(m, n, r, k, c)
  PROVE  [PageOf(m, r) EXCEPT ![Len(PageOf(m, r))][k + 1] = c] = PageOf(n, r)
<1> DEFINE p == PageOf(m, r)
           q == PageOf(n, r)
           new == [p[r + 1] EXCEPT ![k + 1] = c]
<1>1. /\ p \in [1 .. r + 1 -> TextRows] /\ q \in [1 .. r + 1 -> TextRows] /\ Len(p) = r + 1
      /\ \A i \in 1 .. r + 1 : p[i] = RowOf(m, i - 1) /\ q[i] = RowOf(n, i - 1)
  <2>1. /\ p \in Seq(TextRows) /\ Len(p) = r + 1 /\ q \in Seq(TextRows) /\ Len(q) = r + 1
        /\ \A i \in 1 .. r + 1 : p[i] = RowOf(m, i - 1) /\ q[i] = RowOf(n, i - 1)
    BY PageTyped
  <2> HIDE DEF p, q
  <2>2. QED
    BY <2>1
<1>2. k + 1 \in 1 .. COLUMNS /\ r + 1 \in 1 .. r + 1 /\ (r + 1) - 1 = r
  BY Sizes DEF Cols
<1>3. ASSUME NEW i \in 1 .. r + 1, NEW x \in 1 .. COLUMNS
      PROVE  q[i][x] = IF i = r + 1 /\ x = k + 1 THEN c ELSE p[i][x]
  <2>1. i - 1 \in 0 .. r /\ x - 1 \in Cols /\ (i - 1 = r <=> i = r + 1) /\ (x - 1 = k <=> x = k + 1)
    BY Sizes DEF Cols
  <2>2. q[i][x] = CellOf(n, i - 1, x - 1) /\ p[i][x] = CellOf(m, i - 1, x - 1)
    BY <1>1, Zenon DEF RowOf
  <2> HIDE DEF p, q
  <2>3. QED
    BY <2>1, <2>2 DEF OneCell
<1> HIDE DEF p, q
<1>4. [p EXCEPT ![Len(p)][k + 1] = c] = [p EXCEPT ![r + 1] = new]
  BY <1>1
<1>5. p[r + 1] \in TextRows /\ q[r + 1] \in TextRows
  BY <1>1, <1>2
<1>6. q[r + 1] = new
  BY <1>2, <1>3, <1>5 DEF TextRows
<1>7. ASSUME NEW i \in 1 .. r + 1, i # r + 1 PROVE q[i] = p[i]
  <2> DEFINE a == p[i]
             b == q[i]
  <2>1. a \in TextRows /\ b \in TextRows
    BY <1>1
  <2>2. ASSUME NEW x \in 1 .. COLUMNS PROVE b[x] = a[x]
    <3>1. ~ (i = r + 1 /\ x = k + 1)
      BY <1>7
    <3>2. QED
      BY <1>3, <3>1, Zenon
  <2> HIDE DEF a, b
  <2>3. a = b
    <3>1. a = [x \in 1 .. COLUMNS |-> a[x]] /\ b = [x \in 1 .. COLUMNS |-> b[x]]
      BY <2>1, Zenon DEF TextRows
    <3>2. [x \in 1 .. COLUMNS |-> a[x]] = [x \in 1 .. COLUMNS |-> b[x]]
      BY <2>2, Zenon
    <3>3. QED
      BY <3>1, <3>2, Zenon
  <2>4. QED
    BY <2>3 DEF a, b
<1> HIDE DEF new
<1>8. [p EXCEPT ![r + 1] = new] = q
  <2> DEFINE D == 1 .. r + 1
             last == r + 1
             e == [p EXCEPT ![last] = new]
  <2>1. p \in [D -> TextRows] /\ q \in [D -> TextRows] /\ last \in D /\ q[last] = new
    BY <1>1, <1>2, <1>6
  <2>2. \A i \in D : i # last => q[i] = p[i]
    BY <1>7
  <2> HIDE DEF D, last
  <2>3. e = q
    BY <2>1, <2>2
  <2>4. QED
    BY <2>3 DEF last
<1>9. QED
  BY <1>4, <1>8 DEF p, q

LEMMA ViewDraw ==
  ASSUME NEW w \in Screens, w.column # COLUMNS, NEW c \in Chars
  PROVE  LET u == ViewOf(w)
         IN  ViewOf(DrawNext(w, c)) =
               [page |-> [u.page EXCEPT ![Len(u.page)][u.col + 1] = c], col |-> u.col + 1]
<1> DEFINE v == DrawNext(w, c)
<1>1. /\ v \in Screens /\ v.column = w.column + 1 /\ v.row = w.row
      /\ OneCell(w.mem, v.mem, w.row, w.column, c)
  BY DrawNextIs, Zenon DEF OneCell
<1> HIDE DEF v
<1>2. w.mem \in Memory /\ w.row \in Nat /\ w.row < ROWS /\ w.column \in Cols /\ v.mem \in Memory
  BY <1>1, ScreenFields, Sizes DEF Cols
<1>3. [PageOf(w.mem, w.row) EXCEPT ![Len(PageOf(w.mem, w.row))][w.column + 1] = c] = PageOf(v.mem, w.row)
  BY <1>1, <1>2, PageChanged
<1>4. ViewOf(v) = [page |-> PageOf(v.mem, w.row), col |-> w.column + 1]
  BY <1>1, Zenon DEF ViewOf
<1>5. ViewOf(w).page = PageOf(w.mem, w.row) /\ ViewOf(w).col = w.column
  BY DEF ViewOf
<1>6. QED
  BY <1>3, <1>4, <1>5, Zenon DEF v

LEMMA ViewPut ==
  ASSUME NEW w \in Screens, NEW c \in Chars
  PROVE  PutByte(w, c) \in Screens /\ ViewOf(PutByte(w, c)) = Text!Put(ViewOf(w), c)
<1> DEFINE at == IF w.column = COLUMNS THEN NewLine(w) ELSE w
           u == ViewOf(at)
<1>1. at \in Screens /\ at.column # COLUMNS /\ PutByte(w, c) = DrawNext(at, c)
  BY PutByteIs, Zenon
<1>2. u = IF ViewOf(w).col = COLUMNS THEN Text!NewRow(ViewOf(w)) ELSE ViewOf(w)
  <2>1. ViewOf(w).col = w.column
    BY DEF ViewOf
  <2>2. CASE w.column = COLUMNS
    <3>1. Text!NewRow(ViewOf(w)) = ViewOf(NewLine(w))
      BY ViewNewRow
    <3>2. QED
      BY <2>1, <2>2, <3>1
  <2>3. CASE w.column # COLUMNS
    BY <2>1, <2>3
  <2>4. QED
    BY <2>2, <2>3
<1> HIDE DEF at
<1>3. ViewOf(DrawNext(at, c)) =
        [page |-> [u.page EXCEPT ![Len(u.page)][u.col + 1] = c], col |-> u.col + 1]
  BY <1>1, ViewDraw, Zenon
<1> HIDE DEF u
<1>4. Text!Put(ViewOf(w), c) =
        [page |-> [u.page EXCEPT ![Len(u.page)][u.col + 1] = c], col |-> u.col + 1]
  BY <1>2, Zenon DEF Text!Put
<1>5. DrawNext(at, c) \in Screens
  BY <1>1, DrawNextIs
<1>6. QED
  BY <1>1, <1>3, <1>4, <1>5, Zenon

LEMMA ViewTakeBack ==
  ASSUME NEW w \in Screens
  PROVE  Backspace(w) \in Screens /\ ViewOf(Backspace(w)) = Text!TakeBack(ViewOf(w))
<1> DEFINE v == Backspace(w)
           u == ViewOf(w)
<1>1. u.page = PageOf(w.mem, w.row) /\ u.col = w.column
  BY DEF ViewOf
<1>2. CASE w.column = 0
  <2>1. v = w
    BY <1>2 DEF Backspace
  <2> HIDE DEF u, v
  <2>2. Text!TakeBack(u) = u
    BY <1>1, <1>2 DEF Text!TakeBack
  <2>3. QED
    BY <2>1, <2>2 DEF u, v
<1>3. CASE w.column # 0
  <2>1. /\ v \in Screens /\ v.column = w.column - 1 /\ v.row = w.row
        /\ OneCell(w.mem, v.mem, w.row, w.column - 1, "space")
    BY <1>3, BackspaceIs, Zenon DEF OneCell
  <2> HIDE DEF v
  <2>2. /\ w.mem \in Memory /\ w.row \in Nat /\ w.row < ROWS /\ w.column - 1 \in Cols
        /\ (w.column - 1) + 1 = w.column /\ v.mem \in Memory
    BY <1>3, <2>1, ScreenFields, Sizes DEF Cols
  <2>3. [PageOf(w.mem, w.row) EXCEPT ![Len(PageOf(w.mem, w.row))][w.column] = "space"]
          = PageOf(v.mem, w.row)
    <3>1. [PageOf(w.mem, w.row) EXCEPT ![Len(PageOf(w.mem, w.row))][(w.column - 1) + 1] = "space"]
            = PageOf(v.mem, w.row)
      BY <2>1, <2>2, PageChanged
    <3>2. QED
      BY <2>2, <3>1, Zenon
  <2>4. ViewOf(v) = [page |-> PageOf(v.mem, w.row), col |-> w.column - 1]
    BY <2>1, Zenon DEF ViewOf
  <2> HIDE DEF u
  <2>5. Text!TakeBack(u) =
          [page |-> [u.page EXCEPT ![Len(u.page)][u.col] = "space"], col |-> u.col - 1]
    BY <1>1, <1>3, Zenon DEF Text!TakeBack
  <2>6. QED
    BY <1>1, <2>1, <2>3, <2>4, <2>5, Zenon DEF u, v
<1>4. QED
  BY <1>2, <1>3

(* Writing a byte has the effect of the text console's operation.             *)
LEMMA ViewAfter ==
  ASSUME NEW w \in Screens, NEW b \in Bytes
  PROVE  WriteByte(w, b) \in Screens /\ ViewOf(WriteByte(w, b)) = Text!After(ViewOf(w), b)
<1>0. "NL" \notin Printable /\ "BS" \notin Printable
  BY WriterAssumption DEF WriterAssumption
<1>1. CASE b = "NL"
  <2>1. WriteByte(w, b) = NewLine(w) /\ Text!After(ViewOf(w), b) = Text!NewRow(ViewOf(w))
    BY <1>0, <1>1 DEF WriteByte, Text!After
  <2>2. NewLine(w) \in Screens
    BY NewLineIs
  <2>3. QED
    BY <2>1, <2>2, ViewNewRow
<1>2. CASE b = "BS"
  <2>1. WriteByte(w, b) = Backspace(w) /\ Text!After(ViewOf(w), b) = Text!TakeBack(ViewOf(w))
    BY <1>0, <1>2 DEF WriteByte, Text!After
  <2>2. QED
    BY <2>1, ViewTakeBack
<1>3. CASE b # "NL" /\ b # "BS"
  <2> DEFINE c == Text!Shown(b)
  <2>1. c = (IF b \in Printable THEN b ELSE "box") /\ c \in Chars
    BY DEF Text!Shown, Chars
  <2>2. WriteByte(w, b) = PutByte(w, c) /\ Text!After(ViewOf(w), b) = Text!Put(ViewOf(w), c)
    <3>1. Text!After(ViewOf(w), b) = Text!Put(ViewOf(w), c)
      BY <1>3 DEF Text!After
    <3> HIDE DEF c
    <3>2. WriteByte(w, b) = PutByte(w, c)
      BY <1>3, <2>1 DEF WriteByte
    <3>3. QED
      BY <3>1, <3>2
  <2> HIDE DEF c
  <2>3. QED
    BY <2>1, <2>2, ViewPut
<1>4. QED
  BY <1>1, <1>2, <1>3

-----------------------------------------------------------------------------
(* Writing a text.                                                            *)

Writes(w, text) == FoldLeft(WriteByte, w, text)
Afters(t, text) == FoldLeft(Text!After, t, text)

Views == {ViewOf(w) : w \in Screens}

LEMMA AfterTyped ==
  ASSUME NEW t \in Views, NEW b \in Bytes
  PROVE  Text!After(t, b) \in Views
<1>1. PICK w \in Screens : t = ViewOf(w)
  BY DEF Views
<1>2. WriteByte(w, b) \in Screens /\ ViewOf(WriteByte(w, b)) = Text!After(t, b)
  BY <1>1, ViewAfter
<1>3. QED
  BY <1>2 DEF Views

(* The Writer after the first n bytes, for every n, and the page.             *)
ByteByByte(f, w, text) ==
  /\ f \in [0 .. Len(text) -> Screens]
  /\ f[0] = w
  /\ \A n \in 0 .. Len(text) - 1 : f[n + 1] = WriteByte(f[n], text[n + 1])

PageByPage(f, t, text) ==
  /\ f \in [0 .. Len(text) -> Views]
  /\ f[0] = t
  /\ \A n \in 0 .. Len(text) - 1 : f[n + 1] = Text!After(f[n], text[n + 1])

LEMMA WritesFold ==
  ASSUME NEW w \in Screens, NEW q \in Seq(Bytes)
  PROVE  \E f : ByteByByte(f, w, q) /\ Writes(w, q) = f[Len(q)]
<1> DEFINE M == Len(q)
           G == [i \in 1 .. M |-> [a \in Screens |-> WriteByte(a, q[i])]]
<1>1. M \in Nat /\ DOMAIN q = 1 .. M
  OBVIOUS
<1>2. ASSUME NEW i \in 1 .. M, NEW a \in Screens
      PROVE  G[i][a] = WriteByte(a, q[i]) /\ G[i][a] \in Screens
  <2>1. q[i] \in Bytes
    OBVIOUS
  <2>2. G[i][a] = WriteByte(a, q[i])
    OBVIOUS
  <2> HIDE DEF G
  <2>3. QED
    BY <2>1, <2>2, ViewAfter
<1> DEFINE Body(F) == [s \in SUBSET (DOMAIN q) |->
                         IF s = {} THEN w ELSE WriteByte(F[s \ {Max(s)}], q[Max(s)])]
<1>3. Writes(w, q) = (CHOOSE F : F = Body(F))[DOMAIN q]
  BY DEF Writes, FoldLeft, MapThenFoldSet
<1>4. \E F : F = Body(F)
  <2>1. PICK F \in [SUBSET (1 .. M) -> Screens] : F = FoldBody(F, G, w, M)
    <3>1. M \in Nat /\ StaysIn(Screens, G, M)
      BY <1>1, <1>2, Zenon DEF StaysIn
    <3> HIDE DEF G, M
    <3>2. HasFold(Screens, G, w, M)
      BY <3>1, FoldExists
    <3>3. QED
      BY <3>2 DEF HasFold
  <2>2. ASSUME NEW s \in SUBSET (1 .. M), s # {}
        PROVE  G[Max(s)][F[s \ {Max(s)}]] = WriteByte(F[s \ {Max(s)}], q[Max(s)])
    <3>1. Max(s) \in 1 .. M /\ s \ {Max(s)} \in SUBSET (1 .. M)
      BY <1>1, <2>2, MaxOfPositions
    <3>2. F[s \ {Max(s)}] \in Screens
      BY <3>1
    <3> HIDE DEF G, M
    <3>3. QED
      BY <1>2, <3>1, <3>2
  <2>3. F = Body(F)
    <3> HIDE DEF G, M
    <3>1. QED
      BY <1>1, <2>1, <2>2 DEF FoldBody
  <2>4. QED
    BY <2>3
<1> DEFINE F == CHOOSE F : F = Body(F)
           f == [n \in 0 .. M |-> F[1 .. n]]
<1>5. F = Body(F)
  BY <1>4
<1>6. \A s \in SUBSET (1 .. M) :
         F[s] = IF s = {} THEN w ELSE WriteByte(F[s \ {Max(s)}], q[Max(s)])
  <2> HIDE DEF F
  <2>1. QED
    BY <1>1, <1>5
<1>7. f[0] = w /\ Writes(w, q) = f[M]
  <2>1. 1 .. 0 = {} /\ {} \in SUBSET (1 .. M)
    OBVIOUS
  <2>2. Writes(w, q) = F[1 .. M] /\ M \in 0 .. M /\ 0 \in 0 .. M
    BY <1>1, <1>3
  <2> HIDE DEF F
  <2>3. F[1 .. 0] = w
    BY <1>6, <2>1
  <2>4. QED
    BY <2>2, <2>3
<1>8. ASSUME NEW n \in 0 .. M - 1 PROVE f[n + 1] = WriteByte(f[n], q[n + 1])
  <2>1. /\ 1 .. n + 1 \in SUBSET (1 .. M) /\ 1 .. n + 1 # {}
        /\ Max(1 .. n + 1) = n + 1
        /\ (1 .. n + 1) \ {n + 1} = 1 .. n
    BY <1>1, PrefixPositions
  <2> HIDE DEF F
  <2>2. F[1 .. n + 1] = WriteByte(F[1 .. n], q[n + 1])
    BY <1>6, <2>1
  <2>3. QED
    BY <1>1, <2>2
<1>9. \A n \in 0 .. M : f[n] \in Screens
  <2> DEFINE P == {n \in Nat : n <= M => f[n] \in Screens}
  <2> HIDE DEF f, G
  <2>1. 0 \in P
    BY <1>1, <1>7
  <2>2. ASSUME NEW n \in Nat, n \in P PROVE n + 1 \in P
    <3>1. SUFFICES ASSUME n + 1 <= M PROVE f[n + 1] \in Screens
      OBVIOUS
    <3>2. n \in 0 .. M - 1 /\ f[n] \in Screens /\ n + 1 \in 1 .. M
      BY <1>1, <2>2, <3>1
    <3>3. q[n + 1] \in Bytes
      BY <3>2
    <3>4. QED
      BY <1>8, <3>2, <3>3, ViewAfter
  <2>3. \A n \in Nat : n \in P
    <3> HIDE DEF P
    <3>1. QED
      BY <2>1, <2>2, Induct
  <2>4. QED
    BY <1>1, <2>3
<1>10. ByteByByte(f, w, q)
  <2>1. f \in [0 .. M -> Screens]
    <3>1. f = [n \in 0 .. M |-> f[n]]
      OBVIOUS
    <3> HIDE DEF f
    <3>2. QED
      BY <1>9, <3>1
  <2> HIDE DEF f
  <2>2. QED
    BY <2>1, <1>7, <1>8 DEF ByteByByte
<1>11. QED
  BY <1>7, <1>10


LEMMA AftersFold ==
  ASSUME NEW t \in Views, NEW q \in Seq(Bytes)
  PROVE  \E f : PageByPage(f, t, q) /\ Afters(t, q) = f[Len(q)]
<1> DEFINE M == Len(q)
           G == [i \in 1 .. M |-> [a \in Views |-> Text!After(a, q[i])]]
<1>1. M \in Nat /\ DOMAIN q = 1 .. M
  OBVIOUS
<1>2. ASSUME NEW i \in 1 .. M, NEW a \in Views
      PROVE  G[i][a] = Text!After(a, q[i]) /\ G[i][a] \in Views
  <2>1. q[i] \in Bytes
    OBVIOUS
  <2>2. G[i][a] = Text!After(a, q[i])
    OBVIOUS
  <2> HIDE DEF G
  <2>3. QED
    BY <2>1, <2>2, AfterTyped
<1> DEFINE Body(F) == [s \in SUBSET (DOMAIN q) |->
                         IF s = {} THEN t ELSE Text!After(F[s \ {Max(s)}], q[Max(s)])]
<1>3. Afters(t, q) = (CHOOSE F : F = Body(F))[DOMAIN q]
  BY DEF Afters, FoldLeft, MapThenFoldSet
<1>4. \E F : F = Body(F)
  <2>1. PICK F \in [SUBSET (1 .. M) -> Views] : F = FoldBody(F, G, t, M)
    <3>1. M \in Nat /\ StaysIn(Views, G, M)
      BY <1>1, <1>2, Zenon DEF StaysIn
    <3> HIDE DEF G, M
    <3>2. HasFold(Views, G, t, M)
      BY <3>1, FoldExists
    <3>3. QED
      BY <3>2 DEF HasFold
  <2>2. ASSUME NEW s \in SUBSET (1 .. M), s # {}
        PROVE  G[Max(s)][F[s \ {Max(s)}]] = Text!After(F[s \ {Max(s)}], q[Max(s)])
    <3>1. Max(s) \in 1 .. M /\ s \ {Max(s)} \in SUBSET (1 .. M)
      BY <1>1, <2>2, MaxOfPositions
    <3>2. F[s \ {Max(s)}] \in Views
      BY <3>1
    <3> HIDE DEF G, M
    <3>3. QED
      BY <1>2, <3>1, <3>2
  <2>3. F = Body(F)
    <3> HIDE DEF G, M
    <3>1. QED
      BY <1>1, <2>1, <2>2 DEF FoldBody
  <2>4. QED
    BY <2>3
<1> DEFINE F == CHOOSE F : F = Body(F)
           f == [n \in 0 .. M |-> F[1 .. n]]
<1>5. F = Body(F)
  BY <1>4
<1>6. \A s \in SUBSET (1 .. M) :
         F[s] = IF s = {} THEN t ELSE Text!After(F[s \ {Max(s)}], q[Max(s)])
  <2> HIDE DEF F
  <2>1. QED
    BY <1>1, <1>5
<1>7. f[0] = t /\ Afters(t, q) = f[M]
  <2>1. 1 .. 0 = {} /\ {} \in SUBSET (1 .. M)
    OBVIOUS
  <2>2. Afters(t, q) = F[1 .. M] /\ M \in 0 .. M /\ 0 \in 0 .. M
    BY <1>1, <1>3
  <2> HIDE DEF F
  <2>3. F[1 .. 0] = t
    BY <1>6, <2>1
  <2>4. QED
    BY <2>2, <2>3
<1>8. ASSUME NEW n \in 0 .. M - 1 PROVE f[n + 1] = Text!After(f[n], q[n + 1])
  <2>1. /\ 1 .. n + 1 \in SUBSET (1 .. M) /\ 1 .. n + 1 # {}
        /\ Max(1 .. n + 1) = n + 1
        /\ (1 .. n + 1) \ {n + 1} = 1 .. n
    BY <1>1, PrefixPositions
  <2> HIDE DEF F
  <2>2. F[1 .. n + 1] = Text!After(F[1 .. n], q[n + 1])
    BY <1>6, <2>1
  <2>3. QED
    BY <1>1, <2>2
<1>9. \A n \in 0 .. M : f[n] \in Views
  <2> DEFINE P == {n \in Nat : n <= M => f[n] \in Views}
  <2> HIDE DEF f, G
  <2>1. 0 \in P
    BY <1>1, <1>7
  <2>2. ASSUME NEW n \in Nat, n \in P PROVE n + 1 \in P
    <3>1. SUFFICES ASSUME n + 1 <= M PROVE f[n + 1] \in Views
      OBVIOUS
    <3>2. n \in 0 .. M - 1 /\ f[n] \in Views /\ n + 1 \in 1 .. M
      BY <1>1, <2>2, <3>1
    <3>3. q[n + 1] \in Bytes
      BY <3>2
    <3>4. QED
      BY <1>8, <3>2, <3>3, AfterTyped
  <2>3. \A n \in Nat : n \in P
    <3> HIDE DEF P
    <3>1. QED
      BY <2>1, <2>2, Induct
  <2>4. QED
    BY <1>1, <2>3
<1>10. PageByPage(f, t, q)
  <2>1. f \in [0 .. M -> Views]
    <3>1. f = [n \in 0 .. M |-> f[n]]
      OBVIOUS
    <3> HIDE DEF f
    <3>2. QED
      BY <1>9, <3>1
  <2> HIDE DEF f
  <2>2. QED
    BY <2>1, <1>7, <1>8 DEF PageByPage
<1>11. QED
  BY <1>7, <1>10

(* Whatever is written, the page changes as the text console says.            *)
LEMMA WritesView ==
  ASSUME NEW w \in Screens, NEW text \in Seq(Bytes)
  PROVE  Writes(w, text) \in Screens /\ ViewOf(Writes(w, text)) = Afters(ViewOf(w), text)
<1> DEFINE t == ViewOf(w)
           M == Len(text)
<1>1. t \in Views
  BY DEF Views
<1> HIDE DEF t
<1>2. PICK f : ByteByByte(f, w, text) /\ Writes(w, text) = f[Len(text)]
  BY WritesFold
<1>3. PICK g : PageByPage(g, t, text) /\ Afters(t, text) = g[Len(text)]
  BY <1>1, AftersFold
<1> DEFINE P == {n \in Nat : n <= M => ViewOf(f[n]) = g[n]}
<1>4. M \in Nat /\ \A i \in 1 .. M : text[i] \in Bytes
  OBVIOUS
<1> HIDE DEF M
<1>5. /\ f[0] = w /\ \A n \in 0 .. M : f[n] \in Screens
      /\ \A n \in 0 .. M - 1 : f[n + 1] = WriteByte(f[n], text[n + 1])
  BY <1>2 DEF ByteByByte, M
<1>6. g[0] = t /\ \A n \in 0 .. M - 1 : g[n + 1] = Text!After(g[n], text[n + 1])
  BY <1>3 DEF PageByPage, M
<1>7. 0 \in P
  BY <1>5, <1>6 DEF t
<1>8. ASSUME NEW n \in Nat, n \in P PROVE n + 1 \in P
  <2>1. SUFFICES ASSUME n + 1 <= M PROVE ViewOf(f[n + 1]) = g[n + 1]
    OBVIOUS
  <2>2. n \in 0 .. M - 1 /\ n \in 0 .. M /\ n + 1 \in 1 .. M /\ ViewOf(f[n]) = g[n]
    BY <1>4, <1>8, <2>1
  <2>3. ViewOf(WriteByte(f[n], text[n + 1])) = Text!After(ViewOf(f[n]), text[n + 1])
    BY <1>4, <1>5, <2>2, ViewAfter
  <2>4. QED
    BY <1>5, <1>6, <2>2, <2>3, Zenon
<1>9. \A n \in Nat : n \in P
  <2> HIDE DEF P
  <2>1. QED
    BY <1>7, <1>8, Induct
<1>10. ViewOf(f[M]) = g[M] /\ M \in 0 .. M /\ f[M] \in Screens
  BY <1>4, <1>5, <1>9
<1>11. QED
  BY <1>2, <1>3, <1>10 DEF M, t

LEMMA WritesNothing ==
  ASSUME NEW w \in Screens
  PROVE  Writes(w, <<>>) = w
<1>1. <<>> \in Seq(Bytes) /\ Len(<<>>) = 0
  OBVIOUS
<1>2. PICK f : ByteByByte(f, w, <<>>) /\ Writes(w, <<>>) = f[Len(<<>>)]
  BY <1>1, WritesFold
<1>3. QED
  BY <1>1, <1>2 DEF ByteByByte

LEMMA WritesOne ==
  ASSUME NEW w \in Screens, NEW b \in Bytes
  PROVE  Writes(w, <<b>>) = WriteByte(w, b)
<1> DEFINE q == <<b>>
<1>1. q \in Seq(Bytes) /\ Len(q) = 1 /\ q[1] = b
  OBVIOUS
<1> HIDE DEF q
<1>2. PICK f : ByteByByte(f, w, q) /\ Writes(w, q) = f[Len(q)]
  BY <1>1, WritesFold
<1>3. f[0] = w /\ f[0 + 1] = WriteByte(f[0], q[0 + 1])
  <2>1. 0 \in 0 .. Len(q) - 1
    BY <1>1
  <2>2. QED
    BY <1>2, <2>1 DEF ByteByByte
<1>4. QED
  BY <1>1, <1>2, <1>3 DEF q

-----------------------------------------------------------------------------
(* The image of a line: its last character stands d places before the cursor, *)
(* the others before it, as far as they are on the display.                   *)

PosOf(w)      == w.row * COLUMNS + w.column
PlaceOf(w, p) == CellOf(w.mem, p \div COLUMNS, p % COLUMNS)

Image(w, l, d) ==
  \A i \in DOMAIN l : \A back \in 1 .. PosOf(w) :
    back + i = Len(l) + d => PlaceOf(w, PosOf(w) - back) = l[i]

(* The row and the column of a place before the cursor.                       *)
LEMMA Places ==
  ASSUME NEW row_ \in Nat, NEW col_ \in 0 .. COLUMNS, NEW p \in Nat, p < row_ * COLUMNS + col_
  PROVE  /\ p \div COLUMNS \in 0 .. row_ /\ p % COLUMNS \in Cols
         /\ p \div COLUMNS = row_ => p % COLUMNS < col_
         /\ p < row_ * COLUMNS => p \div COLUMNS < row_
         /\ p = (p \div COLUMNS) * COLUMNS + (p % COLUMNS)
<1> DEFINE r == p \div COLUMNS
           x == p % COLUMNS
           base == row_ * COLUMNS
           mine == r * COLUMNS
<1>1. /\ r \in Nat /\ mine <= p /\ p < mine + COLUMNS /\ x = p - mine /\ x \in 0 .. COLUMNS - 1
      /\ COLUMNS \in Nat \ {0}
  BY Sizes, Division
<1> HIDE DEF r, x
<1>2. base \in Nat /\ mine \in Nat
  BY <1>1, Products
<1>3. r > row_ => base + COLUMNS <= mine
  <2>1. SUFFICES ASSUME r > row_ PROVE base + COLUMNS <= mine
    OBVIOUS
  <2>2. row_ + 1 \in Nat /\ row_ + 1 <= r
    BY <1>1, <2>1
  <2>3. (row_ + 1) * COLUMNS <= mine /\ (row_ + 1) * COLUMNS = base + COLUMNS
    BY <1>1, <2>2, Products, ProductsGrow
  <2>4. QED
    BY <2>3
<1>4. r = row_ => mine = base
  OBVIOUS
<1> HIDE DEF base, mine
<1>5. p < base + col_
  BY DEF base
<1>6. r \in 0 .. row_ /\ (r = row_ => x < col_) /\ (p < base => r < row_) /\ p = mine + x
  BY <1>1, <1>2, <1>3, <1>4, <1>5
<1>7. QED
  BY <1>1, <1>6 DEF r, x, base, mine, Cols

LEMMA PlacesAbove ==
  ASSUME NEW row_ \in Nat, NEW p \in Nat, p < row_ * COLUMNS
  PROVE  /\ p \div COLUMNS \in Nat /\ p \div COLUMNS < row_ /\ p % COLUMNS \in Cols
         /\ p = (p \div COLUMNS) * COLUMNS + (p % COLUMNS)
<1> DEFINE base == row_ * COLUMNS
<1>1. base \in Nat /\ p < base /\ 0 \in 0 .. COLUMNS
  BY Sizes, Products
<1>2. p < base + 0
  <2> HIDE DEF base
  <2>1. QED
    BY <1>1
<1>3. QED
  BY <1>1, <1>2, Places

LEMMA PosIs ==
  ASSUME NEW w \in Screens
  PROVE  PosOf(w) \in Nat /\ w.row * COLUMNS \in Nat /\ PosOf(w) = w.row * COLUMNS + w.column
<1>1. w.row \in Nat /\ w.column \in 0 .. COLUMNS /\ COLUMNS \in Nat
  BY ScreenFields, Sizes
<1>2. w.row * COLUMNS \in Nat
  BY <1>1, Products
<1>3. QED
  BY <1>1, <1>2 DEF PosOf

(* Wrapping moves no character of the line away from the cursor.              *)
LEMMA ImageWraps ==
  ASSUME NEW w \in Screens, w.column = COLUMNS, NEW S, NEW l \in Seq(S), NEW d \in Nat, Image(w, l, d)
  PROVE  Image(NewLine(w), l, d)
<1> DEFINE v == NewLine(w)
           base == w.row * COLUMNS
<1>1. /\ v \in Screens /\ v.column = 0
      /\ \/ /\ w.row + 1 < ROWS /\ v.row = w.row + 1 /\ v.mem = w.mem
         \/ /\ w.row = ROWS - 1 /\ v.row = ROWS - 1
            /\ \A r \in 0 .. ROWS - 2, x \in Cols : CellOf(v.mem, r, x) = CellOf(w.mem, r + 1, x)
  BY NewLineIs, Zenon
<1> HIDE DEF v
<1>2. w.row \in Nat /\ w.row < ROWS /\ ROWS \in Nat /\ COLUMNS \in Nat \ {0}
  BY ScreenFields, RowsFit, Sizes
<1>3. PosOf(w) \in Nat /\ base \in Nat /\ PosOf(w) = base + COLUMNS
  BY PosIs
<1>4. CASE w.row + 1 < ROWS
  <2>1. v.row = w.row + 1 /\ v.mem = w.mem
    BY <1>1, <1>2, <1>4
  <2>2. PosOf(v) = PosOf(w)
    <3>1. (w.row + 1) * COLUMNS = base + COLUMNS
      BY <1>2, Products
    <3>2. PosOf(v) = (w.row + 1) * COLUMNS + 0
      BY <1>1, <2>1 DEF PosOf
    <3> HIDE DEF base
    <3>3. QED
      BY <1>2, <1>3, <3>1, <3>2
  <2>3. \A p : PlaceOf(v, p) = PlaceOf(w, p)
    BY <2>1 DEF PlaceOf
  <2>4. QED
    BY <2>2, <2>3, Zenon DEF Image, v
<1>5. CASE ~ (w.row + 1 < ROWS)
  <2>1. /\ w.row = ROWS - 1 /\ v.row = ROWS - 1
        /\ \A r \in 0 .. ROWS - 2, x \in Cols : CellOf(v.mem, r, x) = CellOf(w.mem, r + 1, x)
    BY <1>1, <1>5
  <2>2. PosOf(v) = base /\ PosOf(w) = PosOf(v) + COLUMNS /\ PosOf(v) \in Nat
    <3>1. PosOf(v) = base + 0
      BY <1>1, <2>1 DEF PosOf
    <3> HIDE DEF base
    <3>2. QED
      BY <1>3, <3>1
  <2>3. ASSUME NEW p \in Nat, p < PosOf(v)
        PROVE  PlaceOf(v, p) = PlaceOf(w, p + COLUMNS)
    <3> DEFINE r == p \div COLUMNS
               x == p % COLUMNS
    <3>1. r \in Nat /\ r < w.row /\ x \in Cols /\ p = r * COLUMNS + x
      <4> DEFINE R == w.row
      <4>1. R \in Nat /\ p < R * COLUMNS
        BY <1>2, <2>2, <2>3
      <4> HIDE DEF R
      <4>2. r \in Nat /\ r < R /\ x \in Cols /\ p = r * COLUMNS + x
        BY <4>1, PlacesAbove
      <4>3. QED
        BY <4>2 DEF R
    <3> HIDE DEF r, x
    <3>2. r \in Nat /\ r \in 0 .. ROWS - 2
      BY <1>2, <2>1, <3>1
    <3>3. p + COLUMNS = (r + 1) * COLUMNS + x
      <4> DEFINE rc == r * COLUMNS
      <4>1. rc \in Nat /\ (r + 1) * COLUMNS = rc + COLUMNS /\ p = rc + x
        BY <1>2, <3>1, <3>2, Products
      <4> HIDE DEF rc
      <4>2. x \in Int
        BY <3>1 DEF Cols
      <4>3. QED
        BY <1>2, <4>1, <4>2
    <3>4. (p + COLUMNS) \div COLUMNS = r + 1 /\ (p + COLUMNS) % COLUMNS = x
      <4> DEFINE q == r + 1
      <4>1. q \in Nat /\ x \in 0 .. COLUMNS - 1
        BY <3>1, <3>2 DEF Cols
      <4> HIDE DEF q
      <4>2. (q * COLUMNS + x) \div COLUMNS = q /\ (q * COLUMNS + x) % COLUMNS = x
        BY <1>2, <4>1, DivisionUnique
      <4>3. QED
        BY <3>3, <4>2, Zenon DEF q
    <3>5. PlaceOf(v, p) = CellOf(v.mem, r, x)
      BY DEF PlaceOf, r, x
    <3>6. PlaceOf(w, p + COLUMNS) = CellOf(w.mem, r + 1, x)
      BY <3>4 DEF PlaceOf
    <3>7. QED
      BY <2>1, <3>1, <3>2, <3>5, <3>6
  <2>4. ASSUME NEW i \in DOMAIN l, NEW back \in 1 .. PosOf(v), back + i = Len(l) + d
        PROVE  PlaceOf(v, PosOf(v) - back) = l[i]
    <3> DEFINE p == PosOf(v) - back
    <3>1. /\ back \in 1 .. PosOf(w) /\ p \in Nat /\ p < PosOf(v)
          /\ p + COLUMNS = PosOf(w) - back
      <4> DEFINE a == PosOf(v)
                 b == PosOf(w)
      <4>1. a \in Nat /\ b = a + COLUMNS /\ back \in 1 .. a
        BY <2>2
      <4> HIDE DEF a, b
      <4>2. back \in 1 .. b /\ a - back \in Nat /\ a - back < a /\ (a - back) + COLUMNS = b - back
        BY <1>2, <4>1
      <4>3. QED
        BY <4>2 DEF a, b
    <3>2. PlaceOf(w, PosOf(w) - back) = l[i]
      BY <2>4, <3>1 DEF Image
    <3> HIDE DEF p
    <3>3. PlaceOf(v, p) = PlaceOf(w, p + COLUMNS)
      BY <2>3, <3>1
    <3>4. QED
      BY <3>1, <3>2, <3>3 DEF p
  <2>5. QED
    BY <2>4, Zenon DEF Image, v
<1>6. QED
  BY <1>4, <1>5

LEMMA ImageDrawn ==
  ASSUME NEW w \in Screens, w.column # COLUMNS, NEW c \in Chars,
         NEW S, NEW l \in Seq(S), l # <<>>, l[Len(l)] = c, Image(w, l, 0)
  PROVE  Image(DrawNext(w, c), l, 1)
<1> DEFINE v == DrawNext(w, c)
           P == PosOf(w)
           Q == PosOf(v)
<1>1. /\ v \in Screens /\ v.column = w.column + 1 /\ v.row = w.row
      /\ OneCell(w.mem, v.mem, w.row, w.column, c)
  BY DrawNextIs, Zenon DEF OneCell
<1> HIDE DEF v
<1>2. w.row \in Nat /\ w.column \in 0 .. COLUMNS - 1 /\ w.column \in 0 .. COLUMNS /\ COLUMNS \in Nat \ {0}
  BY ScreenFields, Sizes
<1>3. P \in Nat /\ Q = P + 1
  <2> DEFINE base == w.row * COLUMNS
  <2>1. P = base + w.column /\ Q = base + (w.column + 1) /\ base \in Nat
    BY <1>1, PosIs
  <2> HIDE DEF base, P, Q
  <2>2. QED
    BY <1>2, <2>1
<1>4. PlaceOf(v, P) = c
  <2> DEFINE R == w.row
             C == w.column
  <2>1. R \in Nat /\ C \in 0 .. COLUMNS - 1 /\ C \in Cols /\ P = R * COLUMNS + C
    BY <1>2 DEF PosOf, Cols
  <2>2. CellOf(v.mem, R, C) = c
    <3>1. R \in 0 .. R
      BY <2>1
    <3>2. QED
      BY <1>1, <2>1, <3>1 DEF OneCell
  <2> HIDE DEF R, C, P
  <2>3. (R * COLUMNS + C) \div COLUMNS = R /\ (R * COLUMNS + C) % COLUMNS = C
    BY <1>2, <2>1, DivisionUnique
  <2>4. QED
    BY <2>1, <2>2, <2>3, Zenon DEF PlaceOf
<1>5. ASSUME NEW p \in Nat, p < P PROVE PlaceOf(v, p) = PlaceOf(w, p)
  <2> DEFINE R == w.row
             C == w.column
             r == p \div COLUMNS
             x == p % COLUMNS
  <2>1. R \in Nat /\ C \in 0 .. COLUMNS /\ p < R * COLUMNS + C
    BY <1>2, <1>5 DEF PosOf
  <2> HIDE DEF R, C, P
  <2>2. r \in 0 .. R /\ x \in Cols /\ (r = R => x < C)
    BY <2>1, Places
  <2> HIDE DEF r, x
  <2>3. ~ (r = R /\ x = C)
    BY <1>2, <2>1, <2>2
  <2>4. CellOf(v.mem, r, x) = CellOf(w.mem, r, x)
    BY <1>1, <2>2, <2>3 DEF OneCell, R, C
  <2>5. QED
    BY <2>4 DEF PlaceOf, r, x
<1>6. Len(l) \in Nat /\ DOMAIN l = 1 .. Len(l)
  OBVIOUS
<1>7. ASSUME NEW i \in DOMAIN l, NEW back \in 1 .. Q, back + i = Len(l) + 1
      PROVE  PlaceOf(v, Q - back) = l[i]
  <2> HIDE DEF P, Q
  <2> DEFINE N == Len(l)
  <2>1. N \in Nat /\ i \in 1 .. N /\ back + i = N + 1
    BY <1>6, <1>7
  <2>2. CASE i = N
    <3> HIDE DEF N
    <3>1. Q - back = P
      BY <1>3, <2>1, <2>2
    <3>2. l[i] = c
      BY <2>2 DEF N
    <3>3. QED
      BY <1>4, <3>1, <3>2
  <2>3. CASE i # N
    <3> HIDE DEF N
    <3> DEFINE b == back - 1
    <3>1. b \in 1 .. P /\ b + i = N + 0 /\ Q - back = P - b /\ P - b \in Nat /\ P - b < P
      BY <1>3, <2>1, <2>3
    <3> HIDE DEF b
    <3>2. PlaceOf(w, P - b) = l[i]
      BY <3>1 DEF Image, N, P
    <3>3. QED
      BY <1>5, <3>1, <3>2
  <2>4. QED
    BY <2>2, <2>3
<1>8. QED
  BY <1>7, Zenon DEF Image, v, Q

LEMMA ImagePut ==
  ASSUME NEW w \in Screens, NEW c \in Chars,
         NEW S, NEW l \in Seq(S), l # <<>>, l[Len(l)] = c, Image(w, l, 0)
  PROVE  Image(PutByte(w, c), l, 1)
<1> DEFINE at == IF w.column = COLUMNS THEN NewLine(w) ELSE w
<1>1. at \in Screens /\ at.column # COLUMNS /\ PutByte(w, c) = DrawNext(at, c)
  BY PutByteIs, Zenon
<1>2. Image(at, l, 0)
  BY ImageWraps
<1> HIDE DEF at
<1>3. Image(DrawNext(at, c), l, 1)
  BY <1>1, <1>2, ImageDrawn
<1>4. QED
  BY <1>1, <1>3

LEMMA ImageBack ==
  ASSUME NEW w \in Screens, w.column # 0, NEW S, NEW l \in Seq(S), Image(w, l, 2)
  PROVE  Image(Backspace(w), l, 1)
<1> DEFINE v == Backspace(w)
           P == PosOf(w)
           Q == PosOf(v)
<1>1. /\ v \in Screens /\ v.column = w.column - 1 /\ v.row = w.row
      /\ OneCell(w.mem, v.mem, w.row, w.column - 1, "space")
  BY BackspaceIs, Zenon DEF OneCell
<1> HIDE DEF v
<1>2. w.row \in Nat /\ w.column \in 1 .. COLUMNS /\ w.column - 1 \in 0 .. COLUMNS /\ COLUMNS \in Nat \ {0}
  BY ScreenFields, Sizes
<1>3. P \in Nat /\ Q \in Nat /\ P = Q + 1
  <2> DEFINE base == w.row * COLUMNS
             C == w.column
  <2>1. P = base + C /\ Q = base + (C - 1) /\ base \in Nat /\ C \in 1 .. COLUMNS
    BY <1>1, <1>2, PosIs
  <2> HIDE DEF base, P, Q, C
  <2>2. QED
    BY <1>2, <2>1
<1>4. ASSUME NEW p \in Nat, p < Q PROVE PlaceOf(v, p) = PlaceOf(w, p)
  <2> DEFINE R == w.row
             C == w.column - 1
             r == p \div COLUMNS
             x == p % COLUMNS
  <2>1. R \in Nat /\ C \in 0 .. COLUMNS /\ p < R * COLUMNS + C
    BY <1>1, <1>2, <1>4 DEF PosOf
  <2> HIDE DEF R, C, Q
  <2>2. r \in 0 .. R /\ x \in Cols /\ (r = R => x < C)
    BY <2>1, Places
  <2> HIDE DEF r, x
  <2>3. ~ (r = R /\ x = C)
    BY <1>2, <2>1, <2>2
  <2>4. CellOf(v.mem, r, x) = CellOf(w.mem, r, x)
    BY <1>1, <2>2, <2>3 DEF OneCell, R, C
  <2>5. QED
    BY <2>4 DEF PlaceOf, r, x
<1>5. Len(l) \in Nat /\ DOMAIN l = 1 .. Len(l)
  OBVIOUS
<1>6. ASSUME NEW i \in DOMAIN l, NEW back \in 1 .. Q, back + i = Len(l) + 1
      PROVE  PlaceOf(v, Q - back) = l[i]
  <2> DEFINE N == Len(l)
             b == back + 1
  <2>1. N \in Nat /\ i \in 1 .. N /\ back + i = N + 1
    BY <1>5, <1>6
  <2> HIDE DEF N, P, Q
  <2>2. b \in 1 .. P /\ b + i = N + 2 /\ P - b = Q - back /\ Q - back \in Nat /\ Q - back < Q
    BY <1>3, <2>1
  <2> HIDE DEF b
  <2>3. PlaceOf(w, P - b) = l[i]
    BY <2>2 DEF Image, N, P
  <2>4. QED
    BY <1>4, <2>2, <2>3
<1>7. QED
  BY <1>6, Zenon DEF Image, v, Q

(* The line grows or shrinks before its image does.                           *)
LEMMA ImageAppend ==
  ASSUME NEW w \in Screens, NEW S, NEW l \in Seq(S), NEW c \in S, Image(w, l, 1)
  PROVE  Image(w, Append(l, c), 0)
<1> DEFINE k == Append(l, c)
           P == PosOf(w)
           N == Len(l)
<1>1. N \in Nat /\ DOMAIN l = 1 .. N /\ DOMAIN k = 1 .. N + 1 /\ Len(k) = N + 1 /\ \A i \in 1 .. N : k[i] = l[i]
  OBVIOUS
<1> HIDE DEF k, N
<1>2. ASSUME NEW i \in DOMAIN k, NEW back \in 1 .. P, back + i = Len(k) + 0
      PROVE  PlaceOf(w, P - back) = k[i]
  <2>1. i \in 1 .. N /\ back + i = N + 1
    <3>1. P \in Nat
      BY PosIs
    <3> HIDE DEF P
    <3>2. QED
      BY <1>1, <1>2, <3>1
  <2>2. PlaceOf(w, P - back) = l[i]
    BY <1>1, <2>1 DEF Image, N
  <2>3. QED
    BY <1>1, <2>1, <2>2
<1>3. QED
  BY <1>2, Zenon DEF Image, k

LEMMA ImageFront ==
  ASSUME NEW w \in Screens, NEW S, NEW l \in Seq(S), l # <<>>, Image(w, l, 1)
  PROVE  Image(w, Front(l), 2)
<1> DEFINE k == Front(l)
           P == PosOf(w)
           N == Len(l)
<1>1. N \in Nat /\ DOMAIN l = 1 .. N /\ DOMAIN k = 1 .. N - 1 /\ Len(k) = N - 1 /\ \A i \in 1 .. N - 1 : k[i] = l[i]
  <2>1. k \in Seq(S) /\ N \in Nat \ {0} /\ Len(k) = N - 1 /\ \A i \in 1 .. N - 1 : k[i] = l[i]
    BY FrontIs
  <2> HIDE DEF k
  <2>2. QED
    BY <2>1
<1> HIDE DEF k, N
<1>2. ASSUME NEW i \in DOMAIN k, NEW back \in 1 .. P, back + i = Len(k) + 2
      PROVE  PlaceOf(w, P - back) = k[i]
  <2>1. i \in 1 .. N - 1 /\ i \in 1 .. N /\ back + i = N + 1
    <3>1. P \in Nat
      BY PosIs
    <3> HIDE DEF P
    <3>2. QED
      BY <1>1, <1>2, <3>1
  <2>2. PlaceOf(w, P - back) = l[i]
    BY <1>1, <2>1 DEF Image, N
  <2>3. QED
    BY <1>1, <2>1, <2>2
<1>3. QED
  BY <1>2, Zenon DEF Image, k

-----------------------------------------------------------------------------
(* clear_screen.                                                              *)

LEMMA ClearIs ==
  ASSUME NEW u, u.mem \in Memory
  PROVE  ClearScreen(u) \in Screens /\ ViewOf(ClearScreen(u)) = Text!Fresh
<1> DEFINE m == [y \in Lines |-> IF y < HEIGHT THEN BlankLine ELSE u.mem[y]]
           v == ClearScreen(u)
<1>1. v = [mem |-> m, column |-> 0, row |-> 0]
  BY DEF ClearScreen
<1>2. BlankLine \in [Cols -> Slices] /\ \A x \in Cols : BlankLine[x] = Background
  <2>1. 0 \in 0 .. GLYPH_HEIGHT - 1
    BY Sizes
  <2>2. QED
    BY <2>1 DEF BlankLine, Background, Slices, Chars
<1>3. m \in Memory
  BY <1>2 DEF Memory
<1>4. \A y \in Lines, x \in Cols : y < HEIGHT => m[y][x] = Background
  BY <1>2
<1> HIDE DEF m
<1>5. v.mem = m /\ v.column = 0 /\ v.row = 0
  BY <1>1
<1>6. v \in Screens
  <2>1. v \in Writers
    <3>1. 0 \in 0 .. COLUMNS
      BY Sizes
    <3>2. QED
      BY <1>1, <1>3, <3>1 DEF Writers
  <2>2. BlankAfter(m, 0, 0)
    BY <1>4, Zenon DEF BlankAfter
  <2>3. 0 < ROWS
    BY RowsFit
  <2>4. QED
    BY <1>5, <2>1, <2>2, <2>3 DEF Screens
<1> HIDE DEF v
<1>7. PageOf(m, 0) = <<Text!BlankRow>>
  <2>1. RowOf(m, 0) = Text!BlankRow
    BY <1>5, <1>6, BlankRowIs
  <2> DEFINE p == PageOf(m, 0)
             B == Text!BlankRow
  <2>2. p \in Seq(TextRows) /\ Len(p) = 1 /\ p[1] = B /\ B \in TextRows
    <3>1. 0 \in Nat /\ 0 < ROWS /\ 0 + 1 = 1 /\ 1 \in 1 .. 1 /\ 1 - 1 = 0
      BY RowsFit
    <3>2. /\ p \in Seq(TextRows) /\ Len(p) = 0 + 1
          /\ \A i \in 1 .. 0 + 1 : p[i] = RowOf(m, i - 1) /\ RowOf(m, i - 1) \in TextRows
      BY <1>3, <3>1, PageTyped
    <3>3. p[1] = RowOf(m, 1 - 1) /\ RowOf(m, 1 - 1) \in TextRows
      <4> HIDE DEF p
      <4>1. QED
        BY <3>1, <3>2
    <3> HIDE DEF p, B
    <3>4. QED
      BY <2>1, <3>1, <3>2, <3>3 DEF B
  <2> HIDE DEF p, B
  <2>3. <<B>> \in Seq(TextRows) /\ Len(<<B>>) = 1 /\ <<B>>[1] = B
    BY <2>2
  <2>4. p = <<B>>
    BY <2>2, <2>3
  <2>5. QED
    BY <2>4 DEF p, B
<1>8. ViewOf(v) = Text!Fresh
  BY <1>5, <1>7, Zenon DEF ViewOf, Text!Fresh
<1>9. QED
  BY <1>6, <1>8 DEF v

-----------------------------------------------------------------------------
(* The line and its image.                                                    *)

(* What the display shows of a line whose last edit may not be echoed yet: a   *)
(* pending backspace is still to move the cursor over one more character, a    *)
(* pending character is still to be drawn.                                     *)
Imaged(w, l, echo) ==
  \/ l = <<>>
  \/ echo = <<>> /\ Image(w, l, 1)
  \/ echo = <<"BS">> /\ Image(w, l, 2)
  \/ \E k \in Keys : echo = <<k>> /\ l[Len(l)] = k /\ Image(w, l, 0)

InLine(l) == l \in Seq(Keys) /\ Len(l) <= MAX_LINE_LEN

LEMMA KeysAre ==
  /\ Keys \subseteq Printable /\ "BS" \notin Keys /\ "NL" \notin Keys /\ Events \subseteq Bytes
  /\ Keys \subseteq Chars
BY WriterAssumption DEF WriterAssumption, Keys, Events, Bytes, Chars

LEMMA EditedIs ==
  ASSUME NEW l, InLine(l), NEW e \in Events
  PROVE  /\ InLine(Edited(l, e))
         /\ e = "NL" => Edited(l, e) = <<>>
         /\ e = "BS" => Edited(l, e) = IF l = <<>> THEN l ELSE Front(l)
         /\ e \in Keys /\ Len(l) < MAX_LINE_LEN => Edited(l, e) = Append(l, e)
<1>1. MAX_LINE_LEN \in Nat /\ l \in Seq(Keys) /\ Len(l) \in Nat /\ Len(l) <= MAX_LINE_LEN
  BY EditorAssumption DEF EditorAssumption, InLine
<1>2. CASE e = "NL"
  <2>1. Edited(l, e) = <<>> /\ e # "BS" /\ e \notin Keys
    BY <1>2, KeysAre DEF Edited
  <2>2. <<>> \in Seq(Keys) /\ Len(<<>>) = 0
    OBVIOUS
  <2>3. QED
    BY <1>1, <2>1, <2>2 DEF InLine
<1>3. CASE e = "BS"
  <2>1. Edited(l, e) = (IF l = <<>> THEN l ELSE Front(l)) /\ e # "NL" /\ e \notin Keys
    BY <1>3, KeysAre DEF Edited
  <2>2. CASE l = <<>>
    BY <2>1, <2>2
  <2>3. CASE l # <<>>
    <3>1. Front(l) \in Seq(Keys) /\ Len(l) \in Nat \ {0} /\ Len(Front(l)) = Len(l) - 1
      BY <1>1, <2>3, FrontIs
    <3>2. InLine(Front(l))
      <4> DEFINE f == Front(l)
      <4> HIDE DEF f
      <4>1. f \in Seq(Keys) /\ Len(f) = Len(l) - 1
        BY <3>1 DEF f
      <4>2. InLine(f)
        BY <1>1, <4>1 DEF InLine
      <4>3. QED
        BY <4>2 DEF f
    <3>3. QED
      BY <2>1, <2>3, <3>2
  <2>4. QED
    BY <2>2, <2>3
<1>4. CASE e \in Keys
  <2>1. /\ Edited(l, e) = (IF Len(l) < MAX_LINE_LEN THEN Append(l, e) ELSE l)
        /\ e # "NL" /\ e # "BS"
    <3>1. e # "NL" /\ e # "BS"
      BY <1>4, KeysAre
    <3>2. QED
      BY <3>1 DEF Edited
  <2>2. Append(l, e) \in Seq(Keys) /\ Len(Append(l, e)) = Len(l) + 1
    BY <1>1, <1>4
  <2>3. Len(l) < MAX_LINE_LEN => InLine(Append(l, e))
    BY <1>1, <2>2 DEF InLine
  <2>4. QED
    BY <2>1, <2>3
<1>5. QED
  BY <1>2, <1>3, <1>4 DEF Events

LEMMA ImagedSettled ==
  ASSUME NEW w, NEW l, Imaged(w, l, <<>>)
  PROVE  Image(w, l, 1)
<1>1. CASE l = <<>>
  <2>1. DOMAIN l = {}
    BY <1>1
  <2>2. QED
    BY <2>1, Zenon DEF Image
<1>2. CASE l # <<>>
  <2>1. <<>> # <<"BS">> /\ \A k \in Keys : <<>> # <<k>>
    OBVIOUS
  <2>2. QED
    BY <1>2, <2>1, Zenon DEF Imaged
<1>3. QED
  BY <1>1, <1>2

(* An edit whose echo is still to come.                                       *)
LEMMA EditImaged ==
  ASSUME NEW w \in Screens, NEW l, InLine(l), NEW e \in Events,
         Imaged(w, l, <<>>), ~ Refused(l, e)
  PROVE  Imaged(w, Edited(l, e), Echo(l, e))
<1>1. MAX_LINE_LEN \in Nat /\ l \in Seq(Keys) /\ Len(l) \in Nat
  BY EditorAssumption DEF EditorAssumption, InLine
<1>2. Image(w, l, 1)
  BY ImagedSettled
<1>3. CASE e = "NL"
  <2>1. Edited(l, e) = <<>>
    BY <1>3, EditedIs
  <2>2. QED
    BY <2>1 DEF Imaged
<1>4. CASE e = "BS"
  <2>1. CASE l = <<>>
    <3>1. Edited(l, e) = <<>>
      BY <1>4, <2>1, EditedIs
    <3>2. QED
      BY <3>1 DEF Imaged
  <2>2. CASE l # <<>>
    <3>1. Edited(l, e) = Front(l) /\ Echo(l, e) = <<"BS">>
      BY <1>4, <2>2, EditedIs DEF Echo
    <3>2. Image(w, Front(l), 2)
      BY <1>1, <1>2, <2>2, ImageFront
    <3>3. QED
      BY <3>1, <3>2, Zenon DEF Imaged
  <2>3. QED
    BY <2>1, <2>2
<1>5. CASE e \in Keys
  <2>1. Len(l) < MAX_LINE_LEN
    BY <1>1, <1>5 DEF Refused
  <2>2. Edited(l, e) = Append(l, e) /\ Echo(l, e) = <<e>>
    BY <1>5, <2>1, EditedIs, KeysAre DEF Echo
  <2>3. Image(w, Append(l, e), 0)
    BY <1>1, <1>2, <1>5, ImageAppend
  <2>4. Append(l, e)[Len(Append(l, e))] = e
    BY <1>1, <1>5
  <2>5. QED
    BY <1>5, <2>2, <2>3, <2>4, Zenon DEF Imaged
<1>6. QED
  BY <1>3, <1>4, <1>5 DEF Events

(* The echo.                                                                  *)
LEMMA EchoImaged ==
  ASSUME NEW w \in Screens, NEW l, InLine(l), NEW e \in Events,
         Imaged(w, l, <<e>>), ~ (e = "BS" /\ w.column = 0)
  PROVE  Imaged(Writes(w, <<e>>), l, <<>>)
<1>1. e \in Bytes /\ l \in Seq(Keys) /\ "NL" \notin Printable /\ "BS" \notin Printable
  BY KeysAre, WriterAssumption DEF InLine, WriterAssumption
<1>2. Writes(w, <<e>>) = WriteByte(w, e)
  BY <1>1, WritesOne
<1>3. CASE l = <<>>
  BY <1>3 DEF Imaged
<1>4. CASE l # <<>>
  <2>1. \/ e = "BS" /\ Image(w, l, 2)
        \/ e \in Keys /\ l[Len(l)] = e /\ Image(w, l, 0)
    <3>1. <<e>> # <<>> /\ (<<e>> = <<"BS">> => e = "BS") /\ \A k : <<e>> = <<k>> => e = k
      OBVIOUS
    <3>2. QED
      BY <1>4, <3>1, Zenon DEF Imaged
  <2>2. CASE e = "BS" /\ Image(w, l, 2)
    <3>1. WriteByte(w, e) = Backspace(w)
      BY <1>1, <2>2 DEF WriteByte
    <3>2. Image(Backspace(w), l, 1)
      BY <1>1, <2>2, ImageBack
    <3>3. QED
      BY <1>2, <3>1, <3>2, Zenon DEF Imaged
  <2>3. CASE e \in Keys /\ l[Len(l)] = e /\ Image(w, l, 0)
    <3>1. e \in Printable /\ e \in Chars /\ e # "NL" /\ e # "BS"
      BY <1>1, <2>3, KeysAre
    <3>2. WriteByte(w, e) = PutByte(w, e)
      BY <3>1 DEF WriteByte
    <3>3. Image(PutByte(w, e), l, 1)
      BY <1>1, <1>4, <2>3, <3>1, ImagePut
    <3>4. QED
      BY <1>2, <3>2, <3>3, Zenon DEF Imaged
  <2>4. QED
    BY <2>1, <2>2, <2>3
<1>5. QED
  BY <1>3, <1>4

-----------------------------------------------------------------------------
(* The inductive invariant: the Writer is between two bytes, the line is      *)
(* within its limit, and while nothing has come between them the display      *)
(* shows the line, up to the echo that is pending.                            *)

ScreenOK  == Writer \in Screens
LineOK    == InLine(line) /\ faithful \in BOOLEAN
PendingOK == pending \in {<<>>} \cup {<<e>> : e \in Events}
ImageOK   == faithful => Imaged(Writer, line, pending)

EditorInv == ScreenOK /\ LineOK /\ PendingOK /\ ImageOK

LEMMA WriterIs ==
  Writer.mem = mem /\ Writer.column = column /\ Writer.row = row
BY DEF Writer

LEMMA StoreIs ==
  ASSUME NEW w \in Screens, Store(w)
  PROVE  Writer' = w
<1>1. w = [mem |-> w.mem, column |-> w.column, row |-> w.row]
  BY ScreenFields DEF Writers
<1>2. QED
  BY <1>1 DEF Store, Writer

LEMMA OutputIs ==
  ASSUME ScreenOK, NEW text \in Seq(Bytes), Output(text)
  PROVE  Writer' = Writes(Writer, text) /\ ScreenOK'
<1>1. Writes(Writer, text) \in Screens
  BY WritesView DEF ScreenOK
<1>2. Store(Writes(Writer, text))
  BY DEF Output, Writes
<1>3. Writer' = Writes(Writer, text)
  BY <1>1, <1>2, StoreIs
<1>4. QED
  BY <1>1, <1>3 DEF ScreenOK

LEMMA EchoTyped ==
  ASSUME NEW l, NEW e \in Events
  PROVE  /\ Echo(l, e) \in {<<>>} \cup {<<k>> : k \in Events}
         /\ Echo(l, e) \in Seq(Bytes)
         /\ Echo(l, e) = <<>> => e = "BS" /\ l = <<>>
         /\ Echo(l, e) # <<>> => Echo(l, e) = <<e>>
BY KeysAre DEF Echo

LEMMA EditorInit == Init => EditorInv
<1>1. SUFFICES ASSUME Init PROVE EditorInv
  OBVIOUS
<1> DEFINE junk == [y \in Lines |-> [x \in Cols |-> Junk]]
           u == [mem |-> junk]
           w == ClearScreen(u)
<1>2. u.mem \in Memory
  <2>1. 0 \in 0 .. GLYPH_HEIGHT - 1
    BY Sizes
  <2>2. junk \in Memory
    BY <2>1 DEF Memory, Junk, Slices, Chars
  <2>3. QED
    BY <2>2
<1>3. mem = w.mem /\ column = w.column /\ row = w.row
  BY <1>1, Zenon DEF Init, InitWriter
<1> HIDE DEF u
<1>4. w \in Screens
  BY <1>2, ClearIs
<1> HIDE DEF w
<1>5. Writer = w
  <2>1. w = [mem |-> w.mem, column |-> w.column, row |-> w.row]
    BY <1>4, ScreenFields DEF Writers
  <2>2. QED
    BY <1>3, <2>1 DEF Writer
<1>6. line = <<>> /\ pending = <<>> /\ faithful = TRUE
  BY <1>1 DEF Init
<1>7. InLine(<<>>)
  BY EditorAssumption DEF EditorAssumption, InLine
<1>8. QED
  BY <1>4, <1>5, <1>6, <1>7 DEF EditorInv, ScreenOK, LineOK, PendingOK, ImageOK, Imaged

LEMMA IsrEditStep ==
  ASSUME EditorInv, NEW e \in Events, IsrEdit(e)
  PROVE  EditorInv'
<1>1. ScreenOK /\ InLine(line) /\ PendingOK /\ ImageOK
  BY DEF EditorInv, LineOK
<1> DEFINE w == Writer
           echo == Echo(line, e)
<1>2. /\ line' = Edited(line, e) /\ Output(echo) /\ pending' = pending
      /\ faithful' = (line' = <<>> \/ (faithful /\ pending = <<>> /\ ~ Refused(line, e) /\ ~ Stuck(echo)))
  BY DEF IsrEdit, Remember
<1>3. Writer' = Writes(w, echo) /\ ScreenOK'
  BY <1>1, <1>2, EchoTyped, OutputIs
<1>4. LineOK'
  <2>1. InLine(Edited(line, e))
    BY <1>1, EditedIs
  <2>2. QED
    BY <1>2, <2>1 DEF LineOK
<1>5. PendingOK'
  BY <1>1, <1>2 DEF PendingOK
<1>6. ASSUME faithful', line' # <<>> PROVE Imaged(Writer', line', pending')
  <2>1. faithful /\ pending = <<>> /\ ~ Refused(line, e) /\ ~ Stuck(echo)
    BY <1>2, <1>6
  <2>2. Imaged(w, line, <<>>) /\ w \in Screens
    BY <1>1, <2>1 DEF ImageOK, ScreenOK
  <2>3. Imaged(w, line', echo)
    BY <1>1, <1>2, <2>1, <2>2, EditImaged
  <2>4. echo = <<e>>
    <3>1. SUFFICES ASSUME echo = <<>> PROVE FALSE
      BY EchoTyped
    <3>2. e = "BS" /\ line = <<>>
      BY <3>1, EchoTyped
    <3>3. Edited(line, e) = <<>>
      BY <1>1, <3>2, EditedIs
    <3>4. QED
      BY <1>2, <1>6, <3>3
  <2>5. ~ (e = "BS" /\ w.column = 0)
    BY <2>1, <2>4, WriterIs DEF Stuck
  <2>6. InLine(line')
    BY <1>4 DEF LineOK
  <2> HIDE DEF w, echo
  <2>7. Imaged(Writes(w, <<e>>), line', <<>>)
    BY <2>2, <2>3, <2>4, <2>5, <2>6, EchoImaged
  <2>8. QED
    BY <1>2, <1>3, <2>1, <2>4, <2>7
<1>7. ImageOK'
  <2>1. line' = <<>> => Imaged(Writer', line', pending')
    BY DEF Imaged
  <2>2. QED
    BY <1>6, <2>1 DEF ImageOK
<1>8. QED
  BY <1>3, <1>4, <1>5, <1>7 DEF EditorInv

LEMMA ShellEditStep ==
  ASSUME EditorInv, NEW e \in Events, ShellEdit(e)
  PROVE  EditorInv'
<1>1. ScreenOK /\ InLine(line) /\ PendingOK /\ ImageOK
  BY DEF EditorInv, LineOK
<1>2. /\ pending = <<>> /\ line' = Edited(line, e) /\ pending' = Echo(line, e)
      /\ faithful' = (line' = <<>> \/ (faithful /\ ~ Refused(line, e)))
      /\ mem' = mem /\ column' = column /\ row' = row
  BY DEF ShellEdit, Remember, writerVars
<1>3. Writer' = Writer
  BY <1>2 DEF Writer
<1>4. ScreenOK'
  BY <1>1, <1>3 DEF ScreenOK
<1>5. LineOK'
  <2>1. InLine(Edited(line, e))
    BY <1>1, EditedIs
  <2>2. QED
    BY <1>2, <2>1 DEF LineOK
<1>6. PendingOK'
  BY <1>2, EchoTyped DEF PendingOK
<1>7. ImageOK'
  <2>1. line' = <<>> => Imaged(Writer', line', pending')
    BY DEF Imaged
  <2>2. ASSUME faithful', line' # <<>> PROVE Imaged(Writer', line', pending')
    <3>1. faithful /\ ~ Refused(line, e)
      BY <1>2, <2>2
    <3>2. Imaged(Writer, line, <<>>) /\ Writer \in Screens
      BY <1>1, <1>2, <3>1 DEF ImageOK, ScreenOK
    <3>3. Imaged(Writer, Edited(line, e), Echo(line, e))
      BY <1>1, <3>1, <3>2, EditImaged
    <3>4. QED
      BY <1>2, <1>3, <3>3
  <2>3. QED
    BY <2>1, <2>2 DEF ImageOK
<1>8. QED
  BY <1>4, <1>5, <1>6, <1>7 DEF EditorInv

LEMMA ShellEchoStep ==
  ASSUME EditorInv, ShellEcho
  PROVE  EditorInv'
<1>1. ScreenOK /\ InLine(line) /\ PendingOK /\ ImageOK
  BY DEF EditorInv, LineOK
<1>2. /\ pending # <<>> /\ Output(pending) /\ pending' = <<>> /\ line' = line
      /\ faithful' = (line' = <<>> \/ (faithful /\ ~ Stuck(pending)))
  BY DEF ShellEcho, Remember
<1>3. PICK e \in Events : pending = <<e>>
  BY <1>1, <1>2 DEF PendingOK
<1>4. Writer' = Writes(Writer, <<e>>) /\ ScreenOK'
  <2>1. <<e>> \in Seq(Bytes)
    BY KeysAre
  <2>2. QED
    BY <1>1, <1>2, <1>3, <2>1, OutputIs
<1>5. LineOK' /\ PendingOK'
  BY <1>1, <1>2 DEF LineOK, PendingOK
<1>6. ImageOK'
  <2>1. line' = <<>> => Imaged(Writer', line', pending')
    BY DEF Imaged
  <2>2. ASSUME faithful', line' # <<>> PROVE Imaged(Writer', line', pending')
    <3>1. faithful /\ ~ Stuck(<<e>>)
      BY <1>2, <1>3, <2>2
    <3>2. ~ (e = "BS" /\ Writer.column = 0)
      BY <3>1, WriterIs DEF Stuck
    <3>3. Imaged(Writer, line, <<e>>) /\ Writer \in Screens
      BY <1>1, <1>3, <3>1 DEF ImageOK, ScreenOK
    <3>4. Imaged(Writes(Writer, <<e>>), line, <<>>)
      BY <1>1, <3>2, <3>3, EchoImaged
    <3>5. QED
      BY <1>2, <1>4, <3>4
  <2>3. QED
    BY <2>1, <2>2 DEF ImageOK
<1>7. QED
  BY <1>4, <1>5, <1>6 DEF EditorInv

(* The shell's output and clear end the image of a line that is not empty.    *)
LEMMA PrintStep ==
  ASSUME EditorInv, ScreenOK', line' = line, pending' = pending, Remember(FALSE)
  PROVE  EditorInv'
<1>1. LineOK' /\ PendingOK'
  BY DEF EditorInv, LineOK, PendingOK, Remember
<1>2. ImageOK'
  BY DEF Remember, ImageOK, Imaged
<1>3. QED
  BY <1>1, <1>2 DEF EditorInv

LEMMA ShellPrintStep ==
  ASSUME EditorInv, NEW text \in Outputs, ShellPrint(text)
  PROVE  EditorInv'
<1>1. text \in Seq(Bytes)
  BY EditorAssumption DEF EditorAssumption
<1>2. ScreenOK'
  BY <1>1, OutputIs DEF EditorInv, ShellPrint
<1>3. QED
  BY <1>2, PrintStep DEF ShellPrint

LEMMA ClearCommandStep ==
  ASSUME EditorInv, ClearCommand
  PROVE  EditorInv' /\ Writer' = ClearScreen(Writer)
<1>1. Writer.mem \in Memory
  BY ScreenFields DEF EditorInv, ScreenOK
<1>2. ClearScreen(Writer) \in Screens
  BY <1>1, ClearIs
<1>3. Writer' = ClearScreen(Writer)
  BY <1>2, StoreIs DEF ClearCommand
<1>4. ScreenOK'
  BY <1>2, <1>3 DEF ScreenOK
<1>5. QED
  BY <1>3, <1>4, PrintStep DEF ClearCommand

LEMMA EditorStep == EditorInv /\ [Next]_vars => EditorInv'
<1>1. SUFFICES ASSUME EditorInv, [Next]_vars PROVE EditorInv'
  OBVIOUS
<1>2. ASSUME NEW e \in Events, IsrEdit(e) PROVE EditorInv'
  BY <1>1, <1>2, IsrEditStep
<1>3. ASSUME NEW e \in Events, ShellEdit(e) PROVE EditorInv'
  BY <1>1, <1>3, ShellEditStep
<1>4. CASE ShellEcho
  BY <1>1, <1>4, ShellEchoStep
<1>5. ASSUME NEW text \in Outputs, ShellPrint(text) PROVE EditorInv'
  BY <1>1, <1>5, ShellPrintStep
<1>6. CASE ClearCommand
  BY <1>1, <1>6, ClearCommandStep
<1>7. CASE UNCHANGED vars
  <2>1. /\ mem' = mem /\ column' = column /\ row' = row /\ line' = line
        /\ pending' = pending /\ faithful' = faithful
    BY <1>7 DEF vars, writerVars
  <2>2. Writer' = Writer
    BY <2>1 DEF Writer
  <2>3. QED
    BY <1>1, <2>1, <2>2 DEF EditorInv, ScreenOK, LineOK, PendingOK, ImageOK
<1>8. QED
  BY <1>1, <1>2, <1>3, <1>4, <1>5, <1>6, <1>7 DEF Next

LEMMA EditorInvariant == Spec => []EditorInv
<1>1. Init => EditorInv
  BY EditorInit
<1>2. EditorInv /\ [Next]_vars => EditorInv'
  BY EditorStep
<1>3. QED
  BY <1>1, <1>2, PTL DEF Spec

-----------------------------------------------------------------------------
(* The theorems.                                                              *)

(* The cursor never leaves the display, every slice of the framebuffer is a   *)
(* slice of some glyph, and the line keeps its limit: for every size of the   *)
(* display and whatever is typed and printed.                                 *)
THEOREM CursorOnDisplay == Spec => []TypeOK
<1>1. EditorInv => TypeOK
  <2>1. SUFFICES ASSUME EditorInv PROVE TypeOK
    OBVIOUS
  <2>2. mem \in Memory /\ column \in 0 .. COLUMNS /\ row \in Nat /\ row < ROWS
    <3>1. Writer \in Screens
      BY <2>1 DEF EditorInv, ScreenOK
    <3>2. QED
      BY <3>1, ScreenFields, WriterIs
  <2>3. row \in 0 .. ROWS - 1
    BY <2>2, RowsFit
  <2>4. \A y \in Lines, x \in Cols : mem[y][x] \in Slices
    BY <2>2 DEF Memory
  <2>5. QED
    BY <2>1, <2>2, <2>3, <2>4, Zenon
    DEF TypeOK, Slices, Chars, EditorInv, LineOK, InLine, PendingOK
<1>2. QED
  BY <1>1, EditorInvariant, PTL

(* Everything after the cursor is blank, also the lines left over below the   *)
(* last text row, however often scroll has moved the framebuffer.             *)
THEOREM ScrollsClean == Spec => []NothingBelowCursor
<1>1. EditorInv => NothingBelowCursor
  <2>1. SUFFICES ASSUME EditorInv, NEW y \in 0 .. HEIGHT - 1, NEW x \in Cols,
                        y \div GLYPH_HEIGHT > row \/ (y \div GLYPH_HEIGHT = row /\ x >= column)
                 PROVE  mem[y][x] = Background
    BY DEF NothingBelowCursor
  <2>2. row \in Nat /\ BlankAfter(mem, row, column)
    <3>1. Writer \in Screens
      BY <2>1 DEF EditorInv, ScreenOK
    <3>2. QED
      BY <3>1, ScreenFields, WriterIs
  <2> DEFINE q == y \div GLYPH_HEIGHT
  <2>3. y \in Nat /\ y \in Lines /\ y < HEIGHT /\ GLYPH_HEIGHT \in Nat \ {0}
    BY Sizes DEF Lines
  <2>4. q \in Nat /\ Top(q) <= y
    BY <2>3, Division DEF Top
  <2> HIDE DEF q
  <2>5. Top(q) \in Nat /\ Top(row) \in Nat
    BY <2>2, <2>4, Tops
  <2>6. Beyond(row, column, y, x)
    <3>1. CASE q > row
      <4>1. Top(row) + GLYPH_HEIGHT <= Top(q)
        BY <2>2, <2>4, <3>1, TopsGrow
      <4>2. y >= Top(row) + GLYPH_HEIGHT
        BY <2>3, <2>4, <2>5, <4>1
      <4>3. QED
        BY <4>2 DEF Beyond
    <3>2. CASE q = row /\ x >= column
      BY <2>3, <2>4, <2>5, <3>2 DEF Beyond
    <3>3. QED
      BY <2>1, <3>1, <3>2 DEF q
  <2>7. QED
    BY <2>2, <2>3, <2>6, Zenon DEF BlankAfter
<1>2. QED
  BY <1>1, EditorInvariant, PTL

(* What stands before the cursor is the line that Enter would commit, through *)
(* wrapping and scrolling, unless one of the four known things has come       *)
(* between them since the line was empty.                                     *)
THEOREM LineIsShown == Spec => []LineOnScreen
<1>1. EditorInv => LineOnScreen
  <2>1. SUFFICES ASSUME EditorInv, pending = <<>>, faithful, NEW i \in DOMAIN line,
                        (Len(line) - i) + 1 <= Position
                 PROVE  CellAt(Position - ((Len(line) - i) + 1)) = line[i]
    BY DEF LineOnScreen
  <2> DEFINE w == Writer
             back == (Len(line) - i) + 1
  <2>2. w \in Screens /\ Image(w, line, 1)
    BY <2>1, ImagedSettled DEF EditorInv, ScreenOK, ImageOK
  <2>3. PosOf(w) = Position /\ \A p : PlaceOf(w, p) = CellAt(p)
    BY WriterIs, CellIs DEF PosOf, Position, PlaceOf, CellAt
  <2> HIDE DEF w
  <2>4. Position \in Nat
    BY <2>2, <2>3, PosIs
  <2>5. line \in Seq(Keys) /\ Len(line) \in Nat /\ i \in 1 .. Len(line)
    BY <2>1 DEF EditorInv, LineOK, InLine
  <2>6. back \in 1 .. Position /\ back + i = Len(line) + 1
    BY <2>1, <2>4, <2>5
  <2> HIDE DEF back
  <2>7. PlaceOf(w, Position - back) = line[i]
    BY <2>2, <2>3, <2>6 DEF Image
  <2>8. QED
    BY <2>3, <2>7 DEF back
<1>2. QED
  BY <1>1, EditorInvariant, PTL

-----------------------------------------------------------------------------
(* The refinement of TextScreen.                                              *)

ThePage == [r \in 1 .. row + 1 |-> [x \in 1 .. COLUMNS |-> Cell(r - 1, x - 1)]]

LEMMA PageIs ==
  /\ ThePage = ViewOf(Writer).page /\ column = ViewOf(Writer).col
  /\ ThePage' = ViewOf(Writer').page /\ column' = ViewOf(Writer').col
<1>1. ThePage = PageOf(mem, row)
  BY Zenon DEF ThePage, PageOf, RowOf, Cell, CellOf, Top
<1>2. ThePage' = PageOf(mem', row')
  BY Zenon DEF ThePage, PageOf, RowOf, Cell, CellOf, Top
<1>3. Writer' = [mem |-> mem', column |-> column', row |-> row']
  BY DEF Writer
<1>4. QED
  BY <1>1, <1>2, <1>3 DEF ViewOf, Writer

(* FoldLeft is the same in TextScreen and here.                              *)
LEMMA SameFold ==
  ASSUME NEW t, NEW text
  PROVE  Text!FoldLeft(Text!After, t, text) = Afters(t, text)
BY Zenon DEF Afters, FoldLeft, MapThenFoldSet, Max,
             Text!FoldLeft, Text!MapThenFoldSet, Text!Max

LEMMA TextStep ==
  ASSUME EditorInv, [Next]_vars
  PROVE  [Text!Next]_<<ThePage, column>>
<1> DEFINE t == [page |-> ThePage, col |-> column]
<1>1. Writer \in Screens
  BY DEF EditorInv, ScreenOK
<1>2. t = ViewOf(Writer)
  BY PageIs DEF ViewOf
<1>3. ASSUME NEW text \in Outputs \cup {<<e>> : e \in Events}, Output(text)
      PROVE  Text!Next
  <2>1. text \in Seq(Bytes)
    <3>1. CASE text \in Outputs
      BY <3>1, EditorAssumption DEF EditorAssumption
    <3>2. ASSUME NEW e \in Events, text = <<e>> PROVE text \in Seq(Bytes)
      BY <3>2, KeysAre
    <3>3. QED
      BY <3>1, <3>2
  <2>2. Writer' = Writes(Writer, text)
    BY <1>3, <2>1, OutputIs DEF EditorInv
  <2>3. ViewOf(Writer') = Afters(t, text)
    BY <1>1, <1>2, <2>1, <2>2, WritesView
  <2>4. ThePage' = Afters(t, text).page /\ column' = Afters(t, text).col
    BY <2>3, PageIs
  <2>5. Text!Write(text)
    BY <2>4, SameFold, Zenon DEF Text!Write, Text!Show, ThePage
  <2>6. QED
    BY <2>5 DEF Text!Next
<1>4. ASSUME mem' = mem, column' = column, row' = row
      PROVE  UNCHANGED <<ThePage, column>>
  BY <1>4, PageIs DEF Writer
<1>5. ASSUME NEW e \in Events, IsrEdit(e) PROVE [Text!Next]_<<ThePage, column>>
  <2>1. Output(Echo(line, e))
    BY <1>5 DEF IsrEdit
  <2>2. CASE Echo(line, e) = <<>>
    <3>0. Output(<<>>) /\ <<>> \in Seq(Bytes) /\ ScreenOK
      BY <2>1, <2>2 DEF EditorInv
    <3>1. Writer' = Writes(Writer, <<>>)
      BY <3>0, OutputIs
    <3>2. Writer' = Writer
      BY <1>1, <3>1, WritesNothing
    <3>3. mem' = mem /\ column' = column /\ row' = row
      BY <3>2, WriterIs DEF Writer
    <3>4. QED
      BY <1>4, <3>3
  <2>3. CASE Echo(line, e) # <<>>
    <3>1. Echo(line, e) = <<e>>
      BY <2>3, EchoTyped
    <3>2. QED
      BY <1>3, <2>1, <3>1
  <2>4. QED
    BY <2>2, <2>3
<1>6. ASSUME NEW e \in Events, ShellEdit(e) PROVE [Text!Next]_<<ThePage, column>>
  BY <1>4, <1>6 DEF ShellEdit, writerVars
<1>7. CASE ShellEcho
  <2>1. pending # <<>> /\ Output(pending)
    BY <1>7 DEF ShellEcho
  <2>2. pending \in {<<e>> : e \in Events}
    BY <2>1 DEF EditorInv, PendingOK
  <2>3. QED
    BY <1>3, <2>1, <2>2
<1>8. ASSUME NEW text \in Outputs, ShellPrint(text) PROVE [Text!Next]_<<ThePage, column>>
  BY <1>3, <1>8 DEF ShellPrint
<1>9. CASE ClearCommand
  <2>1. Writer.mem \in Memory
    BY <1>1, ScreenFields
  <2>2. Writer' = ClearScreen(Writer)
    BY <1>9, ClearCommandStep
  <2>3. ViewOf(Writer') = Text!Fresh
    BY <2>1, <2>2, ClearIs
  <2>4. ThePage' = Text!Fresh.page /\ column' = Text!Fresh.col
    BY <2>3, PageIs
  <2>5. Text!Clear
    BY <2>4 DEF Text!Clear, Text!Show, ThePage
  <2>6. QED
    BY <2>5 DEF Text!Next
<1>10. CASE UNCHANGED vars
  BY <1>4, <1>10 DEF vars, writerVars
<1>11. QED
  BY <1>5, <1>6, <1>7, <1>8, <1>9, <1>10 DEF Next

(* The Writer implements a page of text: whatever is printed, drawing, moving *)
(* and clearing pixel lines shows what the text console promises, for every   *)
(* size of the display and of the framebuffer behind it.                      *)
THEOREM WriterIsTextScreen == Spec => ImplementsText
<1>1. Init => Text!Init
  <2>1. SUFFICES ASSUME Init PROVE Text!Init
    OBVIOUS
  <2> DEFINE u == [mem |-> [y \in Lines |-> [x \in Cols |-> Junk]]]
  <2>2. u.mem \in Memory
    <3>1. 0 \in 0 .. GLYPH_HEIGHT - 1
      BY Sizes
    <3>2. QED
      BY <3>1 DEF Memory, Junk, Slices, Chars
  <2>3. Writer \in Screens
    BY <2>1, EditorInit DEF EditorInv, ScreenOK
  <2>4. mem = ClearScreen(u).mem /\ column = ClearScreen(u).column /\ row = ClearScreen(u).row
    BY <2>1, Zenon DEF Init, InitWriter
  <2> HIDE DEF u
  <2>5. ClearScreen(u) \in Screens /\ ViewOf(ClearScreen(u)) = Text!Fresh
    BY <2>2, ClearIs
  <2>6. Writer = ClearScreen(u)
    BY <2>4 DEF Writer, ClearScreen
  <2>7. ThePage = Text!Fresh.page /\ column = Text!Fresh.col
    BY <2>5, <2>6, PageIs
  <2>8. QED
    BY <2>7 DEF Text!Init, ThePage
<1>2. EditorInv /\ [Next]_vars => [Text!Next]_<<ThePage, column>>
  BY TextStep
<1>3. QED
  BY <1>1, <1>2, EditorInvariant, PTL DEF Spec, ImplementsText, Text!Spec, ThePage
=============================================================================
