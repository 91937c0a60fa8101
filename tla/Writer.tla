------------------------------- MODULE Writer -------------------------------
(***************************************************************************)
(* The framebuffer console of src/src/vga_buffer.rs: a Writer that draws   *)
(* glyphs into memory it shares with the display and scrolls by moving     *)
(* that memory.                                                            *)
(*                                                                         *)
(* Memory is a function from pixel lines and text columns to slices: a     *)
(* slice is the part of one glyph on one pixel line. The lines from HEIGHT *)
(* on belong to the framebuffer and are not on the display; the lines that *)
(* are left over below the last text row are. Colours and pixel formats    *)
(* change no slice's shape and are left out.                               *)
(***************************************************************************)
EXTENDS Naturals, Sequences, SequencesExt

CONSTANTS
  GLYPH_HEIGHT,  (* pixel lines of a glyph (16 in the code)                  *)
  COLUMNS,       (* width / GLYPH_WIDTH                                      *)
  HEIGHT,        (* pixel lines of the display                               *)
  LINES,         (* pixel lines in byte_len bytes                            *)
  Printable      (* the bytes 0x20 ..= 0x7e                                  *)

ASSUME WriterAssumption ==
  /\ {GLYPH_HEIGHT, COLUMNS, HEIGHT, LINES} \subseteq Nat \ {0}
  /\ HEIGHT >= GLYPH_HEIGHT
  /\ LINES >= HEIGHT           (* asserted by Writer::init                    *)
  /\ {"NL", "BS"} \cap Printable = {}

VARIABLES
  mem,     (* the framebuffer                                                *)
  column,  (* Writer::column                                                 *)
  row      (* Writer::row                                                    *)

writerVars == <<mem, column, row>>

ROWS  == HEIGHT \div GLYPH_HEIGHT
Lines == 0 .. LINES - 1
Cols  == 0 .. COLUMNS - 1

(* The bytes of a text; "other" stands for those that write_string replaces.  *)
Bytes == Printable \cup {"NL", "BS", "other"}

Background == <<"space", 0>>
Junk       == <<"junk", 0>>
Slice(c, glyph_y) == IF c = "space" THEN Background ELSE <<c, glyph_y>>

Writer == [mem |-> mem, column |-> column, row |-> row]

-----------------------------------------------------------------------------
DrawGlyph(w, c) ==
  LET top == w.row * GLYPH_HEIGHT
  IN  [w EXCEPT !.mem = [y \in Lines |->
         IF y \in top .. top + GLYPH_HEIGHT - 1 /\ y < HEIGHT
         THEN [@[y] EXCEPT ![w.column] = Slice(c, y - top)]
         ELSE @[y]]]

BlankLine == [x \in Cols |-> Background]

(* The bytes move up by one text row as far as the framebuffer reaches, then *)
(* the last GLYPH_HEIGHT lines of the display are cleared.                    *)
Moved(m) == [y \in Lines |-> IF y + GLYPH_HEIGHT < LINES THEN m[y + GLYPH_HEIGHT] ELSE m[y]]

(* Mutation: the text row is cleared instead of the last lines.              *)
ClearedTextRow == (ROWS - 1) * GLYPH_HEIGHT .. ROWS * GLYPH_HEIGHT - 1

ClearedByScroll == HEIGHT - GLYPH_HEIGHT .. HEIGHT - 1

Scroll(w) ==
  LET moved == Moved(w.mem)
  IN  [w EXCEPT !.mem = [y \in Lines |-> IF y \in ClearedByScroll THEN BlankLine ELSE moved[y]],
                !.row = ROWS - 1]

ScrollIfBelow(w) == IF w.row >= ROWS THEN Scroll(w) ELSE w

(* Mutation: the scroll is left to the next character.                       *)
NewLineWithoutScroll(w) == [w EXCEPT !.column = 0, !.row = @ + 1]

NewLine(w) == ScrollIfBelow([w EXCEPT !.column = 0, !.row = @ + 1])

(* Mutation: the cursor goes back, the glyph stays.                          *)
BackspaceMovesOnly(w) == IF w.column = 0 THEN w ELSE [w EXCEPT !.column = @ - 1]

Backspace(w) ==
  IF w.column = 0 THEN w ELSE DrawGlyph([w EXCEPT !.column = @ - 1], "space")

(* A full row is left only when the next character comes.                    *)
PutByte(w, c) ==
  LET at == ScrollIfBelow(IF w.column >= COLUMNS THEN NewLine(w) ELSE w)
  IN  [DrawGlyph(at, c) EXCEPT !.column = @ + 1]

(* write_string sends every other byte as 0xfe to write_byte.                *)
WriteByte(w, byte) ==
  CASE byte = "NL"        -> NewLine(w)
    [] byte = "BS"        -> Backspace(w)
    [] byte \in Printable -> PutByte(w, byte)
    [] OTHER              -> PutByte(w, "box")

ClearScreen(w) ==
  [mem |-> [y \in Lines |-> IF y < HEIGHT THEN BlankLine ELSE w.mem[y]],
   column |-> 0, row |-> 0]

Store(w) == mem' = w.mem /\ column' = w.column /\ row' = w.row

(* print! of some text: one section under the WRITER lock.                   *)
Output(text) == Store(FoldLeft(WriteByte, Writer, text))

(* What Writer::init leaves of a framebuffer the firmware has drawn on.      *)
InitWriter ==
  LET w == ClearScreen([mem |-> [y \in Lines |-> [x \in Cols |-> Junk]]])
  IN  mem = w.mem /\ column = w.column /\ row = w.row

-----------------------------------------------------------------------------
(* The character a cell of the display shows, when all its slices belong     *)
(* together.                                                                 *)
Cell(r, x) ==
  LET c == mem[r * GLYPH_HEIGHT][x][1]
  IN  IF \A g \in 0 .. GLYPH_HEIGHT - 1 : mem[r * GLYPH_HEIGHT + g][x] = Slice(c, g)
      THEN c ELSE "garbled"

(* Everything on the display after the cursor is blank: the rest of its row,  *)
(* the rows below and the lines left over below the last row, however often   *)
(* memory was moved with what the firmware left behind the display.           *)
NothingBelowCursor ==
  \A y \in 0 .. HEIGHT - 1, x \in Cols :
    (y \div GLYPH_HEIGHT > row \/ (y \div GLYPH_HEIGHT = row /\ x >= column))
      => mem[y][x] = Background
=============================================================================
