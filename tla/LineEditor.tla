----------------------------- MODULE LineEditor -----------------------------
(***************************************************************************)
(* The line being edited (src/src/input.rs) and its image on the display:  *)
(* every edit is echoed through the Writer, by a handler at once, by the   *)
(* polling shell in a later section. The shell also prints its prompt and  *)
(* the output of commands in between, and clears the screen.               *)
(***************************************************************************)
EXTENDS Writer

CONSTANTS
  MAX_LINE_LEN,  (* characters in a line (128 in the code)                   *)
  Outputs        (* what the shell prints: prompts, output of commands       *)

ASSUME EditorAssumption == MAX_LINE_LEN \in Nat /\ Outputs \subseteq Seq(Bytes)

VARIABLES
  line,     (* InputBuffer::line                                             *)
  pending,  (* the echo of an edit the shell has made and not yet printed    *)
  faithful  (* history: nothing has come between the line and its image      *)

vars == <<writerVars, line, pending, faithful>>

Keys   == {k \in Printable : k # "space"}
Events == Keys \cup {"BS", "NL"}

Init == InitWriter /\ line = <<>> /\ pending = <<>> /\ faithful = TRUE

-----------------------------------------------------------------------------
(* Mutation: backspace takes the oldest character.                           *)
EditedAtFront(l, e) ==
  CASE e = "NL" -> <<>>
    [] e = "BS" -> IF l = <<>> THEN l ELSE Tail(l)
    [] OTHER    -> IF Len(l) < MAX_LINE_LEN THEN Append(l, e) ELSE l

(* push_char, backspace and commit_line.                                     *)
Edited(l, e) ==
  CASE e = "NL" -> <<>>
    [] e = "BS" -> IF l = <<>> THEN l ELSE Front(l)
    [] OTHER    -> IF Len(l) < MAX_LINE_LEN THEN Append(l, e) ELSE l

(* A backspace on an empty line is not echoed, a refused character is.       *)
Echo(l, e) == IF e = "BS" /\ l = <<>> THEN <<>> ELSE <<e>>

Refused(l, e) == e \in Keys /\ Len(l) >= MAX_LINE_LEN
Stuck(text)   == text = <<"BS">> /\ column = 0

(* An empty line has a faithful image anywhere.                              *)
Remember(ok) == faithful' = (line' = <<>> \/ (faithful /\ ok))

(* handle_key_event in a handler.                                            *)
IsrEdit(e) ==
  /\ line' = Edited(line, e)
  /\ Output(Echo(line, e))
  /\ Remember(pending = <<>> /\ ~ Refused(line, e) /\ ~ Stuck(Echo(line, e)))
  /\ UNCHANGED pending

(* handle_input_event and handle_key_event in the shell: edit, then echo.    *)
ShellEdit(e) ==
  /\ pending = <<>>
  /\ line' = Edited(line, e)
  /\ pending' = Echo(line, e)
  /\ Remember(~ Refused(line, e))
  /\ UNCHANGED writerVars

ShellEcho ==
  /\ pending # <<>>
  /\ Output(pending)
  /\ pending' = <<>>
  /\ UNCHANGED line
  /\ Remember(~ Stuck(pending))

ShellPrint(text) ==
  /\ pending = <<>>
  /\ Output(text)
  /\ UNCHANGED <<line, pending>>
  /\ Remember(FALSE)

ClearCommand ==
  /\ pending = <<>>
  /\ Store(ClearScreen(Writer))
  /\ UNCHANGED <<line, pending>>
  /\ Remember(FALSE)

-----------------------------------------------------------------------------
Next == \/ \E e \in Events : IsrEdit(e) \/ ShellEdit(e)
        \/ ShellEcho
        \/ \E text \in Outputs : ShellPrint(text)
        \/ ClearCommand

Spec == Init /\ [][Next]_vars

-----------------------------------------------------------------------------
TypeOK ==
  /\ \A y \in Lines, x \in Cols :
       mem[y][x] \in (Printable \cup {"space", "box", "junk"}) \X (0 .. GLYPH_HEIGHT - 1)
  /\ column \in 0 .. COLUMNS /\ row \in 0 .. ROWS - 1
  /\ line \in Seq(Keys) /\ Len(line) <= MAX_LINE_LEN
  /\ pending \in {<<>>} \cup {<<e>> : e \in Events}
  /\ faithful \in BOOLEAN

(* The cell that is n characters before the cursor.                          *)
Position  == row * COLUMNS + column
CellAt(p) == Cell(p \div COLUMNS, p % COLUMNS)

(* What stands before the cursor is the line that Enter would commit, through *)
(* wrapping and scrolling, as far as it is on the display.  Only four things   *)
(* break this until the line is empty again: a character that a full line      *)
(* refused, a backspace that met column 0, output of the shell in the middle   *)
(* of the line, and an edit by a handler between an edit of the shell and its  *)
(* echo.                                                                       *)
LineOnScreen ==
  pending = <<>> /\ faithful =>
    \A i \in DOMAIN line :
      LET back == Len(line) - i + 1
      IN  back <= Position => CellAt(Position - back) = line[i]

-----------------------------------------------------------------------------
Text == INSTANCE TextScreen
          WITH Columns <- COLUMNS, Rows <- ROWS, Printable <- Printable,
               Texts <- Outputs \cup {<<e>> : e \in Events},
               page <- [r \in 1 .. row + 1 |-> [x \in 1 .. COLUMNS |-> Cell(r - 1, x - 1)]],
               col  <- column

(* The Writer implements a page of text: drawing, moving and clearing pixel   *)
(* lines has the effect of writing characters, for a display height that is   *)
(* no multiple of the glyph height as well.                                   *)
ImplementsText == Text!Spec
=============================================================================
