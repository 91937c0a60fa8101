----------------------------- MODULE TextScreen -----------------------------
(***************************************************************************)
(* What a text console promises, without pixels: a page of rows in which   *)
(* writing goes on at the end of the last row. A row that is full or ended *)
(* starts a new one, the oldest row leaves a page that would grow too      *)
(* long, and a backspace takes back one character of the row it is in.     *)
(***************************************************************************)
EXTENDS Naturals, Sequences, SequencesExt

CONSTANTS
  Columns, Rows,   (* the size of the page                                  *)
  Printable,       (* the bytes that are shown as themselves                *)
  Texts            (* what may be written: sequences of bytes               *)

VARIABLES
  page,   (* the rows in use, the newest last                               *)
  col     (* characters in the newest row                                   *)

BlankRow == [i \in 1 .. Columns |-> "space"]
Fresh    == [page |-> <<BlankRow>>, col |-> 0]
Shown(byte) == IF byte \in Printable THEN byte ELSE "box"

NewRow(t) ==
  LET longer == Append(t.page, BlankRow)
  IN  [page |-> IF Len(longer) > Rows THEN Tail(longer) ELSE longer, col |-> 0]

Put(t, c) ==
  LET u == IF t.col = Columns THEN NewRow(t) ELSE t
  IN  [page |-> [u.page EXCEPT ![Len(u.page)][u.col + 1] = c], col |-> u.col + 1]

TakeBack(t) ==
  IF t.col = 0 THEN t
  ELSE [page |-> [t.page EXCEPT ![Len(t.page)][t.col] = "space"], col |-> t.col - 1]

After(t, byte) ==
  CASE byte = "NL" -> NewRow(t)
    [] byte = "BS" -> TakeBack(t)
    [] OTHER       -> Put(t, Shown(byte))

Show(t) == page' = t.page /\ col' = t.col

Init == page = Fresh.page /\ col = Fresh.col

Write(text) == Show(FoldLeft(After, [page |-> page, col |-> col], text))
Clear       == Show(Fresh)
Next        == Clear \/ \E text \in Texts : Write(text)

Spec == Init /\ [][Next]_<<page, col>>
=============================================================================
