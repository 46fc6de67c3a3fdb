-------------------------------- MODULE Paper --------------------------------
(***************************************************************************)
(* What a terminal promises: a strip of paper without end on which         *)
(* characters are typed from left to right.  The screen shows its last     *)
(* Height rows.  The first Height rows were there before anything was      *)
(* typed.                                                                  *)
(***************************************************************************)
EXTENDS Naturals, Sequences

CONSTANTS Width, Height, Cells, Boot, Blank

VARIABLES
  paper,   \* the rows
  line,    \* the row typed on
  column   \* and where on it

vars == <<paper, line, column>>

Columns == 0..(Width - 1)

Row(cell) == [c \in Columns |-> cell]

Init ==
  /\ paper = [i \in 1..Height |-> Row(Boot)]
  /\ line = 1 /\ column = 0

(* To the beginning of the next row, new if there is none.                 *)
Feed(rows) ==
  /\ paper' = IF line = Len(rows) THEN Append(rows, Row(Blank)) ELSE rows
  /\ line' = line + 1
  /\ column' = 0

(* Any cell may be typed: the one that the step leaves there.              *)
Type ==
  LET cell == paper'[line][column]
      rows == [paper EXCEPT ![line][column] = cell]
  IN  /\ cell \in Cells
      /\ \/ column = Width - 1 /\ Feed(rows)
         \/ /\ column < Width - 1
            /\ paper' = rows
            /\ column' = column + 1
            /\ UNCHANGED line

Return == column' = 0 /\ UNCHANGED <<paper, line>>

Next == Feed(paper) \/ Return \/ Type

Spec == Init /\ [][Next]_vars
=============================================================================
