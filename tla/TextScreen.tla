----------------------------- MODULE TextScreen -----------------------------
(***************************************************************************)
(* What a text console promises: up to HEIGHT rows of up to WIDTH          *)
(* characters, of which only the last is written to.  A full row opens the *)
(* next one; a newline opens one below a row that is not empty, and the    *)
(* rows move up when there is no room.  A console whose last row is full   *)
(* takes nothing until it is cleared.                                      *)
(***************************************************************************)
EXTENDS Integers, Sequences, SequencesExt

CONSTANTS WIDTH, HEIGHT, Glyph

VARIABLE rows

Full == Len(rows) = HEIGHT + 1

Init == rows = << << >> >>

(* Open a row below the last.                                              *)
Open(rs) == Append(rs, << >>)

Type(c) ==
  /\ ~Full
  /\ LET typed == [rows EXCEPT ![Len(rows)] = Append(@, c)]
     IN  rows' = IF Len(Last(typed)) = WIDTH THEN Open(typed) ELSE typed

Newline ==
  /\ ~Full /\ Last(rows) # << >>
  /\ rows' = IF Len(rows) = HEIGHT THEN Open(Tail(rows)) ELSE Open(rows)

(* An empty row is given up for the row above, unless that one is full.    *)
Close(rs) ==
  IF Last(rs) = << >> /\ Len(rs) > 1 /\ Len(rs[Len(rs) - 1]) < WIDTH THEN Front(rs) ELSE rs

(* Take the last character back, or the newline if that came last.         *)
Erase ==
  LET n == Len(rows)
  IN  /\ ~Full
      /\ \/ rows[n] # << >> /\ rows' = Close([rows EXCEPT ![n] = Front(@)])
         \/ rows[n] = << >> /\ n > 1 /\ Len(rows[n - 1]) < WIDTH /\ rows' = Front(rows)
         \/ /\ rows[n] = << >> /\ n > 1 /\ Len(rows[n - 1]) = WIDTH
            /\ rows' = [Front(rows) EXCEPT ![n - 1] = Front(@)]

Clear == rows' = << << >> >>

Next == (\E c \in Glyph : Type(c)) \/ Newline \/ Erase \/ Clear

Spec == Init /\ [][Next]_rows
=============================================================================
