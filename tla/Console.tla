------------------------------- MODULE Console ------------------------------
(***************************************************************************)
(* The VGA text console (src/drivers/vga.rs): a screen of entries, each a  *)
(* colour and a character, a cursor, and the cursor the hardware shows.    *)
(* A call runs under the lock of VGA_BUFFER and is one step.  Positions    *)
(* count cells from the top left; callers write no character 0, which is   *)
(* what marks a blank cell.                                                *)
(***************************************************************************)
EXTENDS Integers, Sequences, FiniteSetsExt

CONSTANTS
  VIEW_WIDTH, VIEW_HEIGHT,
  Glyph,          \* the characters that are shown
  NUL,            \* the character of a blank cell
  Color           \* colour codes

ASSUME ViewAssumption == VIEW_WIDTH \in Nat \ {0} /\ VIEW_HEIGHT \in Nat \ {0}
ASSUME NulAssumption  == NUL \notin Glyph

Size  == VIEW_HEIGHT * VIEW_WIDTH
Cells == 0..(Size - 1)

VARIABLES
  buffer,      \* the entry of each cell
  cursor_pos,  \* where the next character goes; Size when the screen is full
  color_code,
  crtc         \* the position last sent to the hardware by sync_cursor

vars == <<buffer, cursor_pos, color_code, crtc>>

vga_entry(color, char) == [color |-> color, char |-> char]
entry_get_char(entry)  == entry.char

Char(p) == entry_get_char(buffer[p])

(* VGABuffer::init; the hardware cursor is wherever the firmware left it.  *)
Init ==
  /\ color_code \in Color
  /\ buffer = [p \in Cells |-> vga_entry(color_code, NUL)]
  /\ cursor_pos = 0
  /\ crtc \in Cells

sync_cursor == crtc' = cursor_pos'

set_color(c) == color_code' = c /\ UNCHANGED <<buffer, cursor_pos, crtc>>

set_cursor_pos(x, y) == cursor_pos' = x * y /\ sync_cursor

clear ==
  /\ buffer' = [p \in Cells |-> vga_entry(color_code, NUL)]
  /\ set_cursor_pos(0, 0)
  /\ UNCHANGED color_code

next_multiple_of(n, k) == ((n + k - 1) \div k) * k

ScrollKeepsLastRow(pos) ==                                    \* mutant
  /\ buffer' = [p \in Cells |-> IF p + VIEW_WIDTH < Size THEN buffer[p + VIEW_WIDTH]
                                ELSE buffer[p]]
  /\ cursor_pos' = pos - VIEW_WIDTH
  /\ sync_cursor

(* The rows move up by one, the last becomes blank.                        *)
scroll_up(pos) ==
  /\ buffer' = [p \in Cells |-> IF p + VIEW_WIDTH < Size THEN buffer[p + VIEW_WIDTH]
                                ELSE vga_entry(color_code, NUL)]
  /\ cursor_pos' = pos - VIEW_WIDTH
  /\ sync_cursor

NewlineOpensRow ==                                            \* mutant
  LET pos == (cursor_pos \div VIEW_WIDTH + 1) * VIEW_WIDTH
  IN  IF pos >= Size THEN scroll_up(pos)
      ELSE cursor_pos' = pos /\ UNCHANGED <<buffer, crtc>>

(* A newline that does not scroll leaves the hardware cursor behind.       *)
write_newline ==
  LET pos == next_multiple_of(cursor_pos, VIEW_WIDTH)
  IN  IF pos >= Size THEN scroll_up(pos)
      ELSE cursor_pos' = pos /\ UNCHANGED <<buffer, crtc>>

(* The loop after a backspace goes from pos back over blank cells to `to`. *)
SkipsTo(buf, pos, to) ==
  /\ to # 0 => entry_get_char(buf[to - 1]) # NUL
  /\ \A p \in to..(pos - 1) : entry_get_char(buf[p]) = NUL

BackspaceNoSync ==                                            \* mutant
  LET pos == IF cursor_pos = 0 THEN 0 ELSE cursor_pos - 1
  IN  /\ buffer' = IF cursor_pos = 0 THEN buffer
                   ELSE [buffer EXCEPT ![pos] = vga_entry(color_code, NUL)]
      /\ \E to \in 0..pos : SkipsTo(buffer', pos, to) /\ cursor_pos' = to
      /\ UNCHANGED crtc

write_backspace ==
  LET pos == IF cursor_pos = 0 THEN 0 ELSE cursor_pos - 1
  IN  /\ buffer' = IF cursor_pos = 0 THEN buffer
                   ELSE [buffer EXCEPT ![pos] = vga_entry(color_code, NUL)]
      /\ \E to \in 0..pos : SkipsTo(buffer', pos, to) /\ cursor_pos' = to
      /\ sync_cursor

write_glyph(c) ==
  /\ buffer' = [buffer EXCEPT ![cursor_pos] = vga_entry(color_code, c)]
  /\ cursor_pos' = cursor_pos + 1
  /\ sync_cursor

(* write_u8: its early return, and the three arms of its match.            *)
write_u8 ==
  /\ \/ cursor_pos = Size /\ UNCHANGED <<buffer, cursor_pos, crtc>>
     \/ cursor_pos # Size /\ write_newline
     \/ cursor_pos # Size /\ write_backspace
     \/ cursor_pos # Size /\ \E c \in Glyph : write_glyph(c)
  /\ UNCHANGED color_code

Next == write_u8 \/ clear \/ \E c \in Color : set_color(c)

Spec == Init /\ [][Next]_vars
-----------------------------------------------------------------------------
(***************************************************************************)
(* Correctness.                                                            *)
(***************************************************************************)

(* The cursor is on the screen or right behind it, so no index panics, and *)
(* everything from the cursor on is blank: newlines and the loop after a   *)
(* backspace rely on it.                                                   *)
TailBlank ==
  /\ buffer \in [Cells -> [color : Color, char : Glyph \cup {NUL}]]
  /\ cursor_pos \in 0..Size
  /\ \A p \in Cells : p >= cursor_pos => Char(p) = NUL

(* The hardware shows the cursor where the next character will appear,     *)
(* except on a blank screen nobody has written to, and right after a       *)
(* newline, when it shows the end of the row above.                        *)
CursorShown ==
  \/ crtc = cursor_pos
  \/ cursor_pos = 0 /\ \A p \in Cells : Char(p) = NUL
  \/ /\ cursor_pos % VIEW_WIDTH = 0
     /\ crtc \in (cursor_pos - VIEW_WIDTH + 1)..(cursor_pos - 1)

(* The row with the given number, up to the blanks at its end.             *)
RowText(r) ==
  LET used == {c \in 0..(VIEW_WIDTH - 1) :
                 r * VIEW_WIDTH + c < Size /\ Char(r * VIEW_WIDTH + c) # NUL}
      len  == Max({0} \cup {c + 1 : c \in used})
  IN  [i \in 1..len |-> Char(r * VIEW_WIDTH + i - 1)]

Text == INSTANCE TextScreen WITH
          WIDTH <- VIEW_WIDTH, HEIGHT <- VIEW_HEIGHT,
          rows <- [i \in 1..(cursor_pos \div VIEW_WIDTH + 1) |-> RowText(i - 1)]

(* The console is a text screen: rows without gaps, wrapping, scrolling,   *)
(* and backspaces that join rows; full, it takes nothing until cleared.    *)
IsTextScreen == Text!Spec
=============================================================================
