---------------------------- MODULE ConsoleProofs ---------------------------
(***************************************************************************)
(* TailBlank holds of a screen of every size.                              *)
(***************************************************************************)
EXTENDS Console, TLAPS

LEMMA SizeFacts ==
  /\ Size \in Nat /\ Size >= VIEW_WIDTH /\ Size > 0
  /\ VIEW_WIDTH \in Nat /\ VIEW_WIDTH > 0
<1>1. VIEW_WIDTH \in Nat /\ VIEW_WIDTH > 0 /\ VIEW_HEIGHT \in Nat /\ VIEW_HEIGHT >= 1
  BY ViewAssumption
<1>2. \A h, w \in Nat : h >= 1 => h * w \in Nat /\ h * w >= w
  OBVIOUS
<1> QED
  BY <1>1, <1>2 DEF Size

(* The next multiple is not below, and is a natural number.                *)
LEMMA NextMultiple ==
  ASSUME NEW n \in Nat, NEW k \in Nat, k > 0
  PROVE  next_multiple_of(n, k) \in Nat /\ next_multiple_of(n, k) >= n
<1> DEFINE q == (n + k - 1) \div k
<1>1. q \in Nat /\ n + k - 1 = k * q + ((n + k - 1) % k) /\ (n + k - 1) % k \in 0..(k - 1)
  OBVIOUS
<1>2. k * q = q * k /\ q * k \in Nat
  BY <1>1
<1>3. q * k >= n
  BY <1>1, <1>2
<1> QED
  BY <1>2, <1>3 DEF next_multiple_of

(* And it is less than k away.                                             *)
LEMMA NextMultipleClose ==
  ASSUME NEW n \in Nat, NEW k \in Nat, k > 0
  PROVE  next_multiple_of(n, k) <= n + k - 1
<1> DEFINE q == (n + k - 1) \div k
<1>1. q \in Nat /\ n + k - 1 = k * q + ((n + k - 1) % k) /\ (n + k - 1) % k \in 0..(k - 1)
  OBVIOUS
<1>2. k * q = q * k /\ q * k \in Nat
  BY <1>1
<1>3. q * k <= n + k - 1
  BY <1>1, <1>2
<1> QED
  BY <1>3 DEF next_multiple_of

(* It is a multiple, and a multiple is its own next multiple.              *)
LEMMA NextMultipleIs ==
  ASSUME NEW n \in Nat, NEW k \in Nat, k > 0
  PROVE  /\ next_multiple_of(n, k) % k = 0
         /\ n % k = 0 => next_multiple_of(n, k) = n
<1>1. ASSUME NEW q \in Nat, NEW r \in 0..(k - 1)
      PROVE  (q * k + r) % k = r /\ (q * k + r) \div k = q
  <2> DEFINE m == q * k + r
  <2>1. q * k \in Nat /\ m \in Nat /\ q * k = k * q
    BY <1>1
  <2> DEFINE d == m \div k
             e == m % k
  <2>2. d \in Nat /\ e \in 0..(k - 1) /\ m = k * d + e
    BY <2>1
  <2>3. k * q + r = k * d + e
    BY <2>1, <2>2
  <2> HIDE DEF d, e, m
  <2>4. ~(d >= q + 1)
    <3>1. d >= q + 1 => k * d >= k * (q + 1)
      BY <2>2, <1>1
    <3>2. k * (q + 1) = k * q + k
      BY <1>1
    <3> QED
      BY <3>1, <3>2, <2>2, <2>3, <1>1
  <2>5. ~(q >= d + 1)
    <3>1. q >= d + 1 => k * q >= k * (d + 1)
      BY <2>2, <1>1
    <3>2. k * (d + 1) = k * d + k
      BY <2>2
    <3> QED
      BY <3>1, <3>2, <2>2, <2>3, <1>1
  <2>6. d = q /\ e = r
    BY <2>2, <2>3, <2>4, <2>5, <1>1
  <2> QED
    BY <2>6 DEF d, e, m
<1> DEFINE q == (n + k - 1) \div k
<1>2. q \in Nat
  OBVIOUS
<1>3. (q * k + 0) % k = 0
  BY <1>1, <1>2
<1>4. q * k + 0 = q * k
  BY <1>2
<1>5. ASSUME n % k = 0 PROVE q * k = n
  <2> DEFINE m == n \div k
  <2>1. m \in Nat /\ n = k * m /\ k * m = m * k
    BY <1>5
  <2>2. (m * k + (k - 1)) \div k = m
    BY <1>1, <2>1
  <2>3. n + k - 1 = m * k + (k - 1)
    BY <2>1
  <2> QED
    BY <2>1, <2>2, <2>3
<1> QED
  BY <1>3, <1>4, <1>5 DEF next_multiple_of

(* The typing facts every step starts from.                                *)
CType ==
  /\ buffer \in [Cells -> [color : Color, char : Glyph \cup {NUL}]]
  /\ cursor_pos \in 0..Size
  /\ color_code \in Color

Inv == CType /\ TailBlank

LEMMA InvInit == Init => Inv
<1> SUFFICES ASSUME Init PROVE Inv
  OBVIOUS
<1>1. vga_entry(color_code, NUL) \in [color : Color, char : Glyph \cup {NUL}]
  BY DEF Init, vga_entry
<1>2. buffer \in [Cells -> [color : Color, char : Glyph \cup {NUL}]]
  BY <1>1 DEF Init
<1>3. \A p \in Cells : Char(p) = NUL
  BY DEF Init, Char, entry_get_char, vga_entry
<1>4. 0 \in 0..Size
  BY SizeFacts
<1> QED
  BY <1>2, <1>3, <1>4 DEF Init, Inv, CType, TailBlank

(* Blank entries in the current colour are entries, and blank.             *)
LEMMA BlankEntry ==
  ASSUME Inv
  PROVE  /\ vga_entry(color_code, NUL) \in [color : Color, char : Glyph \cup {NUL}]
         /\ entry_get_char(vga_entry(color_code, NUL)) = NUL
BY DEF Inv, CType, vga_entry, entry_get_char

LEMMA ClearStep == ASSUME Inv, clear PROVE Inv'
<1>1. buffer' = [p \in Cells |-> vga_entry(color_code, NUL)] /\ cursor_pos' = 0
      /\ color_code' = color_code
  BY DEF clear, set_cursor_pos
<1>2. buffer' \in [Cells -> [color : Color, char : Glyph \cup {NUL}]]
  BY <1>1, BlankEntry
<1>3. \A p \in Cells : Char(p)' = NUL
  BY <1>1, BlankEntry DEF Char
<1>4. cursor_pos' \in 0..Size
  BY <1>1, SizeFacts
<1> QED
  BY <1>1, <1>2, <1>3, <1>4 DEF Inv, CType, TailBlank

LEMMA GlyphStep ==
  ASSUME Inv, cursor_pos # Size, NEW c \in Glyph, write_glyph(c), UNCHANGED color_code
  PROVE  Inv'
<1>1. cursor_pos \in Cells /\ cursor_pos' = cursor_pos + 1 /\ cursor_pos' \in 0..Size
  BY SizeFacts DEF Inv, CType, Cells, write_glyph
<1>2. vga_entry(color_code, c) \in [color : Color, char : Glyph \cup {NUL}]
  BY DEF Inv, CType, vga_entry
<1>3. buffer' = [buffer EXCEPT ![cursor_pos] = vga_entry(color_code, c)]
  BY DEF write_glyph
<1>4. buffer' \in [Cells -> [color : Color, char : Glyph \cup {NUL}]]
  BY <1>1, <1>2, <1>3 DEF Inv, CType
<1>5. ASSUME NEW p \in Cells, p >= cursor_pos' PROVE Char(p)' = NUL
  <2>1. p >= cursor_pos /\ p # cursor_pos
    BY <1>1, <1>5, SizeFacts DEF Cells
  <2>2. buffer'[p] = buffer[p]
    BY <2>1, <1>3 DEF Inv, CType
  <2> QED
    BY <2>1, <2>2 DEF Inv, TailBlank, Char
<1> QED
  BY <1>1, <1>4, <1>5 DEF Inv, CType, TailBlank

LEMMA NewlineStep ==
  ASSUME Inv, cursor_pos # Size, write_newline, UNCHANGED color_code
  PROVE  Inv'
<1> DEFINE pos == next_multiple_of(cursor_pos, VIEW_WIDTH)
<1>1. pos \in Nat /\ pos >= cursor_pos /\ cursor_pos \in Nat /\ cursor_pos < Size
  BY NextMultiple, SizeFacts DEF Inv, CType
<1>2. CASE pos < Size
  <2>1. cursor_pos' = pos /\ buffer' = buffer
    BY <1>1, <1>2, SizeFacts DEF write_newline
  <2>2. cursor_pos' \in 0..Size
    BY <2>1, <1>1, <1>2, SizeFacts, SMTT(30)
  <2>3. \A p \in Cells : p >= cursor_pos' => p >= cursor_pos
    BY <2>1, <1>1 DEF Cells
  <2> HIDE DEF pos
  <2> QED
    BY <2>1, <2>2, <2>3 DEF Inv, CType, TailBlank, Char
<1>3. CASE pos >= Size
  <2>1. scroll_up(pos)
    BY <1>3 DEF write_newline
  <2>2. pos <= cursor_pos + VIEW_WIDTH - 1
    BY <1>1, NextMultipleClose, SizeFacts
  <2> HIDE DEF pos
  <2>3. /\ buffer' = [p \in Cells |-> IF p + VIEW_WIDTH < Size THEN buffer[p + VIEW_WIDTH]
                                      ELSE vga_entry(color_code, NUL)]
        /\ cursor_pos' = pos - VIEW_WIDTH
    BY <2>1 DEF scroll_up
  <2>4. cursor_pos' \in 0..Size /\ cursor_pos' >= Size - VIEW_WIDTH
    BY <1>1, <1>3, <2>2, <2>3, SizeFacts, SMTT(30)
  <2>5. \A p \in Cells : p + VIEW_WIDTH < Size => p + VIEW_WIDTH \in Cells
    BY SizeFacts DEF Cells
  <2>6. buffer' \in [Cells -> [color : Color, char : Glyph \cup {NUL}]]
    BY <2>3, <2>5, BlankEntry DEF Inv, CType
  <2>7. ASSUME NEW p \in Cells, p >= cursor_pos' PROVE Char(p)' = NUL
    <3>1. ~(p + VIEW_WIDTH < Size)
      BY <2>4, <2>7, SizeFacts DEF Cells
    <3> QED
      BY <3>1, <2>3, BlankEntry DEF Char
  <2> QED
    BY <2>4, <2>6, <2>7 DEF Inv, CType, TailBlank
<1> QED
  BY <1>1, <1>2, <1>3, SizeFacts

LEMMA BackspaceStep ==
  ASSUME Inv, cursor_pos # Size, write_backspace, UNCHANGED color_code
  PROVE  Inv'
<1> DEFINE pos == IF cursor_pos = 0 THEN 0 ELSE cursor_pos - 1
<1>1. pos \in Cells /\ cursor_pos \in Nat
  BY SizeFacts DEF Inv, CType, Cells
<1>2. buffer' = IF cursor_pos = 0 THEN buffer
                ELSE [buffer EXCEPT ![pos] = vga_entry(color_code, NUL)]
  BY DEF write_backspace
<1>3. PICK to \in 0..pos : SkipsTo(buffer', pos, to) /\ cursor_pos' = to
  BY DEF write_backspace
<1>4. buffer' \in [Cells -> [color : Color, char : Glyph \cup {NUL}]]
  BY <1>1, <1>2, BlankEntry DEF Inv, CType
<1>5. cursor_pos' \in 0..Size
  BY <1>1, <1>3, SizeFacts DEF Cells
<1>6. ASSUME NEW p \in Cells, p >= cursor_pos' PROVE Char(p)' = NUL
  <2>1. CASE p < pos
    <3>1. p \in to..(pos - 1)
      BY <1>1, <1>3, <1>6, <2>1 DEF Cells
    <3> QED
      BY <3>1, <1>3 DEF SkipsTo, Char
  <2>2. CASE p >= pos /\ cursor_pos = 0
    BY <1>1, <1>2, <2>2 DEF Inv, TailBlank, Char, Cells
  <2>3. CASE p = pos /\ cursor_pos # 0
    BY <1>1, <1>2, <2>3, BlankEntry DEF Inv, CType, Char
  <2>4. CASE p > pos /\ cursor_pos # 0
    <3>1. p >= cursor_pos /\ p # pos
      BY <1>1, <2>4, SizeFacts DEF Cells
    <3>2. buffer'[p] = buffer[p]
      BY <3>1, <1>2, <2>4 DEF Inv, CType
    <3> QED
      BY <3>1, <3>2 DEF Inv, TailBlank, Char
  <2> QED
    BY <1>1, <2>1, <2>2, <2>3, <2>4, SMTT(30) DEF Cells
<1> QED
  BY <1>4, <1>5, <1>6 DEF Inv, CType, TailBlank

(* The console of every size keeps its cursor on the screen and everything *)
(* behind it blank, whatever is written (vga.rs:102).                      *)
THEOREM ScreenTail == Spec => []TailBlank
<1>1. Inv /\ [Next]_vars => Inv'
  <2> SUFFICES ASSUME Inv, [Next]_vars PROVE Inv'
    OBVIOUS
  <2>1. CASE write_u8
    <3>1. CASE cursor_pos = Size /\ UNCHANGED <<buffer, cursor_pos, crtc>>
      BY <2>1, <3>1 DEF write_u8, Inv, CType, TailBlank, Char
    <3>2. CASE cursor_pos # Size
      BY <2>1, <3>2, NewlineStep, BackspaceStep, GlyphStep, SMTT(30) DEF write_u8
    <3> QED
      BY <2>1, <3>1, <3>2 DEF write_u8
  <2>2. CASE clear
    BY <2>2, ClearStep
  <2>3. ASSUME NEW c \in Color, set_color(c) PROVE Inv'
    BY <2>3 DEF set_color, Inv, CType, TailBlank, Char
  <2>4. CASE UNCHANGED vars
    BY <2>4 DEF vars, Inv, CType, TailBlank, Char
  <2> QED
    BY <2>1, <2>2, <2>3, <2>4, SMTT(30) DEF Next
<1> QED
  BY <1>1, InvInit, PTL DEF Spec, Inv

(* Where the hardware shows the cursor, on a screen of every size: behind  *)
(* the text, or after a newline at the end of the row above (vga.rs:109).  *)
THEOREM CursorIsShown == Spec => []CursorShown
<1> DEFINE Cur == CursorShown /\ crtc \in Nat
<1>1. Init => Cur
  BY SizeFacts DEF Init, CursorShown, Char, entry_get_char, vga_entry, Cells
<1>2. TailBlank /\ TailBlank' /\ Cur /\ [Next]_vars => Cur'
  <2> SUFFICES ASSUME TailBlank, TailBlank', Cur, [Next]_vars PROVE Cur'
    OBVIOUS
  <2>0. cursor_pos \in Nat /\ cursor_pos' \in Nat /\ crtc \in Nat
    BY SizeFacts DEF TailBlank
  <2>1. ASSUME sync_cursor PROVE Cur'
    BY <2>0, <2>1 DEF sync_cursor, CursorShown
  <2>2. ASSUME UNCHANGED <<buffer, cursor_pos, crtc>> PROVE Cur'
    BY <2>2 DEF CursorShown, Char
  <2>3. ASSUME write_newline PROVE Cur'
    <3> DEFINE pos == next_multiple_of(cursor_pos, VIEW_WIDTH)
    <3>1. CASE pos >= Size
      BY <2>1, <2>3, <3>1 DEF write_newline, scroll_up
    <3>2. CASE ~(pos >= Size)
      <4>1. cursor_pos' = pos /\ buffer' = buffer /\ crtc' = crtc
        BY <2>3, <3>2 DEF write_newline
      <4>2. pos \in Nat /\ pos >= cursor_pos /\ pos <= cursor_pos + VIEW_WIDTH - 1
            /\ pos % VIEW_WIDTH = 0
        BY <2>0, SizeFacts, NextMultiple, NextMultipleClose, NextMultipleIs, SMTT(30)
      <4>3. cursor_pos % VIEW_WIDTH = 0 => pos = cursor_pos
        BY <2>0, SizeFacts, NextMultipleIs
      <4>4. 0 % VIEW_WIDTH = 0
        BY SizeFacts
      <4> HIDE DEF pos
      <4>5. CASE pos = cursor_pos
        BY <2>2, <4>1, <4>5
      <4>6. CASE pos # cursor_pos
        <5>1. crtc = cursor_pos
          BY <4>3, <4>4, <4>6 DEF CursorShown
        <5>2. crtc \in (pos - VIEW_WIDTH + 1)..(pos - 1)
          BY <2>0, <4>2, <4>6, <5>1, SizeFacts, SMTT(30)
        <5> QED
          BY <2>0, <4>1, <4>2, <5>2, SMTT(30) DEF CursorShown
      <4> QED
        BY <4>5, <4>6
    <3> QED
      BY <3>1, <3>2
  <2>4. CASE write_u8
    BY <2>1, <2>2, <2>3, <2>4 DEF write_u8, write_backspace, write_glyph
  <2>5. CASE clear
    BY <2>1, <2>5 DEF clear, set_cursor_pos
  <2>6. ASSUME NEW c \in Color, set_color(c) PROVE Cur'
    BY <2>2, <2>6 DEF set_color
  <2>7. CASE UNCHANGED vars
    BY <2>2, <2>7 DEF vars
  <2> QED
    BY <2>4, <2>5, <2>6, <2>7 DEF Next
<1> QED
  BY <1>1, <1>2, ScreenTail, PTL DEF Spec
=============================================================================
