------------------------------ MODULE Terminal ------------------------------
(***************************************************************************)
(* terminal.c: the text screen.  A terminal is a record of the cells from  *)
(* TERMINAL_BUFFER_ADDRESS on, and of the row and the column the next      *)
(* character goes to.  One row of video memory below the visible ones is   *)
(* part of it: a newline in the last row moves there without scrolling.    *)
(*                                                                         *)
(* The column is a size_t that terminal_remove_last_char may take below 0; *)
(* -1 stands for 2^32 - 1.  Indexes are computed modulo 2^32 as well, so   *)
(* that row * VGA_WIDTH - 1 is the last cell of the row above.  Colours    *)
(* and the hardware cursor, which nothing reads, are left out.             *)
(***************************************************************************)
EXTENDS Integers, Sequences, SequencesExt

CONSTANTS VGA_WIDTH, VGA_HEIGHT

ASSUME TerminalConstants == VGA_WIDTH \in Nat \ {0} /\ VGA_HEIGHT \in Nat \ {0}

Blank == " "
NL == "newline"
BS == "backspace"       \* as a character it has a glyph like any other

Visible == 0 .. VGA_WIDTH * VGA_HEIGHT - 1
Cell == 0 .. VGA_WIDTH * (VGA_HEIGHT + 1) - 1
LastLine == VGA_WIDTH * (VGA_HEIGHT - 1) .. VGA_WIDTH * VGA_HEIGHT - 1

\* The cell the next character goes to.
Place(t) == t.row * VGA_WIDTH + t.column

terminal_initialize == [row |-> 0, column |-> 0, cell |-> [i \in Cell |-> Blank]]

terminal_clear(t) ==
  [row |-> 0, column |-> 0,
   cell |-> [i \in Cell |-> IF i \in Visible THEN Blank ELSE t.cell[i]]]

terminal_putentryat(t, c) == [t EXCEPT !.cell[Place(t)] = c]

\* Slip: the lines move up, the row does not.
terminal_scroll_RowStays(t) ==
  [row |-> t.row, column |-> 0,
   cell |-> [i \in Cell |-> IF i \in LastLine THEN Blank
                            ELSE IF i \in Visible /\ i >= VGA_WIDTH
                            THEN t.cell[i + VGA_WIDTH]
                            ELSE t.cell[i]]]

\* The loop starts at the second line: the first one never changes.
terminal_scroll(t) ==
  [row |-> t.row - 1, column |-> 0,
   cell |-> [i \in Cell |-> IF i \in LastLine THEN Blank
                            ELSE IF i \in Visible /\ i >= VGA_WIDTH
                            THEN t.cell[i + VGA_WIDTH]
                            ELSE t.cell[i]]]

Advanced(t) ==
  IF t.column + 1 = VGA_WIDTH
  THEN [t EXCEPT !.column = 0, !.row = @ + 1]
  ELSE [t EXCEPT !.column = @ + 1]

terminal_putchar(t, c) ==
  IF c = NL THEN [t EXCEPT !.column = 0, !.row = @ + 1]
  ELSE LET next == Advanced(terminal_putentryat(t, c))
       IN IF next.row >= VGA_HEIGHT THEN terminal_scroll(next) ELSE next

\* (The sets of one element have TLC evaluate each screen once.)
terminal_write(t, s) ==
  FoldLeft(LAMBDA u, c : CHOOSE w \in {terminal_putchar(v, c) : v \in {u}} : TRUE, t, s)

\* Slip: the character behind the last one is removed.
terminal_remove_last_char_AtColumn(t) ==
  [terminal_putentryat(t, Blank) EXCEPT !.column = @ - 1]

terminal_remove_last_char(t) ==
  terminal_putentryat([t EXCEPT !.column = @ - 1], Blank)
=============================================================================
