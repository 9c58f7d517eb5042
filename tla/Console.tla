------------------------------ MODULE Console -------------------------------
(***************************************************************************)
(* The text screen and the line editor of the shell (kernel.c): a ring of  *)
(* rows with the history of the output, the screen that shows a part of    *)
(* it, the pointer drawn into the screen, and the line being typed.        *)
(* One character of a prompt starts the line.                              *)
(***************************************************************************)
EXTENDS Integers, SequencesExt

CONSTANTS
    ROWS, COLS,     \* VGA_ROWS, VGA_COLS
    SCROLLBACK,     \* SCROLLBACK_ROWS
    STEP,           \* SCROLL_STEP
    HIST_MAX,       \* lines the shell remembers
    LINE,           \* longest line, one less than `max` of read_line
    Chars,          \* characters that are typed
    MaxLines,       \* bound: rows written since the screen was cleared
    Points,         \* cells the pointer is moved to
    Pages           \* TRUE: PageUp and PageDown are pressed

Blank == "blank"
Prompt == "$"
Cells == (0 .. ROWS - 1) \X (0 .. COLS - 1)
BlankRow == [c \in 0 .. COLS - 1 |-> Blank]

ConsoleAssumption ==
    /\ {ROWS, COLS, SCROLLBACK, STEP, HIST_MAX, LINE} \subseteq Nat \ {0}
    /\ ROWS <= SCROLLBACK /\ MaxLines \in Nat /\ Points \subseteq Cells
    /\ {Blank, Prompt} \cap Chars = {} /\ Pages \in BOOLEAN

VARIABLES
    con,        \* the terminal: ring of rows, screen, cursor, pointer
    rows,       \* history: every row written, the current one last
    paged,      \* history: how many rows there were when the view was moved
                \* last, 0 when it never was since the screen was cleared
    edit,       \* the line: its text, the place in it, the recalled line
    hist,       \* the remembered lines: hist_buf, hist_head, hist_count
    said,       \* history: the lines entered, repetitions left out
    wiped       \* history: the cursor was moved back over text

consoleVars == <<con, rows, paged, edit, hist, said, wiped>>

-----------------------------------------------------------------------------
(* The terminal.  A cell of the screen is a character, shown inverted where*)
(* the pointer was drawn.                                                  *)
Plain(ch) == <<ch, FALSE>>

Advanced_KeepsRow(c) ==  \* the row taken from the ring is not blanked
    [c EXCEPT !.next = (@ + 1) % SCROLLBACK, !.total = @ + 1, !.col = 0,
              !.row = IF @ < ROWS - 1 THEN @ + 1 ELSE @]
Advanced(c) ==      \* backbuf_advance, vga_fb_scroll_one: the next row
    LET next == (c.next + 1) % SCROLLBACK
        scroll == c.row = ROWS - 1 /\ c.offset = 0
    IN  [c EXCEPT
            !.next = next, !.total = @ + 1, !.back[next] = BlankRow,
            !.col = 0, !.row = IF @ < ROWS - 1 THEN @ + 1 ELSE @,
            !.fb = IF ~scroll THEN @ ELSE
                     [p \in Cells |-> IF p[1] = ROWS - 1 THEN Plain(Blank)
                                      ELSE c.fb[<<p[1] + 1, p[2]>>]]]

Written(c, ch) ==   \* vga_putchar of a printable character
    LET w == [c EXCEPT
                !.back[c.next][c.col] = ch, !.col = @ + 1,
                !.fb = IF c.offset # 0 THEN @ ELSE
                         [@ EXCEPT ![<<c.row, c.col>>] = Plain(ch)]]
    IN  IF w.col < COLS THEN w ELSE Advanced(w)

Stepped(c) ==       \* vga_backspace
    IF c.col = 0 THEN c ELSE
    [c EXCEPT !.col = @ - 1, !.back[c.next][c.col - 1] = Blank,
              !.fb = IF c.offset # 0 THEN @ ELSE
                       [@ EXCEPT ![<<c.row, c.col - 1>>] = Plain(Blank)]]

Redrawn(c) ==       \* vga_redraw
    LET top == c.total - ROWS - c.offset
    IN  [c EXCEPT !.fb = [p \in Cells |->
            LET src == top + p[1]
            IN  Plain(IF src < 0 THEN Blank
                      ELSE c.back[src % SCROLLBACK][p[2]])]]

Drawn(c) ==         \* mouse_show, mouse_draw: the cell under the pointer
    LET cell == c.fb[c.mouse]
    IN  [c EXCEPT !.saved = cell, !.visible = TRUE,
                  !.fb[c.mouse] = <<cell[1], ~cell[2]>>]

Cleared(c) ==       \* vga_clear
    [c EXCEPT !.back = [r \in 0 .. SCROLLBACK - 1 |-> BlankRow],
              !.next = ROWS % SCROLLBACK, !.total = ROWS, !.offset = 0,
              !.row = 0, !.col = 0, !.fb = [p \in Cells |-> Plain(Blank)]]

Shown(c, s) == FoldLeft(Written, c, s)
Erased(c, n) ==     \* erase_chars
    FoldLeft(LAMBDA d, i : Stepped(Written(Stepped(d), Blank)), c,
             [i \in 1 .. n |-> i])
Left(c, n) ==       \* cur_left
    FoldLeft(LAMBDA d, i : Stepped(d), c, [i \in 1 .. n |-> i])

-----------------------------------------------------------------------------
(* The lines the shell remembers.                                          *)
NoLines == [buf |-> [i \in 0 .. HIST_MAX - 1 |-> <<>>], head |-> 0, count |-> 0]

Get(h, back) ==     \* hist_get; the empty sequence is NULL, never stored
    IF back < 1 \/ back > h.count THEN <<>>
    ELSE h.buf[(h.head - back + HIST_MAX * 2) % HIST_MAX]

Pushed(h, s) ==     \* hist_push
    IF s = <<>> \/ (h.count > 0 /\ Get(h, 1) = s) THEN h
    ELSE [buf |-> [h.buf EXCEPT ![h.head] = s],
          head |-> (h.head + 1) % HIST_MAX,
          count |-> IF h.count < HIST_MAX THEN h.count + 1 ELSE h.count]


-----------------------------------------------------------------------------
NewLine == [text |-> <<>>, cur |-> 0, pos |-> 0]

ConsoleTypeOK ==
    /\ con.next \in 0 .. SCROLLBACK - 1 /\ con.total \in Nat
    /\ con.row \in 0 .. ROWS - 1 /\ con.col \in 0 .. COLS - 1
    /\ con.fb \in [Cells -> (Chars \cup {Blank, Prompt}) \X BOOLEAN]
    /\ con.mouse \in Cells /\ con.offset \in Nat
    /\ edit.text \in Seq(Chars) /\ Len(edit.text) <= LINE
    /\ edit.cur \in 0 .. Len(edit.text) /\ edit.pos \in 0 .. hist.count
    /\ hist.head \in 0 .. HIST_MAX - 1 /\ hist.count \in 0 .. HIST_MAX

RowsOf(c, d, all) ==    \* the history of rows when the terminal goes from c
    LET same == Front(all) \o <<d.back[c.next]>>    \* to d
    IN  IF d.total = c.total THEN same ELSE Append(same, d.back[d.next])

(* The screen is cleared, and the prompt of the shell is written.          *)
ConsoleInit ==
    LET c == Cleared([back |-> <<>>, next |-> 0, total |-> 0, row |-> 0,
                      col |-> 0, fb |-> <<>>, offset |-> 0,
                      mouse |-> <<0, COLS - 1>>, saved |-> Plain(Blank),
                      visible |-> FALSE])
    IN  /\ con = Written(c, Prompt)
        /\ rows = <<con.back[con.next]>> /\ paged = 0
        /\ edit = NewLine /\ hist = NoLines /\ said = <<>> /\ wiped = FALSE

(* Output goes to the terminal: what it does is told from the rows.        *)
Output(c, d) == con' = d /\ rows' = RowsOf(c, d, rows)

(* read_key snaps a view that was scrolled back before a character, Enter  *)
(* or backspace is used; the arrows and Delete are returned before that.   *)
Live == IF con.offset = 0 THEN con
        ELSE Drawn(Redrawn([con EXCEPT !.offset = 0]))
Key(d) == Output(con, d) /\ UNCHANGED paged

(* Also before one that does nothing more, as when the line is full.       *)
Snap ==
    /\ con.offset # 0 /\ Key(Live)
    /\ UNCHANGED <<edit, hist, said, wiped>>

Type(ch) ==
    /\ Len(edit.text) < LINE
    /\ LET text == InsertAt(edit.text, edit.cur + 1, ch)
           rest == SubSeq(text, edit.cur + 1, Len(text))
       IN  /\ Key(Left(Shown(Live, rest), Len(rest) - 1))
           /\ edit' = [text |-> text, cur |-> edit.cur + 1, pos |-> 0]
           /\ wiped' = (wiped \/ Len(rest) > 1)
    /\ UNCHANGED <<hist, said>>

(* Backspace (at = cur) and Delete (at = cur + 1) remove a character, show *)
(* the rest of the line and a blank.                                       *)
Delete(at) ==
    /\ at \in DOMAIN edit.text
    /\ LET text == RemoveAt(edit.text, at)
           rest == Append(SubSeq(text, at, Len(text)), Blank)
           from == IF at = edit.cur THEN Stepped(Live) ELSE con
       IN  /\ Key(Left(Shown(from, rest), Len(rest)))
           /\ edit' = [edit EXCEPT !.text = text, !.cur = at - 1]
           /\ wiped' = (wiped \/ Len(rest) > 1)
    /\ UNCHANGED <<hist, said>>

Back ==     \* the left arrow
    /\ edit.cur > 0 /\ Key(Stepped(con))
    /\ edit' = [edit EXCEPT !.cur = @ - 1] /\ wiped' = TRUE
    /\ UNCHANGED <<hist, said>>

Forth ==    \* the right arrow shows the character it passes
    /\ edit.cur < Len(edit.text) /\ Key(Written(con, edit.text[edit.cur + 1]))
    /\ edit' = [edit EXCEPT !.cur = @ + 1]
    /\ UNCHANGED <<hist, said, wiped>>

(* The arrows up and down show an earlier line in place of this one.       *)
Recall(pos) ==
    /\ pos > 0 => Get(hist, pos) # <<>>
    /\ LET n == Len(edit.text)
           rest == SubSeq(edit.text, edit.cur + 1, n)
           text == Get(hist, pos)
       IN  /\ Key(Shown(Erased(Shown(con, rest), n), text))
           /\ edit' = [text |-> text, cur |-> Len(text), pos |-> pos]
    /\ wiped' = FALSE /\ UNCHANGED <<hist, said>>

Enter ==
    /\ Len(rows) < MaxLines
    /\ LET d == Advanced(Live)
           p == Written(d, Prompt)
       IN  /\ con' = p
           /\ rows' = RowsOf(d, p, RowsOf(Live, d, rows))
    /\ hist' = Pushed(hist, edit.text)
    /\ said' = IF edit.text = <<>> \/ (said # <<>> /\ Last(said) = edit.text)
               THEN said ELSE Append(said, edit.text)
    /\ edit' = NewLine /\ wiped' = FALSE /\ UNCHANGED paged

(* PageUp and PageDown move the view, and show the pointer again.          *)
Page(offset) ==
    /\ Pages
    /\ con' = Drawn(Redrawn([con EXCEPT !.offset = offset]))
    /\ paged' = con.total /\ UNCHANGED <<rows, edit, hist, said, wiped>>
PageUp ==
    LET most == IF con.total > ROWS THEN con.total - ROWS ELSE 0
    IN  Page(IF con.offset + STEP > most THEN most ELSE con.offset + STEP)
PageDown == Page(IF con.offset < STEP THEN 0 ELSE con.offset - STEP)

(* mouse_move: once the pointer is shown, the cell it leaves is put back   *)
(* as it was when the pointer came, whatever was written there since.      *)
Move(p) ==
    /\ p \in Points /\ p # con.mouse
    /\ con' = IF con.visible
              THEN Drawn([con EXCEPT !.fb[con.mouse] = con.saved, !.mouse = p])
              ELSE [con EXCEPT !.mouse = p, !.saved = con.fb[p]]
    /\ UNCHANGED <<rows, paged, edit, hist, said, wiped>>

ConsoleNext ==
    \/ \E ch \in Chars : Type(ch)
    \/ Delete(edit.cur) \/ Delete(edit.cur + 1)
    \/ Back \/ Forth \/ Enter \/ Snap
    \/ Recall(edit.pos + 1) \/ (edit.pos > 0 /\ Recall(edit.pos - 1))
    \/ PageUp \/ PageDown \/ \E p \in Points : Move(p)

ConsoleSpec == ConsoleInit /\ [][ConsoleNext]_consoleVars

-----------------------------------------------------------------------------
Wrap(i) == (con.next - i + SCROLLBACK) % SCROLLBACK
Text(r) == [c \in 0 .. COLS - 1 |-> con.fb[<<r, c>>][1]]

(* The ring holds the latest rows, the current one at buf_next             *)
(* (backbuf_advance, vga_putchar, vga_backspace).                          *)
RingHoldsLatest ==
    \A i \in 0 .. Len(rows) - 1 :
        i < SCROLLBACK => con.back[Wrap(i)] = rows[Len(rows) - i]

(* A live screen that was never scrolled shows the row of the cursor and   *)
(* those above it, whatever the pointer did in between (vga_putchar,       *)
(* vga_fb_scroll_one, mouse_move).                                         *)
ScreenIsLive ==
    paged = 0 => \A i \in 0 .. con.row :
        Text(con.row - i) = rows[Len(rows) - i]

(* A view that is scrolled back shows rows of the history that follow each *)
(* other, if the ring held them all when it was moved, whatever the arrows *)
(* and Delete wrote since (vga_scroll_up, vga_redraw, read_key).           *)
ViewInOrder ==
    con.offset > 0 /\ paged < SCROLLBACK => \A r \in 0 .. ROWS - 1 :
        LET src == paged - ROWS - con.offset + r
        IN  Text(r) = IF src < ROWS THEN BlankRow ELSE rows[src - ROWS + 1]

(* The cursor of the terminal stands where the place in the line is, and a *)
(* line nobody went back in is shown as it is (read_line).                 *)
LineShown ==
    /\ con.col = (1 + edit.cur) % COLS
    /\ ~wiped /\ con.offset = 0 /\ paged = 0 =>
        Text(con.row) = [c \in 0 .. COLS - 1 |->
            IF c = 0 THEN Prompt ELSE
            IF c <= Len(edit.text) THEN edit.text[c] ELSE Blank]

(* hist_get(k) is the k-th latest line entered, a line repeated at once    *)
(* counting once (hist_push).                                              *)
RemembersLatest ==
    \A k \in 1 .. HIST_MAX :
        Get(hist, k) = IF k > Len(said) THEN <<>> ELSE said[Len(said) + 1 - k]
=============================================================================
