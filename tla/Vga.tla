--------------------------------- MODULE Vga ---------------------------------
(***************************************************************************)
(* The text console of modules/vga/vga.cpp: a buffer of cells, a cursor,   *)
(* and a scroll that copies the rows.  Colours are left out.  The roll of  *)
(* a Teletype runs along to say what the buffer should show.               *)
(***************************************************************************)
EXTENDS Integers, Sequences

CONSTANTS width, height,
          tab,       \* 8 in the code
          Letters,
          MaxPuts    \* characters put since the last clear

ASSUME Sizes == width \in Nat \ {0} /\ height \in Nat \ {0} /\ tab \in Nat \ {0} /\ MaxPuts \in Nat

VARIABLES buffer_, column_, row_,
          paper, head,   \* the roll
          puts

vga_vars == <<buffer_, column_, row_, paper, head, puts>>

Roll == INSTANCE Teletype WITH Width <- width, Height <- height, Tab <- tab

Cells == 0..(width * height - 1)
Blank == [n \in Cells |-> " "]

\* vga_module_init() clears the screen
VgaInit == buffer_ = Blank /\ column_ = 0 /\ row_ = 0 /\ Roll!Init /\ puts = 0

clear ==
    /\ puts > 0 /\ puts' = 0
    /\ buffer_' = Blank /\ column_' = 0 /\ row_' = 0
    /\ paper' = [l \in 1..height |-> Roll!blank] /\ head' = <<1, 0>>

put_cell(x, y, c) ==
    IF x < width /\ y < height THEN [buffer_ EXCEPT ![y * width + x] = c] ELSE buffer_

\* The rows move up and the last one keeps what it had.
ScrolledKept(b) == [n \in Cells |-> IF n < (height - 1) * width THEN b[n + width] ELSE b[n]]

\* scroll()
Scrolled(b) == [n \in Cells |-> IF n < (height - 1) * width THEN b[n + width] ELSE " "]

Wraps(x) == x >= width

\* The end of put(): wrap at the last column, scroll behind the last row
Settle(b, x, y) ==
    LET row == IF Wraps(x) THEN y + 1 ELSE y
    IN /\ column_' = IF Wraps(x) THEN 0 ELSE x
       /\ row_' = IF row >= height THEN height - 1 ELSE row
       /\ buffer_' = IF row >= height THEN Scrolled(b) ELSE b

put(c) ==
    LET back == IF column_ > 0 THEN column_ - 1 ELSE 0
    IN /\ puts < MaxPuts /\ puts' = puts + 1 /\ Roll!Put(c)
       /\ CASE c = "newline" -> Settle(buffer_, 0, row_ + 1)
            [] c = "return" -> Settle(buffer_, 0, row_)
            [] c = "tab" -> Settle(buffer_, ((column_ + tab) \div tab) * tab, row_)
            [] c = "backspace" -> Settle(put_cell(back, row_, " "), back, row_)
            [] OTHER -> Settle(put_cell(column_, row_, c), column_ + 1, row_)

VgaNext == clear \/ \E c \in Letters \cup Roll!Controls : put(c)

VgaSpec == VgaInit /\ [][VgaNext]_vga_vars

----------------------------------------------------------------------------
top == Len(paper) - height

\* Whatever is put, in whatever order, the screen shows the last lines of the
\* roll and the cursor is where the next letter goes: a wrap and a newline at
\* the last column, a tab over the edge, a scroll with a half written row.
ShowsTheLastLines ==
    /\ \A y \in 0..(height - 1), x \in 0..(width - 1) : buffer_[y * width + x] = paper[top + y + 1][x]
    /\ head = <<top + row_ + 1, column_>>
=============================================================================
