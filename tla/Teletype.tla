------------------------------ MODULE Teletype ------------------------------
(***************************************************************************)
(* What a console promises: characters go onto a roll of paper that only   *)
(* grows, and a reader sees its last Height lines.                         *)
(***************************************************************************)
EXTENDS Integers, Sequences

CONSTANTS Width, Height, Tab, Letters

VARIABLES paper,   \* the lines, each [column -> letter]
          head     \* <<line, column>>, where the next letter goes

blank == [x \in 0..(Width - 1) |-> " "]

Init == paper = [l \in 1..Height |-> blank] /\ head = <<1, 0>>

\* A line is full when its last column has been left
Moved(l, x) == IF x >= Width THEN <<l + 1, 0>> ELSE <<l, x>>
Fed(p, h) == IF h[1] > Len(p) THEN Append(p, blank) ELSE p

Type(p, h) == head' = h /\ paper' = Fed(p, h)

Put(c) ==
    LET l == head[1]
        x == head[2]
        back == IF x > 0 THEN x - 1 ELSE 0
    IN CASE c = "newline" -> Type(paper, <<l + 1, 0>>)
         [] c = "return" -> Type(paper, <<l, 0>>)
         [] c = "tab" -> Type(paper, Moved(l, (x \div Tab + 1) * Tab))
         [] c = "backspace" -> Type([paper EXCEPT ![l][back] = " "], <<l, back>>)
         [] OTHER -> Type([paper EXCEPT ![l][x] = c], Moved(l, x + 1))

Controls == {"newline", "return", "tab", "backspace"}
=============================================================================
