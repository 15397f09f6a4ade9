------------------------------ MODULE FileStore ------------------------------
(***************************************************************************)
(* What a flat file system promises: a name stands for a sequence of       *)
(* bytes, a write puts bytes at an offset and fills a gap with zeroes.     *)
(***************************************************************************)
EXTENDS Integers, Sequences

CONSTANTS Names, Bytes, Offsets, Lengths

VARIABLE store   \* [name -> its bytes], for the names that exist

Init == store = <<>>

Create(name) ==
    /\ name \notin DOMAIN store
    /\ store' = [n \in DOMAIN store \cup {name} |-> IF n = name THEN <<>> ELSE store[n]]

Remove(name) ==
    /\ name \in DOMAIN store
    /\ store' = [n \in DOMAIN store \ {name} |-> store[n]]

Patched(old, offset, length, b) ==
    LET end == IF offset + length > Len(old) THEN offset + length ELSE Len(old)
    IN [i \in 1..end |-> IF i > offset /\ i <= offset + length THEN b
                         ELSE IF i <= Len(old) THEN old[i] ELSE 0]

Write(name, offset, length, b) ==
    /\ name \in DOMAIN store
    /\ store' = [store EXCEPT ![name] = Patched(@, offset, length, b)]

Next ==
    \E name \in Names :
        \/ Create(name) \/ Remove(name)
        \/ \E o \in Offsets, l \in Lengths, b \in Bytes : Write(name, o, l, b)

Spec == Init /\ [][Next]_store
=============================================================================
