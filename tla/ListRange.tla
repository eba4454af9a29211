------------------------------ MODULE ListRange ------------------------------
(***************************************************************************)
(* lrange of src/linked_list.c on a list given as the sequence of its      *)
(* items.  Indices count from 0, negative ones from the end.               *)
(***************************************************************************)
EXTENDS Integers, Sequences, FiniteSets

\* What a range is: the items from index start to index end, both counted
\* from the end when negative.  A start before the first item gives nothing.
Slice(items, start, end) ==
    LET n == Len(items)
        At(i) == IF i < 0 THEN i + n ELSE i
        in == {i \in 1 .. n : At(start) <= i - 1 /\ i - 1 <= At(end)}
    IN  IF At(start) < 0 THEN <<>>
        ELSE [j \in 1 .. Cardinality(in) |-> items[At(start) + j]]

\* A start before the first item gives the empty range, an end past the last
\* item is cut.
lrange(items, start, end) ==
    LET n == Len(items)
        s == IF start < 0 THEN n + start ELSE start
        e == IF end < 0 THEN n + end ELSE end
    IN  IF s < 0 \/ s >= n \/ e < s
        THEN <<>>
        ELSE SubSeq(items, s + 1, IF e >= n THEN n ELSE e + 1)
==============================================================================
