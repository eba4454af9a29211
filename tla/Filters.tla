------------------------------- MODULE Filters -------------------------------
(***************************************************************************)
(* The members of a sequence that are in a set, in their order: SelectSeq  *)
(* with a set for its test, which the proofs can quantify over.            *)
(***************************************************************************)
EXTENDS Integers, Sequences

Filter(s, T) ==
    LET kept[i \in 0 .. Len(s)] ==
            IF i = 0 THEN <<>>
            ELSE IF s[i] \in T THEN Append(kept[i - 1], s[i]) ELSE kept[i - 1]
    IN  kept[Len(s)]

Members(s) == {s[i] : i \in 1 .. Len(s)}
Distinct(s) == \A i, j \in 1 .. Len(s) : s[i] = s[j] => i = j
==============================================================================
