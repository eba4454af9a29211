------------------------------ MODULE MCCommands -----------------------------
(* Commands on two keys and a handful of values. *)
EXTENDS Commands, TLC

CONSTANTS k1, k2

MCKeys == {k1, k2}
MCTexts == {"t"}
MCStrings == {IntText(n) : n \in Long} \cup {Text(t) : t \in MCTexts}
MCSetValues == {IntText(LongMax), Text("t")}
MCOperand == [s \in {"-1", "0", "1", "2"} |->
    CASE s = "-1" -> -1 [] s = "0" -> 0 [] s = "1" -> 1 [] s = "2" -> 2]

\* Every option alone, the pairs the parser refuses, operands that are
\* missing, not numbers or negative, a deadline of 0 among others, and options
\* that combine.
MCSetOptions ==
    {<<>>, <<"NX">>, <<"XX", "GET">>, <<"GET">>, <<"KEEPTTL">>,
     <<"PX", "1">>, <<"EX", "1", "NX">>, <<"PXAT", "2">>, <<"PXAT", "0">>, <<"EXAT", "1", "XX">>,
     <<"PX", "-1">>, <<"PXAT", "-1">>, <<"PX">>, <<"PX", "x">>, <<"NX", "XX">>,
     <<"XX", "NX">>, <<"PX", "1", "KEEPTTL">>, <<"KEEPTTL", "PX", "1">>,
     <<"PX", "1", "EX", "1">>, <<"KEEPTTL", "GET", "XX">>,
     <<"PXAT", "0", "KEEPTTL">>, <<"KEEPTTL", "PXAT", "0">>, <<"PXAT", "0", "PX", "1">>}
MCRangeArgs == {"-1", "0", "x"}

Symmetry == Permutations({k1, k2})
==============================================================================
