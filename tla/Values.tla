------------------------------- MODULE Values --------------------------------
(***************************************************************************)
(* The strings clients store and the replies they get.  A string is told   *)
(* apart by how the number parsers of the server read it:                  *)
(*   <<"int", n>>     the decimal text of n, as snprintf("%ld") writes it  *)
(*   <<"padded", n>>  other text that strtol reads whole as n, like "007"  *)
(*   <<"text", t>>    text that is no number; the empty string is Empty    *)
(***************************************************************************)
EXTENDS Integers, Sequences

CONSTANTS
    LongMax,   \* the largest long: the numbers stored
    IntMax     \* the largest int: the numbers replied

ASSUME WidthAssumption == LongMax \in Nat /\ IntMax \in Nat /\ IntMax <= LongMax

\* Conversion to the signed type whose largest value is max.
Wrap(n, max) == ((n + max + 1) % (2 * max + 2)) - max - 1

Long == (-LongMax - 1) .. LongMax

IntText(n) == <<"int", n>>
Padded(n) == <<"padded", n>>
Text(t) == <<"text", t>>
Empty == Text("")

\* parse_integer fails on text that is no number.
IsNumber(s) == s[1] \in {"int", "padded"}
Number(s) == s[2]

\* The reply writers of commands.c.
Simple(s) == <<"simple", s>>
Ok == Simple("OK")
Null == <<"null">>
Bulk(s) == <<"bulk", s>>
Array(items) == <<"array", items>>
Err(e) == <<"error", e>>

\* add_integer_reply takes an int, whatever the caller has.
add_integer_reply(n) == <<"integer", Wrap(n, IntMax)>>
==============================================================================
