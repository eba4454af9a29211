----------------------------- MODULE RespWriter ------------------------------
(***************************************************************************)
(* The writers of src/resp.c and the replies src/commands.c builds from    *)
(* them.  A byte is a character, a text a sequence of them.  A writer that *)
(* finds no room in the output buffer says so on stderr and returns: the   *)
(* rest of the reply is written all the same.                              *)
(***************************************************************************)
EXTENDS Integers, Sequences, SequencesExt

CONSTANT OutSize      \* RING_BUFFER_SIZE, for the output buffer

ASSUME OutAssumption == OutSize \in Nat

CR == "\r"
LF == "\n"
NUL == "0x00"
crlf == <<CR, LF>>
Digit == <<"0", "1", "2", "3", "4", "5", "6", "7", "8", "9">>

\* %ld, for numbers of at most two digits.
Decimal(n) ==
    IF n < 0 THEN <<"-", Digit[1 - n]>>
    ELSE IF n < 10 THEN <<Digit[n + 1]>>
    ELSE <<Digit[(n \div 10) + 1], Digit[(n % 10) + 1]>>

\* One call of a writer.  A "header" leaves snprintf to write its last byte.
Mark(bytes) == [op |-> "mark", bytes |-> bytes]
Header(bytes) == [op |-> "header", bytes |-> bytes]

write_begin_simple_string == Mark(<<"+">>)
write_end_simple_string == Mark(crlf)
write_begin_error == Mark(<<"-">>)
write_end_error == Mark(crlf)
write_begin_integer == Mark(<<":">>)
write_end_integer == Mark(crlf)
write_begin_bulk_string(len) ==
    IF len = -1 THEN Header(<<"$", "-", "1">>) ELSE Mark(<<"$">> \o Decimal(len) \o crlf)
write_end_bulk_string == Mark(crlf)
write_begin_array(len) == Header(<<"*">> \o Decimal(len) \o crlf)
write_chars(str) == [op |-> "chars", bytes |-> str]

\* What a call makes of the output buffer.  snprintf puts its NUL over the
\* last byte when the room is just the length; write_chars copies before it
\* looks, over the bytes that were to be sent first.
Write(out, call) ==
    LET room == OutSize - Len(out)
        len == Len(call.bytes)
    IN  IF len < room \/ (len = room /\ call.op # "header") THEN out \o call.bytes
        ELSE IF len = room THEN out \o Front(call.bytes) \o <<NUL>>
        ELSE IF call.op = "chars"
        THEN SubSeq(call.bytes, room + 1, len) \o SubSeq(out, len - room + 1, Len(out))
        ELSE out

\* The call had no room for its bytes and snprintf's NUL.
Short(out, call) ==
    LET len == Len(call.bytes) + (IF call.op = "header" THEN 1 ELSE 0)
    IN  OutSize - Len(out) < len

------------------------------------------------------------------------------
add_simple_string_reply(str) ==
    <<write_begin_simple_string, write_chars(str), write_end_simple_string>>
add_error_reply(str) == <<write_begin_error, write_chars(str), write_end_error>>
add_integer_reply(n) == <<write_begin_integer, write_chars(Decimal(n)), write_end_integer>>
add_bulk_string_reply(str) ==
    <<write_begin_bulk_string(Len(str)), write_chars(str), write_end_bulk_string>>
add_null_reply == <<write_begin_bulk_string(-1), write_end_bulk_string>>
add_array_reply(array) ==
    <<write_begin_array(Len(array))>>
        \o FlattenSeq([i \in DOMAIN array |-> add_bulk_string_reply(array[i])])

\* A reply is a sequence of calls, and these are the bytes it should be.
Bytes(reply) == FlattenSeq([i \in DOMAIN reply |-> reply[i].bytes])
==============================================================================
