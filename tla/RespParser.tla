----------------------------- MODULE RespParser ------------------------------
(***************************************************************************)
(* One connection from its bytes to its replies: process_client_input of   *)
(* src/client.c, the parser of src/resp.c, the callbacks and the dispatch  *)
(* of src/command_handler.c, and the commands of src/commands.c that need  *)
(* no key.  The client's bytes are chosen in Init; the network hands them  *)
(* over in pieces of any size.                                             *)
(*                                                                         *)
(* Every call of a parse function or of a writer is a step.  A state with  *)
(* lost # "no" is where the model ends: what the parser makes of the rest  *)
(* of a stream once it has lost its place in it, and what follows a read   *)
(* or a write outside of an array, is left out.                            *)
(***************************************************************************)
EXTENDS RespWriter, FiniteSets

CONSTANTS
    Scripts,      \* the sequences of messages a client may send
    InSize,       \* RING_BUFFER_SIZE, for the input buffer
    InitialArgs,  \* initial_arg_capacity
    MaxStackDepth, \* MAX_STACK_DEPTH
    MaxBlocks     \* bound: flushes the socket cuts short

ASSUME InAssumption ==
    /\ InSize \in Nat \ {0} /\ InitialArgs \in Nat /\ MaxStackDepth \in Nat \ {0}
    /\ MaxBlocks \in Nat

VARIABLES
    script,       \* the messages the client sends
    unread,       \* their bytes that were not read yet
    input_buffer, \* the bytes read and not yet parsed
    stack,        \* the parser's stack: states and lengths
    buf,          \* CommandHandler's buf, buf_used characters of it
    ends,         \* where its arguments end
    capacity,     \* ends_capacity
    pc,           \* "epoll", "read", "parse" or "flush"
    filled,       \* bytes_received = writable_len
    executed,     \* the commands executed and the simple strings handled
    reply,        \* the calls that are still to write the reply
    output,       \* output_buffer
    delivered,    \* the bytes written to the socket
    blocked,      \* the last flush left bytes in the buffer
    blocks,       \* how many did, to bound them
    lost,         \* "no", or how the parser has lost the stream or its memory:
                  \* "torn", "full", "stale", "spilled" or "exit"
    short         \* history: a writer had no room

parser == <<stack, buf, ends, capacity>>
out == <<reply, output, delivered, blocked, blocks, short>>
vars == <<script, unread, input_buffer, parser, pc, filled, executed, out, lost>>

Space == " "
Quotes == {"'", "\""}

\* What a client sends: commands as arrays of strings or as lines, the replies
\* of a master, to a replica, and other bytes the parser takes for messages.
Encode(m) ==
    CASE m.form = "array" -> Bytes(add_array_reply(m.args))
      [] m.form = "line" -> m.line \o crlf
      [] m.form = "reply" -> <<m.sign>> \o m.text \o crlf
      [] m.form = "other" -> m.bytes

Wire(s) == FlattenSeq([i \in DOMAIN s |-> Encode(s[i])])

------------------------------------------------------------------------------
(* Commands that need no key; each returns the reply it writes *)

PING == <<"P">>
ECHO == <<"E">>
CONFIG == <<"C">>
INFO == <<"I">>
REPLCONF == <<"R">>
GETPARAM == <<"G">>
DIR == <<"d">>
FULLRESYNC == <<"F">>
Error == add_error_reply(<<"e">>)

handle_ping(args) ==
    IF Len(args) = 1 THEN add_simple_string_reply(<<"p">>)
    ELSE IF Len(args) = 2 THEN add_simple_string_reply(args[2]) ELSE Error

handle_echo(args) == IF Len(args) = 2 THEN add_simple_string_reply(args[2]) ELSE Error

\* A name and its value for every parameter; only GET is answered at all.
handle_config(args) ==
    IF Len(args) < 3 THEN Error
    ELSE IF args[2] # GETPARAM THEN <<>>
    ELSE IF \E i \in 3 .. Len(args) : args[i] # DIR THEN Error
    ELSE add_array_reply([i \in 1 .. 2 * (Len(args) - 2) |-> IF i % 2 = 1 THEN DIR ELSE <<"t">>])

handle_info(args) == add_bulk_string_reply(<<"r", CR, LF>>)

\* REPLCONF GETACK * is answered with the offset, any other is accepted.
handle_replconf(args) ==
    IF Len(args) >= 3 /\ args[2] = GETPARAM /\ args[3] = <<"*">>
    THEN add_array_reply(<<REPLCONF, <<"A">>, <<"0">>>>)
    ELSE add_simple_string_reply(<<"o">>)

\* Without arguments args[0] is what an earlier command, or malloc, left there.
handle_command(args) ==
    CASE args = <<>> -> <<>>
      [] args[1] = PING -> handle_ping(args)
      [] args[1] = ECHO -> handle_echo(args)
      [] args[1] = CONFIG -> handle_config(args)
      [] args[1] = INFO -> handle_info(args)
      [] args[1] = REPLCONF -> handle_replconf(args)
      [] OTHER -> Error

------------------------------------------------------------------------------
(* The callbacks of command_handler.c *)

Command(args) == [kind |-> "command", args |-> args]
SimpleString(text) == [kind |-> "simple", args |-> <<text>>]

\* The size a handler computes from a negative length wraps, realloc fails and
\* the process exits: any such array, and a string with nothing before it.
Exits(type, length) == length < 0 /\ (type = "ARRAY_LENGTH" \/ buf = <<>>)

\* Mutant: only args grows with the length of the array.
Grown_ArgsOnly(len) == capacity

\* begin_array_handler grows ends as well as args.
Grown(len) == IF len > capacity THEN len ELSE capacity

begin_array_handler(len) ==
    /\ buf' = <<>>
    /\ ends' = <<>>
    /\ capacity' = Grown(len)

\* The characters are collected, and the end of an argument is noted.  The
\* size of buf is left out.
chars_handler(chars) == buf \o chars
end_bulk_string_handler(b) == Append(ends, Len(b))

\* end_array_handler cuts b into the arguments that end at e, and executes.
Split(b, e) == [i \in DOMAIN e |-> SubSeq(b, (IF i = 1 THEN 0 ELSE e[i - 1]) + 1, e[i])]

end_array_handler(b, e) ==
    /\ executed' = Append(executed, Command(Split(b, e)))
    /\ reply' = handle_command(Split(b, e))
    /\ UNCHANGED <<output, delivered, blocked, blocks, short>>

\* The end of a string was written beyond the array of ends.
Spilled(e, c) == IF Len(e) > c THEN "spilled" ELSE lost

\* A command without arguments is not the client's.  Nor is the one that an
\* array which contains this one ends with: arg_count is reset where an array
\* begins, and the arguments before it were freed.
Executed(e, c) == IF e = <<>> \/ Len(stack) > 2 THEN "stale" ELSE Spilled(e, c)

------------------------------------------------------------------------------
(* The parser *)

State(type, length) == [type |-> type, length |-> length]
Top == Last(stack)
push_state(s, new) == IF Len(s) < MaxStackDepth THEN Append(s, new) ELSE s
pop_state(s) == IF Len(s) > 1 THEN Front(s) ELSE s

\* Mutant: the parser takes the header of the snapshot for a string.
AwaitsHeader_Never == FALSE

\* A replica leaves what follows +FULLRESYNC to another parser.
AwaitsHeader == executed # <<>> /\ Last(executed) = SimpleString(FULLRESYNC)

Parsing(types) == pc = "parse" /\ reply = <<>> /\ ~ AwaitsHeader /\ Top.type \in types
Idle == UNCHANGED <<script, unread, filled>>

\* Mutant: the replies of the last commands are not flushed.
Return_NoFlush == pc' = IF filled THEN "read" ELSE "epoll"

\* parser_parse is back in process_client_input, which reads again when the
\* read before has filled the buffer.
Return == pc' = IF filled THEN "read" ELSE "flush"

parser_parse_returns ==
    /\ pc = "parse" /\ AwaitsHeader
    /\ Return
    /\ Idle /\ UNCHANGED <<input_buffer, parser, executed, out, lost>>

Begins(ch) ==
    CASE ch = "+" -> "SIMPLE"
      [] ch \in {"-", ":"} -> "SIMPLE_UNIMPLEMENTED"
      [] ch = "$" -> "BULK_STRING_LENGTH"
      [] ch = "*" -> "ARRAY_LENGTH"
      [] OTHER -> "INLINE_COMMAND"

parse_initial ==
    /\ Parsing({"INITIAL_TERMINAL", "INITIAL"})
    /\ IF input_buffer = <<>>
       THEN Return /\ UNCHANGED <<stack, input_buffer, buf>>
       ELSE LET ch == Head(input_buffer)
                below == IF Top.type = "INITIAL" THEN pop_state(stack) ELSE stack
            IN  /\ stack' = push_state(below, State(Begins(ch), 0))
                /\ input_buffer' = IF Begins(ch) = "INLINE_COMMAND" THEN input_buffer
                                   ELSE Tail(input_buffer)
                /\ buf' = IF ch = "+" THEN <<>> ELSE buf
                /\ UNCHANGED pc
    /\ Idle /\ UNCHANGED <<ends, capacity, executed, out, lost>>

\* How many bytes come before the first ch.
Before(bytes, ch) ==
    LET i == SelectInSeq(bytes, LAMBDA b : b = ch) IN IF i = 0 THEN Len(bytes) ELSE i - 1
Drop(bytes, n) == SubSeq(bytes, n + 1, Len(bytes))

\* Mutant: the CR is taken for the end of the string.
EndsAt_CR(pos) == Len(input_buffer) > pos

\* There is a CRLF after pos bytes.
EndsAt(pos) == Len(input_buffer) >= pos + 2 /\ SubSeq(input_buffer, pos + 1, pos + 2) = crlf

\* The characters are passed on as they come, up to CR.
parse_simple ==
    /\ Parsing({"SIMPLE", "SIMPLE_UNIMPLEMENTED"})
    /\ LET pos == Before(input_buffer, CR)
           text == chars_handler(SubSeq(input_buffer, 1, pos))
       IN  IF EndsAt(pos)
           THEN /\ executed' = IF Top.type = "SIMPLE" THEN Append(executed, SimpleString(text))
                               ELSE executed
                /\ stack' = pop_state(stack)
                /\ input_buffer' = Drop(input_buffer, pos + 2)
                /\ buf' = text
                /\ UNCHANGED pc
           ELSE /\ Return
                /\ input_buffer' = Drop(input_buffer, pos)
                /\ buf' = text
                /\ UNCHANGED <<stack, executed>>
    /\ Idle /\ UNCHANGED <<ends, capacity, out, lost>>

\* strtol: the sign and the digits in front, and their value.
SignOf(bytes) == IF bytes # <<>> /\ Head(bytes) = "-" THEN 1 ELSE 0
DigitsOf(bytes) ==
    Before([i \in DOMAIN bytes |-> bytes[i] \in Range(Digit)], FALSE)
Value(digits) ==
    FoldLeft(LAMBDA n, d : 10 * n + SelectInSeq(Digit, LAMBDA x : x = d) - 1, 0, digits)

\* The length is taken when its CRLF is there as well, and nothing before.
parse_length ==
    /\ Parsing({"ARRAY_LENGTH", "BULK_STRING_LENGTH"})
    /\ LET sign == SignOf(input_buffer)
           n == sign + DigitsOf(Drop(input_buffer, sign))
           length == (IF sign = 1 THEN -1 ELSE 1) * Value(SubSeq(input_buffer, sign + 1, n))
       IN  IF n > sign /\ EndsAt(n)
           THEN /\ IF Top.type = "ARRAY_LENGTH"
                   THEN /\ begin_array_handler(length)
                        /\ stack' = push_state(pop_state(stack), State("ARRAY", length))
                   ELSE /\ stack' = push_state(pop_state(stack), State("BULK_STRING", length))
                        /\ UNCHANGED <<buf, ends, capacity>>
                /\ input_buffer' = Drop(input_buffer, n + 2)
                /\ lost' = IF Exits(Top.type, length) THEN "exit" ELSE lost
                /\ UNCHANGED pc
           ELSE Return /\ UNCHANGED <<input_buffer, parser, lost>>
    /\ Idle /\ UNCHANGED <<executed, out>>

\* The string of length -1 ends at once.  The characters of a string that is
\* cut are passed on, but its length is kept as it was: the parser takes as
\* many characters again.  Lengths below -1 are left out.
parse_bulk_string ==
    /\ Parsing({"BULK_STRING"})
    /\ LET length == Top.length
           taken == IF length < Len(input_buffer) THEN length ELSE Len(input_buffer)
       IN  IF length = -1
           THEN /\ ends' = end_bulk_string_handler(buf)
                /\ lost' = Spilled(ends', capacity)
                /\ stack' = pop_state(stack)
                /\ UNCHANGED <<input_buffer, buf, pc>>
           ELSE /\ buf' = chars_handler(SubSeq(input_buffer, 1, taken))
                /\ IF taken = length /\ Len(input_buffer) >= length + 2
                   THEN /\ ends' = end_bulk_string_handler(buf')
                        /\ lost' = Spilled(ends', capacity)
                        /\ stack' = pop_state(stack)
                        /\ input_buffer' = Drop(input_buffer, length + 2)
                        /\ UNCHANGED pc
                   ELSE /\ Return
                        /\ input_buffer' = Drop(input_buffer, taken)
                        /\ lost' = IF taken > 0 THEN "torn" ELSE lost
                        /\ UNCHANGED <<ends, stack>>
    /\ Idle /\ UNCHANGED <<capacity, executed, out>>

parse_array ==
    /\ Parsing({"ARRAY"})
    /\ IF Top.length \in {0, -1}
       THEN /\ end_array_handler(buf, ends)
            /\ lost' = Executed(ends, capacity)
            /\ stack' = pop_state(stack)
       ELSE /\ stack' = push_state([stack EXCEPT ![Len(stack)].length = @ - 1],
                                   State("INITIAL", 0))
            /\ UNCHANGED <<executed, out, lost>>
    /\ Idle /\ UNCHANGED <<input_buffer, buf, ends, capacity, pc>>

\* The words of a line.  One byte after a closing quote is passed over.
Words(line) ==
    LET n == Len(line)
        from[i \in 1 .. n + 3] ==
            IF i > n THEN <<>>
            ELSE IF line[i] = Space THEN from[i + 1]
            ELSE IF line[i] \in Quotes
            THEN LET len == Before(Drop(line, i), line[i])
                     end == i + 1 + len
                 IN  <<SubSeq(line, i + 1, end - 1)>> \o from[(IF end <= n THEN end + 1 ELSE end) + 1]
            ELSE LET end == i + Before(Drop(line, i - 1), Space)
                 IN  <<SubSeq(line, i, end - 1)>> \o from[IF end <= n THEN end + 1 ELSE end]
    IN  from[1]

\* The words of all the bytes that follow, as there is no NUL after the line.
\* A quote inside a word opens quotes here, and not for the words above: the
\* spaces after it do not separate.
count_tokens(bytes) ==
    LET Quoting(ch) == [q \in Quotes \cup {""} |->
            IF q = "" THEN IF ch \in Quotes THEN ch ELSE "" ELSE IF q = ch THEN "" ELSE q]
        quote[i \in 0 .. Len(bytes)] == IF i = 0 THEN "" ELSE Quoting(bytes[i])[quote[i - 1]]
        Separates(i) == bytes[i] = Space /\ quote[i - 1] = ""
    IN  Cardinality({i \in DOMAIN bytes :
                        /\ ~ Separates(i) /\ quote[i - 1] = ""
                        /\ i = 1 \/ Separates(i - 1)})

\* A line is executed when its CR is there.  Without its LF the parser goes on
\* beyond the bytes it was given.
parse_inline_command ==
    /\ Parsing({"INLINE_COMMAND"})
    /\ LET pos == Before(input_buffer, CR)
           words == Words(SubSeq(input_buffer, 1, pos))
           tokens == count_tokens(input_buffer)
       IN  IF pos < Len(input_buffer)
           THEN /\ capacity' = Grown(tokens)
                /\ buf' = FlattenSeq(words)
                /\ ends' = [i \in DOMAIN words |-> Len(FlattenSeq(SubSeq(words, 1, i)))]
                /\ end_array_handler(buf', ends')
                /\ stack' = pop_state(stack)
                /\ input_buffer' = Drop(input_buffer, pos + 2)
                /\ lost' = IF pos + 1 = Len(input_buffer) THEN "torn"
                           ELSE Executed(ends', capacity')
                /\ UNCHANGED pc
           ELSE Return /\ UNCHANGED <<input_buffer, parser, executed, out, lost>>
    /\ Idle

\* The next call of the command's handler.
add_reply ==
    /\ reply # <<>>
    /\ output' = Write(output, Head(reply))
    /\ short' = (short \/ Short(output, Head(reply)))
    /\ reply' = Tail(reply)
    /\ Idle /\ UNCHANGED <<input_buffer, parser, pc, executed, delivered, blocked, blocks, lost>>

parser_parse ==
    \/ add_reply
    \/ parser_parse_returns
    \/ parse_initial
    \/ parse_simple
    \/ parse_length
    \/ parse_bulk_string
    \/ parse_array
    \/ parse_inline_command

------------------------------------------------------------------------------
(* process_client_input *)

\* Mutant: off by one.
Room_OffByOne == InSize + 1 - Len(input_buffer)

Room == InSize - Len(input_buffer)
Reading == pc = "read" \/ (pc = "epoll" /\ ~ AwaitsHeader)

Init ==
    /\ script \in Scripts
    /\ unread = Wire(script)
    /\ input_buffer = <<>>
    /\ stack = <<State("INITIAL_TERMINAL", 0)>>
    /\ buf = <<>> /\ ends = <<>> /\ capacity = InitialArgs
    /\ pc = "epoll" /\ filled = FALSE
    /\ executed = <<>>
    /\ reply = <<>> /\ output = <<>> /\ delivered = <<>> /\ blocked = FALSE /\ blocks = 0 /\ short = FALSE
    /\ lost = "no"

\* The socket has some of the client's bytes.
Read ==
    /\ Reading
    /\ \E k \in 1 .. (IF Room < Len(unread) THEN Room ELSE Len(unread)) :
          /\ input_buffer' = input_buffer \o SubSeq(unread, 1, k)
          /\ unread' = Drop(unread, k)
          /\ filled' = (k = Room)
    /\ pc' = "parse"
    /\ UNCHANGED <<script, parser, executed, out, lost>>

\* A line without an end fills the buffer; no event will ever change that.
InputFull ==
    /\ Reading /\ Room = 0 /\ unread # <<>>
    /\ pc' = "epoll"
    /\ lost' = IF AwaitsHeader THEN lost ELSE "full"
    /\ UNCHANGED <<script, unread, input_buffer, parser, filled, executed, out>>

\* EWOULDBLOCK.
WouldBlock ==
    /\ pc = "read" /\ Room > 0
    /\ pc' = "flush"
    /\ UNCHANGED <<script, unread, input_buffer, parser, filled, executed, out, lost>>

\* Mutant: what the socket did not take is not kept.
Kept_None(k) == <<>>

Kept(k) == Drop(output, k)

\* The socket takes what it has room for.  EPOLLOUT is not asked for, so the
\* rest waits until the client sends something again.
flush_client_output ==
    /\ pc = "flush"
    /\ \E k \in IF blocks < MaxBlocks THEN 0 .. Len(output) ELSE {Len(output)} :
          /\ delivered' = delivered \o SubSeq(output, 1, k)
          /\ output' = Kept(k)
          /\ blocked' = (k < Len(output))
          /\ blocks' = IF k < Len(output) THEN blocks + 1 ELSE blocks
    /\ pc' = "epoll"
    /\ UNCHANGED <<script, unread, input_buffer, parser, filled, executed, reply, short, lost>>

Next ==
    /\ lost = "no"
    /\ \/ Read
       \/ InputFull
       \/ WouldBlock
       \/ parser_parse
       \/ flush_client_output

\* Bytes that were sent arrive, and an event is reported until they are read.
Spec == Init /\ [][Next]_vars /\ WF_vars(Next)

------------------------------------------------------------------------------
(* What the checks are about *)

\* The stack holds a message, an array in another and a string at most, and
\* neither ring buffer more than its size.
TypeOK ==
    /\ Len(input_buffer) <= InSize
    /\ Len(stack) \in 1 .. 4 /\ stack[1].type = "INITIAL_TERMINAL"
    /\ \A i \in DOMAIN stack : stack[i].length >= -1
    /\ pc \in {"epoll", "read", "parse", "flush"}
    /\ lost \in {"no", "torn", "full", "stale", "spilled", "exit"}
    /\ filled \in BOOLEAN /\ blocked \in BOOLEAN /\ short \in BOOLEAN
    /\ Len(output) <= OutSize /\ blocks \in 0 .. MaxBlocks

\* The reference: a message is received with its last byte, commands are
\* executed and simple strings handled as they were sent, up to +FULLRESYNC.
Got == Len(Wire(script)) - Len(unread)
Received ==
    Cardinality({j \in DOMAIN script : Len(Wire(SubSeq(script, 1, j))) <= Got})
Meaning(m) ==
    CASE m.form \in {"array", "line"} -> <<Command(m.args)>>
      [] m.form = "reply" -> IF m.sign = "+" THEN <<SimpleString(m.text)>> ELSE <<>>
      [] m.form = "other" -> m.means
Meant(n) ==
    LET all == FlattenSeq([i \in 1 .. n |-> Meaning(script[i])])
        stop == SelectInSeq(all, LAMBDA e : e = SimpleString(FULLRESYNC))
    IN  IF stop = 0 THEN all ELSE SubSeq(all, 1, stop)

\* Whatever the pieces in which the bytes come, when the event is over exactly
\* the messages that have wholly come were executed, with the arguments that
\* were sent: a cut inside a header, between the strings of an array or inside
\* a simple string is resumed by the state on the parser's stack.
Exact == pc = "epoll" /\ lost = "no" => executed = Meant(Received)

\* The parser of a replica consumes nothing after +FULLRESYNC, so that the
\* header and the snapshot that came with it are still in the input buffer
\* ("we do not want this parser to consume any bytes", resp.c:208).
HeaderLeft ==
    pc = "epoll" /\ lost = "no" =>
        \A n \in 1 .. Received :
            Meaning(script[n]) = <<SimpleString(FULLRESYNC)>> =>
                input_buffer = Drop(SubSeq(Wire(script), 1, Got), Len(Wire(SubSeq(script, 1, n))))

\* The client gets the replies to its commands, whole and in their order,
\* however the socket takes them, unless a writer had no room.
RepliesExact ==
    ~ short =>
        delivered \o output \o Bytes(reply) =
            LET done == SelectSeq(executed, LAMBDA e : e.kind = "command")
            IN  FlattenSeq([i \in DOMAIN done |-> Bytes(handle_command(done[i].args))])

\* Where quotes stand in a line: "bad" when one is inside a word, or when
\* something else than a space follows the quote that ends a word.
QuotesOf(line) ==
    LET after[i \in 0 .. Len(line)] ==
            IF i = 0 THEN "space"
            ELSE LET at == after[i - 1]
                     ch == line[i]
                 IN  CASE at \in Quotes -> IF ch = at THEN "closed" ELSE at
                       [] at \in {"space", "word", "closed"} /\ ch = Space -> "space"
                       [] at = "space" /\ ch # Space -> IF ch \in Quotes THEN ch ELSE "word"
                       [] at = "word" /\ ch \notin Quotes \cup {Space} -> "word"
                       [] OTHER -> "bad"
    IN  after[Len(line)]

\* The ends array, which only the callback for the begin of an array grows, has
\* room for what end_bulk_string_handler appends to it, when a client sends
\* arrays of strings, and lines in which quotes enclose whole words.
EndsFit ==
    Len(ends) > capacity =>
        \E i \in DOMAIN script :
            \/ script[i].form = "other"
            \/ script[i].form = "line" /\ QuotesOf(script[i].line) = "bad"

\* All that is sent is read, so executed, and answered, unless the stream was
\* torn or fills the buffer, or the socket did not take the last replies.
AllAnswered ==
    <>[] \/ lost # "no" \/ blocked
         \/ pc = "epoll" /\ output = <<>> /\ (unread = <<>> \/ AwaitsHeader)
==============================================================================
