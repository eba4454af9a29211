------------------------------- MODULE Commands ------------------------------
(***************************************************************************)
(* src/commands.c and handle_command of src/command_handler.c: what each   *)
(* command does to the database and what it replies.  Each handler runs to *)
(* completion before the next command (the server has one thread), so a    *)
(* handler is one action.  a is the arguments after the command's name and *)
(* sr the client's should_reply flag, which some replies ignore.           *)
(***************************************************************************)
EXTENDS Database, Values, ListRange, Filters

CONSTANTS
    Texts,        \* the texts in the database
    SetValues,    \* the values given to SET, LPUSH and RPUSH
    SetOptions,   \* the option lists given to SET
    RangeArgs,    \* the index arguments given to LRANGE
    Operand,      \* the number each numeric argument stands for
    Second,       \* milliseconds in a second
    MaxKeys,      \* bound: the most keys given to a command
    MaxItems      \* bound: the most items given to LPUSH or RPUSH

ASSUME StringsAssumption ==
    /\ Strings = {IntText(n) : n \in Long} \cup {Text(t) : t \in Texts}
    /\ SetValues \subseteq Strings
ASSUME OptionsAssumption == \A opts \in SetOptions : opts \in Seq(STRING)
\* What parse_integer reads as a number is not the name of an option.
ASSUME OperandAssumption ==
    /\ \A s \in DOMAIN Operand : Operand[s] \in Int
    /\ {"NX", "XX", "GET", "KEEPTTL", "EX", "PX", "EXAT", "PXAT"} \cap DOMAIN Operand = {}
    /\ Second \in Nat
ASSUME ArgsAssumption == MaxKeys \in Nat /\ MaxItems \in Nat

VARIABLES
    request,                    \* the last command: name, arguments, client
    reply,                      \* its replies, in order
    should_propogate_command,   \* the flag handle_command leaves behind
    rdb_file                    \* the table last written to the RDB file

vars == <<db, now, request, reply, should_propogate_command, rdb_file>>

Replying(sr, r) == IF sr THEN <<r>> ELSE <<>>

\* handle_command: the flag is reset, then set when the command was SET,
\* whether or not it succeeded.
Command(name, a, sr) ==
    /\ request' = [name |-> name, args |-> a, replies |-> sr]
    /\ should_propogate_command' = (name = "SET")
    /\ UNCHANGED now

\* Every command but SAVE leaves the RDB file alone.
Unsaved == UNCHANGED rdb_file

------------------------------------------------------------------------------
(* SET *)

NoOptions ==
    [nx |-> FALSE, xx |-> FALSE, get |-> FALSE, keepttl |-> FALSE,
     expiration |-> 0, skip |-> FALSE, err |-> "none"]

\* The deadline an expiration option gives for its operand: the product and
\* the sum are long and wrap.
Deadline(option, n, time) ==
    Wrap(CASE option = "EX"   -> time + n * Second
           [] option = "PX"   -> time + n
           [] option = "EXAT" -> n * Second
           [] option = "PXAT" -> n, LongMax)

Fails(o, e) == [o EXCEPT !.err = e]

\* One round of the loop over the options; skip marks an operand already
\* consumed by the option before it.
ParseOption(opts, time, o, i) ==
    CASE o.err # "none" -> o
      [] o.err = "none" /\ o.skip -> [o EXCEPT !.skip = FALSE]
      [] OTHER ->
           CASE opts[i] = "NX" -> IF o.xx THEN Fails(o, "syntax") ELSE [o EXCEPT !.nx = TRUE]
             [] opts[i] = "XX" -> IF o.nx THEN Fails(o, "syntax") ELSE [o EXCEPT !.xx = TRUE]
             [] opts[i] = "GET" -> [o EXCEPT !.get = TRUE]
             [] opts[i] = "KEEPTTL" ->
                  IF o.expiration # 0 THEN Fails(o, "syntax") ELSE [o EXCEPT !.keepttl = TRUE]
             [] opts[i] \in {"EX", "PX", "EXAT", "PXAT"} /\ i < Len(opts) ->
                  IF o.expiration # 0 \/ o.keepttl
                  THEN Fails(o, "syntax")
                  ELSE IF opts[i + 1] \notin DOMAIN Operand
                  THEN Fails(o, "value")
                  ELSE [o EXCEPT !.skip = TRUE,
                                 !.expiration = Deadline(opts[i], Operand[opts[i + 1]], time)]
             [] OTHER -> o

parse_set_options(opts, time) ==
    LET parsed[i \in 0 .. Len(opts)] ==
            IF i = 0 THEN NoOptions ELSE ParseOption(opts, time, parsed[i - 1], i)
    IN  parsed[Len(opts)]

\* The text strdup finds behind a value: for a list the union holds a
\* pointer, and what is read through it is not text anybody stored.
TextsOf(value) == IF value.type = "string" THEN {value.data} ELSE Strings

\* The old value as the handlers read it.
OldTexts(d, key, exists) == IF exists THEN TextsOf(d.h[key]) ELSE {Empty}

\* NX refuses a key that exists, XX one that does not.
Refused(o, exists) == (o.nx /\ exists) \/ (o.xx /\ ~ exists)

\* Mutant: KEEPTTL keeps nothing.
NewExpiration_NoKeep(o, d, key, exists) == o.expiration

\* KEEPTTL keeps the expiration of a key that exists.
NewExpiration(o, d, key, exists) ==
    IF o.keepttl /\ exists THEN d.h[key].expiration ELSE o.expiration

handle_set(a, sr) ==
    LET o == parse_set_options(SubSeq(a, 3, Len(a)), now)
        \* the key is looked up only when an option asks for it
        looks == o.nx \/ o.xx \/ o.get \/ o.keepttl
        d == IF looks THEN get(db, a[1], now) ELSE db
        exists == looks /\ Found(db, a[1], now)
    IN  /\ Command("SET", a, sr)
        /\ IF Len(a) < 2
           THEN reply' = <<Err("arity")>> /\ UNCHANGED db
           ELSE IF o.err # "none" \/ o.expiration < 0
           THEN /\ reply' = Replying(sr, Err(IF o.err # "none" THEN o.err ELSE "expiration"))
                /\ UNCHANGED db
           ELSE IF Refused(o, exists)
           THEN reply' = Replying(sr, Null) /\ db' = d
           ELSE /\ db' = set(d, a[1], String(a[2], NewExpiration(o, d, a[1], exists)))
                /\ \E old \in OldTexts(d, a[1], exists) :
                      reply' = Replying(sr, IF ~ o.get THEN Ok
                                            ELSE IF exists THEN Bulk(old) ELSE Null)
        /\ Unsaved

------------------------------------------------------------------------------
(* The other commands on strings *)

handle_get(a, sr) ==
    /\ Command("GET", a, sr)
    /\ IF Len(a) # 1
       THEN reply' = Replying(sr, Err("arity")) /\ UNCHANGED db
       ELSE /\ db' = get(db, a[1], now)
            /\ reply' = Replying(sr,
                 IF ~ Found(db, a[1], now) THEN Null
                 ELSE IF db.h[a[1]].type # "string" THEN Err("type")
                 ELSE Bulk(db.h[a[1]].data))
    /\ Unsaved

\* How many of the arguments are in the table.
CountExisting(d, a) == Len(Filter(a, {k \in Keys : exist(d, k)}))

handle_exist(a, sr) ==
    /\ Command("EXIST", a, sr)
    /\ reply' = IF Len(a) < 1
                THEN <<Err("arity")>>
                ELSE <<add_integer_reply(CountExisting(db, a))>>
    /\ Unsaved /\ UNCHANGED db

\* One redis_db_delete per argument.
DeleteAll(d, a) ==
    LET left[i \in 0 .. Len(a)] == IF i = 0 THEN d ELSE delete(left[i - 1], a[i])
    IN  left[Len(a)]

handle_delete(a, sr) ==
    /\ Command("DEL", a, sr)
    /\ IF Len(a) < 1
       THEN reply' = <<Err("arity")>> /\ UNCHANGED db
       ELSE /\ db' = DeleteAll(db, a)
            /\ reply' = Replying(sr, Ok)
    /\ Unsaved

\* INCR and DECR.  A list is parsed as if it were text; the sum is a long
\* and wraps; the new value has no expiration.
handle_incr_decr(a, sr, name, increment) ==
    /\ Command(name, a, sr)
    /\ IF Len(a) < 1
       THEN reply' = Replying(sr, Err("arity")) /\ UNCHANGED db
       ELSE LET d == get(db, a[1], now)
                exists == Found(db, a[1], now)
            IN  \E old \in OldTexts(d, a[1], exists) :
                  IF exists /\ ~ IsNumber(old)
                  THEN reply' = Replying(sr, Err("value")) /\ db' = d
                  ELSE LET n == Wrap((IF exists THEN Number(old) ELSE 0) + increment, LongMax)
                       IN  /\ db' = set(d, a[1], String(IntText(n), 0))
                           /\ reply' = Replying(sr, add_integer_reply(n))
    /\ Unsaved

------------------------------------------------------------------------------
(* Lists *)

\* One redis_db_push per item.
PushAll(d, key, end, items, time) ==
    LET longer[i \in 0 .. Len(items)] ==
            IF i = 0 THEN d ELSE push(longer[i - 1], key, end, items[i], time)
    IN  longer[Len(items)]

\* LPUSH and RPUSH: the pushes go on until one finds that the key does not
\* hold a list.
handle_push(a, sr, name, end) ==
    LET items == SubSeq(a, 2, Len(a))
        d == PushAll(db, a[1], end, items, now)
    IN  /\ Command(name, a, sr)
        /\ IF Len(a) < 2
           THEN reply' = Replying(sr, Err("arity")) /\ UNCHANGED db
           ELSE IF TypeMismatch(db, a[1], now)
           THEN reply' = Replying(sr, Err("type")) /\ UNCHANGED db
           ELSE /\ Len(d.h[a[1]].data) <= MaxList
                /\ db' = d
                /\ reply' = Replying(sr, add_integer_reply(Len(d.h[a[1]].data)))
        /\ Unsaved

\* The failure of parse_integer is ignored and leaves the index 0; an index
\* becomes an int on the way to lrange.
Index(s) == Wrap(IF s \in DOMAIN Operand THEN Operand[s] ELSE 0, IntMax)

handle_lrange(a, sr) ==
    /\ Command("LRANGE", a, sr)
    /\ IF Len(a) < 3
       THEN reply' = <<Err("arity")>> /\ UNCHANGED db
       ELSE /\ db' = get(db, a[1], now)
            /\ reply' = IF TypeMismatch(db, a[1], now)
                        THEN <<Err("type")>>
                        ELSE IF ~ Found(db, a[1], now)
                        THEN <<Array(<<>>)>>
                        ELSE <<Array(lrange(db.h[a[1]].data, Index(a[2]), Index(a[3])))>>
    /\ Unsaved

------------------------------------------------------------------------------
(* Commands that do not touch the keys *)

\* PING, ECHO, INFO, and a command get_command_type does not know: one reply.
handle_stateless(a, sr, name) ==
    /\ Command(name, a, sr)
    /\ reply' = << CASE name = "PING" -> IF Len(a) = 0 THEN Simple("PONG")
                                         ELSE IF Len(a) = 1 THEN Simple(a[1])
                                         ELSE Err("arity")
                     [] name = "ECHO" -> IF Len(a) = 1 THEN Simple(a[1]) ELSE Err("arity")
                     [] name = "INFO" -> Bulk("info")
                     [] OTHER -> Err("unknown command") >>
    /\ Unsaved /\ UNCHANGED db

\* CONFIG: only CONFIG GET is answered.
handle_config(a, sr) ==
    /\ Command("CONFIG", a, sr)
    /\ reply' = IF Len(a) < 2 THEN <<Err("arity")>>
                ELSE IF a[1] # "GET" THEN <<>>
                ELSE IF Members(Tail(a)) \subseteq {"dir", "dbfilename"}
                THEN <<Array(Tail(a))>>
                ELSE <<Err("parameter")>>
    /\ Unsaved /\ UNCHANGED db

\* SAVE: an argument too many is answered by an error, and then ignored.
handle_save(a, sr) ==
    /\ Command("SAVE", a, sr)
    /\ reply' = (IF Len(a) # 0 THEN <<Err("arity")>> ELSE <<>>) \o <<Ok>>
    /\ rdb_file' = db.h
    /\ UNCHANGED db

handle_dbsize(a, sr) ==
    /\ Command("DBSIZE", a, sr)
    /\ reply' = <<add_integer_reply(db.key_count)>>
    /\ Unsaved /\ UNCHANGED db
------------------------------------------------------------------------------
Init ==
    /\ DbInit
    /\ request = [name |-> "none", args |-> <<>>, replies |-> TRUE]
    /\ reply = <<>>
    /\ should_propogate_command = FALSE
    /\ rdb_file = <<>>

\* Argument lists: with too few arguments, enough, and too many.
ListsUpto(n, S) == UNION {[1 .. m -> S] : m \in 0 .. n}
KeyArgs == ListsUpto(MaxKeys, Keys)
SetArgs ==
    {<<>>} \cup {<<p[1], p[2]>> \o p[3] : p \in Keys \X SetValues \X SetOptions}
PushArgs ==
    {<<>>} \cup {<<p[1]>> \o p[2] : p \in Keys \X ListsUpto(MaxItems, SetValues)}
LrangeArgs == {<<>>} \cup {<<k, i, j>> : k \in Keys, i, j \in RangeArgs}
PlainArgs == {<<>>, <<"x">>, <<"x", "x">>}
ConfigArgs == {<<>>, <<"GET", "dir">>, <<"GET", "x">>, <<"SET", "dir">>}

Clock == Tick /\ UNCHANGED <<request, reply, should_propogate_command, rdb_file>>

Next ==
    \/ \E sr \in BOOLEAN :
         \/ \E a \in SetArgs : handle_set(a, sr)
         \/ \E a \in KeyArgs : handle_get(a, sr)
         \/ \E a \in KeyArgs : handle_exist(a, sr)
         \/ \E a \in KeyArgs : handle_delete(a, sr)
         \/ \E a \in KeyArgs : handle_incr_decr(a, sr, "INCR", 1)
         \/ \E a \in KeyArgs : handle_incr_decr(a, sr, "DECR", -1)
         \/ \E a \in PushArgs : handle_push(a, sr, "LPUSH", "left")
         \/ \E a \in PushArgs : handle_push(a, sr, "RPUSH", "right")
         \/ \E a \in LrangeArgs : handle_lrange(a, sr)
         \/ \E a \in PlainArgs, name \in {"PING", "ECHO", "INFO", "OTHER"} :
               handle_stateless(a, sr, name)
         \/ \E a \in ConfigArgs : handle_config(a, sr)
         \/ \E a \in PlainArgs : handle_save(a, sr)
         \/ \E a \in PlainArgs : handle_dbsize(a, sr)
    \/ Clock

Spec == Init /\ [][Next]_vars

\* The part of the state that decides what happens next; the rest is what
\* the last command put out.
State == <<db, now>>

------------------------------------------------------------------------------
(* Properties *)

\* The database keeps its type and a request is answered by replies.
TypeOK ==
    /\ DbTypeOK
    /\ request.replies \in BOOLEAN
    /\ \A i \in 1 .. Len(reply) : reply[i][1] \in
          {"simple", "null", "bulk", "array", "error", "integer"}
    /\ should_propogate_command \in BOOLEAN

\* The store behind the table: the keys that have not expired.
LiveKeys == {k \in DOMAIN db.h : ~ Expired(db.h[k], now)}
Live ==
    [k \in LiveKeys |->
        [type |-> db.h[k].type, data |-> db.h[k].data,
         deadline |-> IF db.h[k].expiration > 0 THEN db.h[k].expiration ELSE 0]]

Store == INSTANCE KeyValueStore WITH store <- Live

\* Lazy expiry cannot be told from expiry on time: every handler, with every
\* option of SET, acts on the table and replies as the abstract store does,
\* whatever expired keys the table still holds.
ImplementsStore == Store!SSpec
==============================================================================
