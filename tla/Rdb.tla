--------------------------------- MODULE Rdb ---------------------------------
(***************************************************************************)
(* src/rdb.c and the start and stop of src/redis-server.c: the snapshot    *)
(* file, what is written to it, what a server reads back, and what a crash *)
(* leaves.  The file is a sequence of elements <<kind, value>>: "byte"s,   *)
(* and as one element each the magic string, the characters of a "text"    *)
(* and the eight bytes of a time stamp ("ms").  Only fread takes those;    *)
(* fgetc finds no opcode among their bytes.                                *)
(***************************************************************************)
EXTENDS Database, Values, SequencesExt

CONSTANTS
    Length,        \* the length in bytes of each text
    CountMod,      \* 256: what fputc keeps of a counter
    Second,        \* milliseconds in a second
    UintMod,       \* 2 to the width of unsigned int
    MaxWrites,     \* bound: writes to the database
    InitialFiles   \* the files a server may find when it is first started

ASSUME RdbAssumption == CountMod \in Nat \ {0} /\ UintMod \in Nat \ {0} /\ Second \in Nat

VARIABLES
    file,     \* the RDB file; <<>> when there is none
    phase,    \* "down", "loading", "up"
    pos,      \* the loader's place in the file
    left,     \* the pairs it still expects; 0 between sections, -1 in metadata
    saved,    \* history: the table the file was written from, and how
    writes    \* how many writes there were, to bound them

rdbvars == <<db, now, file, phase, pos, left, saved, writes>>

Magic == <<"magic", "REDIS0012">>
META == 250
TABLE == 251
EXPIRE_MS == 252
EXPIRE_S == 253
SELECT == 254
END == 255
TYPE_STRING == 0

B(bytes) == [i \in 1 .. Len(bytes) |-> <<"byte", bytes[i]>>]

Bytes(n, w) == [i \in 1 .. w |-> (n \div 256 ^ (i - 1)) % 256]
IntSize(n, w) == n \in -(128 * 256 ^ (w - 1)) .. 128 * 256 ^ (w - 1) - 1
Int32(n) == IntSize(n \div 65536, 2)

\* strtoll reads the whole of s, the empty string included.
ReadsAsNumber(s) == IsNumber(s) \/ s = Empty
Strtoll(s) == IF s = Empty THEN 0 ELSE Number(s)

\* Mutant: 16 bits are written with the high byte first.
write_rdb_string_BigEndian(s) ==
    IF ReadsAsNumber(s)
    THEN LET n == Strtoll(s) IN
         IF IntSize(n, 1) THEN B(<<192>> \o Bytes(n, 1))
         ELSE IF IntSize(n, 2) THEN B(<<193>> \o Reverse(Bytes(n, 2)))
         ELSE B(<<194>> \o Bytes(n, 4))
    ELSE B(<<Length[s]>>) \o <<s>>

\* An integer in 1, 2 or 4 bytes, low byte first; other text behind a length
\* of 6, 14 or 32 bits, high byte first.
write_rdb_string(s) ==
    IF ReadsAsNumber(s) /\ Int32(Strtoll(s))
    THEN LET n == Strtoll(s) IN
         IF IntSize(n, 1) THEN B(<<192>> \o Bytes(n, 1))
         ELSE IF IntSize(n, 2) THEN B(<<193>> \o Bytes(n, 2))
         ELSE B(<<194>> \o Bytes(n, 4))
    ELSE LET n == Length[s] IN
         (IF n <= 63 THEN B(<<n>>)
          ELSE IF n <= 16383 THEN B(<<64 + n \div 256, n % 256>>)
          ELSE B(<<128>> \o Reverse(Bytes(n, 4)))) \o <<s>>

\* A string key with its expiration; nothing is written for a list.
Entry(h, k) ==
    (IF h[k].expiration > 0
     THEN B(<<EXPIRE_MS>>) \o <<<<"ms", h[k].expiration>>>>
     ELSE <<>>)
      \o (IF h[k].type = "string"
          THEN B(<<TYPE_STRING>>) \o write_rdb_string(k) \o write_rdb_string(h[k].data)
          ELSE <<>>)

\* The whole file, the keys in the order the hash table yields them.
Snapshot(d, order) ==
    <<Magic>>
      \o B(<<META, SELECT, TABLE, d.key_count % CountMod, d.expiry_count % CountMod>>)
      \o FlattenSeq([i \in 1 .. Len(order) |-> Entry(d.h, order[i])])
      \o B(<<END>>)

------------------------------------------------------------------------------
(* Reading *)

EOF == -1
Opaque == -2

\* fgetc at p: a byte, the end of the file, or some byte of a longer element.
Fgetc(p) ==
    IF p > Len(file) THEN EOF ELSE IF file[p][1] = "byte" THEN file[p][2] ELSE Opaque

\* What a read gives, and where it leaves the file.
Failed(p) == [ok |-> FALSE, s |-> Empty, next |-> p]
Read(s, p) == [ok |-> TRUE, s |-> s, next |-> p]

\* fread of the n characters of a text at p; what it fails on is used up.
Fread(n, p) ==
    IF p <= Len(file) /\ file[p] \in DOMAIN Length /\ Length[file[p]] = n
    THEN Read(file[p], p + 1)
    ELSE Failed(Len(file) + 1)

\* The number behind w bytes at p, low byte first, the last one signed.
ReadInt(w, p) ==
    LET Unsigned(i) == Fgetc(p + i) * 256 ^ i
        top == Fgetc(p + w - 1)
        high == (IF top >= 128 THEN top - 256 ELSE top) * 256 ^ (w - 1)
        low == IF w = 1 THEN 0
               ELSE IF w = 2 THEN Unsigned(0)
               ELSE Unsigned(0) + Unsigned(1) + Unsigned(2)
    IN  IF \E i \in 0 .. w - 1 : Fgetc(p + i) < 0 THEN Failed(Len(file) + 1)
        ELSE Read(IntText(high + low), p + w)

\* Mutant: the high bits of a 14-bit length are lost.
read_rdb_string_LowByte(p) ==
    LET first == Fgetc(p) IN
    CASE first < 0 -> Failed(p + 1)
      [] first \in 0 .. 63 -> Fread(first, p + 1)
      [] first \in 64 .. 127 -> Fread(Fgetc(p + 1), p + 2)
      [] first \in 128 .. 191 -> Fread(Fgetc(p + 3) * 256 + Fgetc(p + 4), p + 5)
      [] first \in 192 .. 255 ->
           IF first % 64 \in {0, 1, 2} THEN ReadInt(2 ^ (first % 64), p + 1) ELSE Failed(p + 1)

\* In the 32-bit form a length byte of 255 is taken for the end of the file,
\* because the byte is kept in a char.
read_rdb_string(p) ==
    LET first == Fgetc(p)
        low == first % 64
        ends == {i \in 1 .. 4 : Fgetc(p + i) \in {EOF, 255}}
    IN  CASE first < 0 -> Failed(p + 1)
          [] first \in 0 .. 63 -> Fread(low, p + 1)
          [] first \in 64 .. 127 ->
               IF Fgetc(p + 1) < 0 THEN Failed(p + 2) ELSE Fread(low * 256 + Fgetc(p + 1), p + 2)
          [] first \in 128 .. 191 ->
               IF ends # {} THEN Failed(p + Min(ends) + 1)
               ELSE Fread(Fgetc(p + 2) * 65536 + Fgetc(p + 3) * 256 + Fgetc(p + 4), p + 5)
          [] first \in 192 .. 255 ->
               IF low \in {0, 1, 2} THEN ReadInt(2 ^ low, p + 1) ELSE Failed(p + 1)

------------------------------------------------------------------------------
(* The loader, one action for each turn of its loops *)

Finish ==
    /\ phase' = "up"
    /\ UNCHANGED <<db, now, file, pos, left, saved, writes>>

\* Mutant: the end of the file is read past.
Goto_Past(p, n) ==
    /\ pos' = p
    /\ left' = n
    /\ UNCHANGED <<now, file, phase, saved, writes>>

\* fgetc does not move past the end of the file.
Goto(p, n) ==
    /\ pos' = IF p > Len(file) + 1 THEN Len(file) + 1 ELSE p
    /\ left' = n
    /\ UNCHANGED <<now, file, phase, saved, writes>>

\* Mutant: an unknown opcode is put back.
LoadOpcode_Stuck ==
    /\ phase = "loading" /\ left = 0
    /\ LET c == Fgetc(pos) IN
       IF \/ c \in {EOF, END, SELECT}
          \/ c = TABLE /\ (Fgetc(pos + 1) < 0 \/ Fgetc(pos + 2) < 0)
       THEN Finish
       ELSE /\ UNCHANGED db
            /\ CASE c = META -> Goto(pos + 1, -1)
                 [] c = TABLE -> Goto(pos + 3, Fgetc(pos + 1))
                 [] OTHER -> Goto(pos, 0)

\* The main loop.  A database selector ends the load: its case falls through.
LoadOpcode ==
    /\ phase = "loading" /\ left = 0
    /\ LET c == Fgetc(pos) IN
       IF \/ c \in {EOF, END, SELECT}
          \/ c = TABLE /\ (Fgetc(pos + 1) < 0 \/ Fgetc(pos + 2) < 0)
       THEN Finish
       ELSE /\ UNCHANGED db
            /\ CASE c = META -> Goto(pos + 1, -1)
                 [] c = TABLE -> Goto(pos + 3, Fgetc(pos + 1))
                 [] OTHER -> Goto(pos + 1, 0)

\* Mutant: a string that cannot be read is tried again as an opcode.
LoadMetadata_Retries ==
    /\ phase = "loading" /\ left = -1
    /\ LET key == read_rdb_string(pos)
           value == read_rdb_string(key.next)
       IN  IF Fgetc(pos) = EOF THEN Finish
           ELSE /\ UNCHANGED db
                /\ IF Fgetc(pos) = SELECT THEN Goto(pos + 1, 0)
                   ELSE IF ~ key.ok \/ ~ value.ok THEN Goto(pos, 0)
                   ELSE Goto(value.next, -1)

\* The metadata loop: pairs of strings, read and dropped.  A string that
\* cannot be read ends the loop where the read stopped.
LoadMetadata ==
    /\ phase = "loading" /\ left = -1
    /\ LET key == read_rdb_string(pos)
           value == read_rdb_string(key.next)
       IN  IF Fgetc(pos) = EOF THEN Finish
           ELSE /\ UNCHANGED db
                /\ IF Fgetc(pos) = SELECT THEN Goto(pos + 1, 0)
                   ELSE IF ~ key.ok THEN Goto(key.next, 0)
                   ELSE IF ~ value.ok THEN Goto(value.next, 0)
                   ELSE Goto(value.next, -1)

\* Mutant: milliseconds are converted as seconds are.
Expiration_Converted(p) ==
    IF Fgetc(p) \in {EXPIRE_MS, EXPIRE_S} /\ p < Len(file) /\ file[p + 1][1] \in {"ms", "s"}
    THEN [ok |-> TRUE, at |-> p + 2, ms |-> (file[p + 1][2] * Second) % UintMod]
    ELSE [ok |-> Fgetc(p) \notin {EOF, EXPIRE_MS, EXPIRE_S}, at |-> p, ms |-> 0]

\* The expiration in front of a pair: [at |-> where the type byte is, ms].
\* Seconds are multiplied in 32 bits.
Expiration(p) ==
    IF Fgetc(p) = EXPIRE_MS /\ p < Len(file) /\ file[p + 1][1] = "ms"
    THEN [ok |-> TRUE, at |-> p + 2, ms |-> file[p + 1][2]]
    ELSE IF Fgetc(p) = EXPIRE_S /\ p < Len(file) /\ file[p + 1][1] = "s"
    THEN [ok |-> TRUE, at |-> p + 2, ms |-> (file[p + 1][2] * Second) % UintMod]
    ELSE [ok |-> Fgetc(p) \notin {EOF, EXPIRE_MS, EXPIRE_S}, at |-> p, ms |-> 0]

\* A pair of the table.  A type other than string is passed over, without
\* its key and value; that is also what happens to the byte END when the
\* table announced more pairs than it holds.
LoadPair ==
    /\ phase = "loading" /\ left > 0
    /\ LET e == Expiration(pos)
           key == read_rdb_string(e.at + 1)
           value == read_rdb_string(key.next)
       IN  IF ~ e.ok THEN Finish
           ELSE IF Fgetc(e.at) # TYPE_STRING
           THEN UNCHANGED db /\ Goto(e.at + 1, left - 1)
           ELSE IF ~ key.ok \/ ~ value.ok THEN Finish
           ELSE /\ db' = set(db, key.s, String(value.s, e.ms))
                /\ Goto(value.next, left - 1)

------------------------------------------------------------------------------
(* The server *)

Init ==
    /\ DbInit
    /\ file \in InitialFiles
    /\ phase = "down"
    /\ pos = 1 /\ left = 0
    /\ saved = [table |-> <<>>, how |-> "foreign"]
    /\ writes = 0

\* start_server: only a replica loads the file, if there is one and it has
\* the header.
Start(role) ==
    /\ phase = "down"
    /\ phase' = IF role = "slave" /\ Len(file) > 0 /\ file[1] = Magic THEN "loading" ELSE "up"
    /\ pos' = 2
    /\ left' = 0
    /\ UNCHANGED <<db, now, file, saved, writes>>

\* What commands do to the database, with no regard to the clock.
Write ==
    /\ phase = "up"
    /\ writes < MaxWrites
    /\ writes' = writes + 1
    /\ \/ \E k \in Keys, s \in Strings, e \in Expirations : redis_db_set(k, s, e)
       \/ \E k \in Keys, s \in Strings : redis_db_push(k, "right", s)
       \/ \E k \in Keys : redis_db_delete(k)
    /\ UNCHANGED <<file, phase, pos, left, saved>>

Saves(how) ==
    /\ saved' = [table |-> db.h, how |-> how]
    /\ \E order \in SetToSeqs(DOMAIN db.h) :
          LET whole == Snapshot(db, order)
          IN  IF how = "whole" THEN file' = whole
              ELSE \E n \in 0 .. Len(whole) - 1 : file' = SubSeq(whole, 1, n)

\* SAVE, and the snapshot a full resynchronisation starts with.
redis_db_save ==
    /\ phase = "up"
    /\ Saves("whole")
    /\ UNCHANGED <<db, now, phase, pos, left, writes>>

Exit ==
    /\ phase' = "down"
    /\ db' = redis_db_create
    /\ UNCHANGED <<now, pos, left, writes>>

\* SIGINT: the final snapshot, then exit.
Shutdown == phase = "up" /\ Saves("whole") /\ Exit

\* The process dies, between commands or in the middle of a save, when the
\* old file has been truncated already.
Crash == phase # "down" /\ UNCHANGED <<file, saved>> /\ Exit
CrashInSave == phase = "up" /\ Saves("cut") /\ Exit

Next ==
    \/ LoadOpcode \/ LoadMetadata \/ LoadPair
    \/ \E role \in {"master", "slave"} : Start(role)
    \/ Write \/ redis_db_save \/ Shutdown \/ Crash \/ CrashInSave

Spec == Init /\ [][Next]_rdbvars

------------------------------------------------------------------------------
(* Properties *)

\* The loader is inside the file, or just past it.
TypeOK ==
    /\ DbTypeOK
    /\ phase \in {"down", "loading", "up"}
    /\ pos \in Nat /\ (phase = "loading" => pos <= Len(file) + 1)
    /\ left \in -1 .. 255

StringKeys(h) == {k \in DOMAIN h : h[k].type = "string"}

\* A string whose text is what the number parsers would print for it.
Canonical(s) == s[1] = "int" \/ (s[1] = "text" /\ s # Empty)

\* A server that loads the file of a completed save has every string key that
\* was in the table, with its value and its deadline, whatever the order of
\* the keys in the file, the encoding of each value and the number of lists
\* that were counted but not written.  Texts that strtoll reads as a number
\* without being its decimal form are the exception.
RoundTrip ==
    [][phase = "loading" /\ phase' = "up" /\ saved.how = "whole" =>
         \A k \in StringKeys(saved.table) :
           Canonical(k) /\ Canonical(saved.table[k].data) =>
             k \in DOMAIN db.h /\ db.h[k] = saved.table[k]]_rdbvars

\* A file cut short by a crash in the middle of a save gives some of the keys
\* and never a wrong one: what the loader has read at any time was in the
\* table that was being saved.
NothingInvented ==
    phase = "loading" /\ saved.how # "foreign" =>
      \A k \in DOMAIN db.h :
        k \in StringKeys(saved.table) /\ db.h[k].expiration = saved.table[k].expiration
          /\ (Canonical(saved.table[k].data) => db.h[k].data = saved.table[k].data)

\* The loader's loops end, on whole files, cut files and foreign ones: as long
\* as it is loading, some turn of a loop is possible that changes something,
LoaderGoesOn ==
    phase = "loading" => ENABLED <<LoadOpcode \/ LoadMetadata \/ LoadPair>>_rdbvars

\* and every turn leaves the loader further on in the file, out of which it
\* does not get, whichever string of a pair could not be read.
LoadEnds == [][phase = "loading" /\ phase' = "loading" => pos' > pos]_rdbvars

\* redis-server.c:156, "for now only load file if it is not a replica": a
\* server that is no replica has the saved string keys once it is up.
RestartRestores ==
    [][phase = "down" /\ phase' = "up" /\ saved.how = "whole" =>
         StringKeys(saved.table) \subseteq DOMAIN db'.h]_rdbvars
==============================================================================
