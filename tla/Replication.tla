----------------------------- MODULE Replication -----------------------------
(***************************************************************************)
(* The master's side of replication: process_client_input and the events   *)
(* of src/client.c and src/redis-server.c, PSYNC in src/commands.c, and    *)
(* src/replication.c.  Connections write commands; some become replicas,   *)
(* get a snapshot and then the stream of propagated commands.              *)
(*                                                                         *)
(* A command is two fragments of one byte each, as the network may hand it *)
(* to the server in two reads; the split is between two of its arguments,  *)
(* where the parser can stop.  What one read returns is a chunk.           *)
(***************************************************************************)
EXTENDS Integers, Sequences, Filters

CONSTANTS
    Conns,         \* connections
    Chunks,        \* what one read may return: sequences of fragments
    BacklogSize,   \* REPL_BACKLOG_SIZE
    OutSize,       \* RING_BUFFER_SIZE, for the output buffer of a replica
    MaxReplicas,   \* MAX_REPLICAS
    RdbSizes,      \* the sizes of the RDB file, in parts that are sent at once
    MaxInput,      \* bound: fragments read from all connections
    MaxSaves       \* bound: full resynchronisations

ASSUME BacklogAssumption ==
    /\ BacklogSize \in Nat /\ OutSize \in Nat /\ RdbSizes \subseteq Nat \ {0}
    /\ MaxReplicas \in Nat \ {0} /\ MaxInput \in Nat /\ MaxSaves \in Nat
Fragment == [cmd : {"SET", "GET"}, part : {1, 2}]

ASSUME ChunksAssumption ==
    \A chunk \in Chunks : chunk \in Seq(Fragment) /\ Len(chunk) \in 1 .. BacklogSize

VARIABLES
    type,        \* ClientType of each connection, or "closed"
    half,        \* the command whose first fragment the parser has, or "none"
    should_propogate_command,   \* the flag of each client
    replicas,    \* g_server_info.replicas
    state,       \* master_repl_state of each replica
    epollout,    \* whether EPOLLOUT is monitored
    output,      \* output_buffer of each replica
    rdb_file_size, rdb_file_offset,   \* of the snapshot each replica is sent
    repl_offset, \* from the master's perspective, a replica's offset
    master_repl_offset,
    repl_backlog_base_offset,
    repl_backlog,    \* the bytes in the backlog
    file,        \* the RDB file: its size and its version, a count of saves
    sets,        \* the SET commands executed, in order: who sent them
    input,       \* how many fragments were read, to bound them
    snap,        \* history: the SETs in the snapshot a replica was promised
    promised,    \* history: the version of the file it was promised
    sent,        \* history: what was written to the socket of a replica
    missed,      \* history: replicas whose output buffer had no room once
    up           \* the process runs, and its memory is intact

conn == <<type, half, should_propogate_command>>
rdb == <<rdb_file_size, rdb_file_offset>>
rep == <<state, epollout, output, rdb, repl_offset>>
log == <<master_repl_offset, repl_backlog_base_offset, repl_backlog>>
hist == <<snap, promised, sent, missed>>
vars == <<conn, replicas, rep, log, file, sets, input, hist, up>>

None == "none"
Junk == [kind |-> "junk"]
Part(v, i) == [kind |-> "rdb", version |-> v, at |-> i]
Reply(text) == [kind |-> "reply", text |-> text]
Fullresync(off) == [kind |-> "fullresync", offset |-> off]
Header(n) == [kind |-> "header", size |-> n]   \* $ and the size
HeaderEnd == [kind |-> "crlf"]
Frag(c, f) == [kind |-> "command", from |-> c, cmd |-> f.cmd, part |-> f.part]

Registered == {replicas[i] : i \in 1 .. Len(replicas)}

Init ==
    /\ type = [c \in Conns |-> "closed"]
    /\ half = [c \in Conns |-> None]
    /\ should_propogate_command = [c \in Conns |-> FALSE]
    /\ replicas = <<>>
    /\ state = [c \in Conns |-> None]
    /\ epollout = [c \in Conns |-> FALSE]
    /\ output = [c \in Conns |-> <<>>]
    /\ rdb_file_size = [c \in Conns |-> 0]
    /\ rdb_file_offset = [c \in Conns |-> 0]
    /\ repl_offset = [c \in Conns |-> 0]
    /\ master_repl_offset = 0
    /\ repl_backlog_base_offset = 0
    /\ repl_backlog = <<>>
    /\ file = [version |-> 0, size |-> 0]
    /\ sets = <<>>
    /\ input = 0
    /\ snap = [c \in Conns |-> 0]
    /\ promised = [c \in Conns |-> 0]
    /\ sent = [c \in Conns |-> <<>>]
    /\ missed = {}
    /\ up = TRUE

\* accept and create_client, in a slot that is free.
Accept(c) ==
    /\ up /\ type[c] = "closed" /\ c \notin Registered
    /\ type' = [type EXCEPT ![c] = "regular"]
    /\ half' = [half EXCEPT ![c] = None]
    /\ should_propogate_command' = [should_propogate_command EXCEPT ![c] = FALSE]
    /\ output' = [output EXCEPT ![c] = <<>>]
    /\ epollout' = [epollout EXCEPT ![c] = FALSE]
    /\ state' = [state EXCEPT ![c] = None]
    /\ sent' = [sent EXCEPT ![c] = <<>>]
    /\ missed' = missed \ {c}
    /\ UNCHANGED <<replicas, rdb, repl_offset, log, file, sets, input, snap,
                   promised, up>>

\* read returns 0 for a regular client.
Hangup(c) ==
    /\ up /\ type[c] = "regular"
    /\ type' = [type EXCEPT ![c] = "closed"]
    /\ UNCHANGED <<half, should_propogate_command, replicas, rep, log, file,
                   sets, input, hist, up>>

------------------------------------------------------------------------------
(* process_client_input *)

\* The parser has the first fragment of a command exactly when the chunk
\* begins with the second one.
Continues(c, chunk) ==
    IF half[c] = None THEN chunk[1].part = 1
    ELSE chunk[1].part = 2 /\ chunk[1].cmd = half[c]

EndsSet(f) == f.part = 2 /\ f.cmd = "SET"
SetsIn(chunk) == Filter(chunk, {f \in Fragment : EndsSet(f)})
Completed(chunk) == Filter(chunk, {f \in Fragment : f.part = 2})
Last(s) == s[Len(s)]

\* The flag when the chunk has been parsed: handle_command sets it for every
\* command that is completed, and nothing else touches it.
Flag(c, chunk) ==
    IF Completed(chunk) = <<>> THEN should_propogate_command[c]
    ELSE Last(Completed(chunk)).cmd = "SET"

\* Mutant: the window's base does not follow what is overwritten.
Backlogged_NoBase(n) ==
    /\ master_repl_offset' = master_repl_offset + n
    /\ LET over == Len(repl_backlog) + n - BacklogSize
           new == repl_backlog \o [i \in 1 .. n |-> Junk]
       IN  repl_backlog' = IF over <= 0 THEN new ELSE SubSeq(new, over + 1, Len(new))
    /\ UNCHANGED repl_backlog_base_offset

\* n bytes enter the backlog, the oldest ones being overwritten.  The bytes
\* are those of the client's ring buffer structure, not of the command.
Backlogged(n) ==
    /\ master_repl_offset' = master_repl_offset + n
    /\ LET over == Len(repl_backlog) + n - BacklogSize
           new == repl_backlog \o [i \in 1 .. n |-> Junk]
       IN  IF over <= 0
           THEN repl_backlog' = new /\ UNCHANGED repl_backlog_base_offset
           ELSE /\ repl_backlog' = SubSeq(new, over + 1, Len(new))
                /\ repl_backlog_base_offset' = repl_backlog_base_offset + over

\* Mutant: a buffer that is not yet full is taken to have room.
Fits_Any(r, n) == Len(output[r]) < OutSize

Fits(r, n) == Len(output[r]) + n <= OutSize

\* Mutant: a replica that still waits for its snapshot is passed over.
Receivers_NotSending == {r \in Registered : state[r] = "PROPAGATE"}

\* The replicas the loop over g_server_info.replicas copies to.  An output
\* buffer that continue_psync overwrote is not followed any further.
Receivers == {r \in Registered : state[r] # "corrupt"}
Corrupt == {r \in Conns : state[r] = "corrupt"}

\* The chunk is appended to the output buffer of the replicas that have room.
\* When one has not, it is the writer that is disconnected and freed, and then
\* used; as is a corrupt buffer: the process may die.
Propagate(c, chunk) ==
    LET n == Len(chunk)
        bytes == [i \in 1 .. n |-> Frag(c, chunk[i])]
        got == {r \in Receivers : Fits(r, n)}
        full == Receivers \ got
    IN  /\ Backlogged(n)
        /\ output' = [r \in Conns |-> IF r \in got THEN output[r] \o bytes ELSE output[r]]
        /\ epollout' = [r \in Conns |-> epollout[r] \/ r \in got]
        /\ type' = [type EXCEPT ![c] = IF full = {} THEN @ ELSE "closed"]
        /\ missed' = missed \cup full
        /\ up' \in IF full = {} /\ Corrupt \cap Registered = {} THEN {TRUE} ELSE BOOLEAN

process_client_input(c, chunk) ==
    /\ up /\ type[c] = "regular"
    /\ Continues(c, chunk)
    /\ input + Len(chunk) <= MaxInput
    /\ input' = input + Len(chunk)
    /\ half' = [half EXCEPT ![c] = IF Last(chunk).part = 1 THEN Last(chunk).cmd ELSE None]
    /\ sets' = sets \o [i \in 1 .. Len(SetsIn(chunk)) |-> c]
    /\ should_propogate_command' =
           [should_propogate_command EXCEPT ![c] = Flag(c, chunk)]
    /\ IF Flag(c, chunk)
       THEN Propagate(c, chunk)
       ELSE UNCHANGED <<type, output, epollout, log, missed, up>>
    /\ UNCHANGED <<replicas, state, rdb, repl_offset, file, snap, promised, sent>>

------------------------------------------------------------------------------
(* PSYNC and SAVE.  Each is a chunk of its own: a replica waits for replies. *)

\* redis_db_save rewrites the RDB file in place; its size depends on the keys.
redis_db_save ==
    /\ file.version < MaxSaves
    /\ \E n \in RdbSizes : file' = [version |-> file.version + 1, size |-> n]

\* SAVE, which is not propagated.
handle_save(c) ==
    /\ up /\ type[c] = "regular" /\ half[c] = None
    /\ redis_db_save
    /\ should_propogate_command' = [should_propogate_command EXCEPT ![c] = FALSE]
    /\ UNCHANGED <<type, half, replicas, rep, log, sets, input, hist, up>>

\* The array has a place for one more.
Place == Len(replicas) < MaxReplicas

add_replica(c) ==
    /\ type' = [type EXCEPT ![c] = "replica"]
    /\ replicas' = Append(replicas, c)

\* Mutant: an offset past the master's is taken for a partial one.
InWindow_NoUpper(off) == repl_backlog_base_offset <= off

InWindow(off) == repl_backlog_base_offset <= off /\ off <= master_repl_offset

\* A replica that knows this master's id and asks for an offset inside the
\* backlog is to be continued, any other is to be sent a snapshot.  The reply
\* is flushed before process_client_input returns, with the snapshot's header.
Enlist(c, known, off) ==
    /\ up /\ type[c] = "regular" /\ half[c] = None /\ Place
    /\ add_replica(c)
    /\ should_propogate_command' = [should_propogate_command EXCEPT ![c] = FALSE]
    /\ epollout' = [epollout EXCEPT ![c] = TRUE]
    /\ snap' = [snap EXCEPT ![c] = Len(sets)]
    /\ \/ /\ known /\ InWindow(off)
          /\ repl_offset' = [repl_offset EXCEPT ![c] = off]
          /\ state' = [state EXCEPT ![c] = "PSYNC"]
          /\ sent' = [sent EXCEPT ![c] = Append(@, Reply("CONTINUE"))]
          /\ UNCHANGED <<file, rdb, promised>>
       \/ /\ ~ (known /\ InWindow(off))
          /\ redis_db_save
          /\ rdb_file_size' = [rdb_file_size EXCEPT ![c] = file'.size]
          /\ rdb_file_offset' = [rdb_file_offset EXCEPT ![c] = 0]
          /\ promised' = [promised EXCEPT ![c] = file'.version]
          /\ state' = [state EXCEPT ![c] = "SENDING_RDB_DATA"]
          /\ sent' = [sent EXCEPT ![c] = @ \o <<Fullresync(master_repl_offset),
                                                Header(file'.size), HeaderEnd>>]
          /\ UNCHANGED repl_offset
    /\ UNCHANGED <<half, output, log, sets, input, missed, up>>

\* One replica too many is stored over num_replicas, which follows the array.
\* From then on every use of the array is undefined, and the model ends.
Overwrite(c) ==
    /\ up /\ type[c] = "regular" /\ half[c] = None /\ ~ Place
    /\ up' = FALSE
    /\ UNCHANGED <<conn, replicas, rep, log, file, sets, input, hist>>

handle_psync(c, known, off) == Enlist(c, known, off) \/ Overwrite(c)

------------------------------------------------------------------------------
(* EPOLLOUT on a replica: master_handle_replica_out *)

\* Mutant: the event is not armed again after a part of the snapshot.
Writable_OneShot(c) ==
    /\ up /\ type[c] = "replica" /\ epollout[c]
    /\ state[c] = "SENDING_RDB_DATA" => rdb_file_offset[c] = 0

Writable(c) == up /\ type[c] = "replica" /\ epollout[c]

\* The socket takes some of the buffer.
flush_client_output(c) ==
    /\ Writable(c) /\ state[c] = "PROPAGATE"
    /\ \E k \in 1 .. Len(output[c]) :
          /\ sent' = [sent EXCEPT ![c] = @ \o SubSeq(output[c], 1, k)]
          /\ output' = [output EXCEPT ![c] = SubSeq(@, k + 1, Len(@))]
    /\ UNCHANGED <<conn, replicas, state, epollout, rdb, repl_offset, log, file,
                   sets, input, snap, promised, missed, up>>

\* The socket takes some of what the file holds now, also beyond the size the
\* replica was told, as the loop asks for the remaining bytes again.  When the
\* offset is at that size write events are switched off, whatever the output
\* buffer holds; past it sendfile fails, and at the end of a file that has
\* become shorter it sends nothing.
master_send_rdb_snapshot(c) ==
    /\ Writable(c) /\ state[c] = "SENDING_RDB_DATA"
    /\ rdb_file_offset[c] < rdb_file_size[c]
    /\ \E k \in 1 .. file.size - rdb_file_offset[c] :
          /\ sent' = [sent EXCEPT ![c] =
                         @ \o [i \in 1 .. k |-> Part(file.version, rdb_file_offset[c] + i)]]
          /\ rdb_file_offset' = [rdb_file_offset EXCEPT ![c] = @ + k]
          /\ IF rdb_file_offset[c] + k = rdb_file_size[c]
             THEN /\ state' = [state EXCEPT ![c] = "PROPAGATE"]
                  /\ epollout' = [epollout EXCEPT ![c] = FALSE]
             ELSE UNCHANGED <<state, epollout>>
    /\ UNCHANGED <<conn, replicas, output, rdb_file_size, repl_offset, log, file,
                   sets, input, snap, promised, missed, up>>

\* Mutant: the one removed is the last, whichever it was.
remove_replica_Last(c) == replicas' = SubSeq(replicas, 1, Len(replicas) - 1)

\* The last replica takes the place of the one removed.
remove_replica(c) ==
    LET pos == CHOOSE i \in DOMAIN replicas : replicas[i] = c
    IN  replicas' = SubSeq([replicas EXCEPT ![pos] = Last(replicas)], 1, Len(replicas) - 1)

\* A replica that is level joins the propagation; one whose offset has left
\* the backlog is disconnected; for the others the bytes of the backlog are
\* copied over the structure of the output buffer, and anything may follow.
continue_psync(c) ==
    /\ Writable(c) /\ state[c] = "PSYNC"
    /\ \/ /\ repl_offset[c] = master_repl_offset
          /\ state' = [state EXCEPT ![c] = "PROPAGATE"]
          /\ epollout' = [epollout EXCEPT ![c] = FALSE]
          /\ UNCHANGED <<type, replicas, up>>
       \/ /\ \/ repl_offset[c] > master_repl_offset
             \/ master_repl_offset - repl_offset[c] > Len(repl_backlog)
          /\ remove_replica(c)
          /\ type' = [type EXCEPT ![c] = "closed"]
          /\ state' = [state EXCEPT ![c] = None]
          /\ UNCHANGED <<epollout, up>>
       \/ /\ master_repl_offset - repl_offset[c] \in 1 .. Len(repl_backlog)
          /\ state' = [state EXCEPT ![c] = "corrupt"]
          /\ up' \in BOOLEAN
          /\ UNCHANGED <<epollout, type, replicas>>
    /\ UNCHANGED <<half, should_propogate_command, output, rdb, repl_offset,
                   log, file, sets, input, hist>>

master_handle_replica_out(c) ==
    \/ flush_client_output(c)
    \/ master_send_rdb_snapshot(c)
    \/ continue_psync(c)

------------------------------------------------------------------------------
Next ==
    \E c \in Conns :
        \/ Accept(c)
        \/ Hangup(c)
        \/ \E chunk \in Chunks : process_client_input(c, chunk)
        \/ handle_save(c)
        \/ \E known \in BOOLEAN, off \in -1 .. master_repl_offset + 1 :
              handle_psync(c, known, off)
        \/ master_handle_replica_out(c)

Spec == Init /\ [][Next]_vars
------------------------------------------------------------------------------
(* What the checks and the proofs are about *)

Command == [kind : {"command"}, from : Conns, cmd : {"SET", "GET"}, part : {1, 2}]
Element == {Junk, HeaderEnd} \cup [kind : {"rdb"}, version : Nat, at : Nat]
             \cup [kind : {"reply"}, text : {"PONG", "OK", "CONTINUE"}]
             \cup [kind : {"fullresync"}, offset : Nat] \cup [kind : {"header"}, size : Nat]
             \cup Command

\* The fields of Client and server_info_t; no output buffer holds more than
\* its ring buffer has room for.
TypeOK ==
    /\ type \in [Conns -> {"closed", "regular", "replica"}]
    /\ half \in [Conns -> {None, "SET", "GET"}]
    /\ should_propogate_command \in [Conns -> BOOLEAN]
    /\ replicas \in Seq(Conns)
    /\ state \in [Conns -> {None, "PSYNC", "SENDING_RDB_DATA", "PROPAGATE", "corrupt"}]
    /\ epollout \in [Conns -> BOOLEAN]
    /\ output \in [Conns -> Seq(Element)] /\ sent \in [Conns -> Seq(Element)]
    /\ \A c \in Conns : Len(output[c]) <= OutSize
    /\ rdb_file_size \in [Conns -> {0} \cup RdbSizes]
    /\ rdb_file_offset \in [Conns -> Nat]
    /\ promised \in [Conns -> Nat]
    /\ repl_offset \in [Conns -> Nat]
    /\ master_repl_offset \in Nat /\ repl_backlog_base_offset \in Nat
    /\ repl_backlog \in Seq({Junk})
    /\ file \in [version : 0 .. MaxSaves, size : {0} \cup RdbSizes]
    /\ sets \in Seq(Conns) /\ input \in 0 .. MaxInput
    /\ snap \in [Conns -> Nat] /\ missed \subseteq Conns /\ up \in BOOLEAN

\* The backlog is a window on the stream that ends at the master's offset and
\* begins at the base offset, and never outgrows the buffer: the two offsets,
\* advanced in different branches of process_client_input, stay in step with
\* the ring buffer's indices.
BacklogWindow ==
    /\ repl_backlog_base_offset + Len(repl_backlog) = master_repl_offset
    /\ Len(repl_backlog) <= BacklogSize

\* A replica that is to be continued is never ahead of the master when its
\* EPOLLOUT event comes ("replica can't be ahead of master", replication.c:355).
NeverAhead ==
    \A c \in Conns : state[c] = "PSYNC" => repl_offset[c] <= master_repl_offset

\* Every connection that has become a replica is in g_server_info.replicas
\* once and no other connection is, whatever the order in which replicas come
\* and are removed: no replica is passed over by the loop that propagates, and
\* it never meets a client that was freed.  While the memory is intact there
\* are never more of them than the array has places.
ReplicasOnce ==
    /\ Len(replicas) <= MaxReplicas
    /\ \A c \in Conns : type[c] = "replica" <=> c \in Registered
    /\ \A i, j \in DOMAIN replicas : replicas[i] = replicas[j] => i = j

\* What the parser of a replica makes of the commands it is sent.
Stream(c) == Filter(sent[c] \o output[c], Command)
Halves(e, f) == e.part = 1 /\ f = [e EXCEPT !.part = 2]
WellFormed(s) ==
    \A i \in DOMAIN s : IF s[i].part = 1 THEN i < Len(s) => Halves(s[i], s[i + 1])
                        ELSE i > 1 /\ Halves(s[i - 1], s[i])
SetEnds == {e \in Command : EndsSet(e)}
Writers(s) == LET done == Filter(s, SetEnds) IN [i \in 1 .. Len(done) |-> done[i].from]

\* A client whose reads are whole: commands are not cut, and the last command
\* of a read that has a SET is one.
Whole(s) == WellFormed(s) /\ (s # <<>> => Last(s).part = 2)
WholeRead(chunk) == Whole(chunk) /\ (SetsIn(chunk) # <<>> => Last(chunk).cmd = "SET")

\* A replica is sent, after its snapshot, whole commands that make it execute
\* the SETs the master executed since the snapshot, each once and in order
\* ("Write commands will be propogated to replicas", replication.c:127).
StreamComplete ==
    \A c \in Registered \ missed :
        state[c] \in {"SENDING_RDB_DATA", "PROPAGATE"} =>
            /\ WellFormed(Stream(c))
            /\ Writers(Stream(c)) = SubSeq(sets, snap[c] + 1, Len(sets))

\* The replica that has no room for the bytes is the one that is disconnected
\* ("disconnecting replica", client.c:228).
SlowReplicaDropped == [][\A r \in missed' \ missed : type'[r] = "closed"]_vars
==============================================================================
