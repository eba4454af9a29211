------------------------------- MODULE Replica -------------------------------
(***************************************************************************)
(* A server started with --replicaof: replica_handle_master_data and       *)
(* replica_receive_rdb_snapshot of src/replication.c, the commands of the  *)
(* handshake in src/commands.c, and process_client_input of src/client.c   *)
(* for the client that is the master.                                      *)
(*                                                                         *)
(* EPOLLOUT is monitored on the connection from the start to the end, so   *)
(* the event loop calls replica_handle_master_data all the time; each      *)
(* action is one call, or one iteration of the loop in it.  The bytes of   *)
(* the connection are elements: a reply, the two parts of the snapshot's   *)
(* header, a part of the snapshot, a half of a command.  A read may end in *)
(* the middle of an argument of a command; the parser is then out of step, *)
(* as it is when it meets other bytes than commands (RespParser says what  *)
(* becomes of them), and the model of the connection ends there.           *)
(***************************************************************************)
EXTENDS Integers, Sequences, Filters

CONSTANTS
    Second,       \* the second halves of commands, which complete them
    InSize,       \* RING_BUFFER_SIZE, for the input buffer of the master's client
    MaxOwn        \* bound: bytes of SETs from the replica's own clients

VARIABLES
    incoming,     \* what the master has written to the connection
    closed,       \* and whether it has closed it since
    taken,        \* how much of incoming was read
    requests,     \* the commands sent to the master
    repl_client_state,
    input_buffer, \* of the master's client
    rdb_expected_bytes, rdb_received_bytes, rdb_written_bytes,
    tmp,          \* the contents of temp_snapshot.rdb
    loaded,       \* what was loaded from it
    should_propogate,  \* should_propogate_command of the master's client
    applied,      \* the SETs executed, in order
    offset,       \* g_server_info.master_repl_offset of the replica
    early,        \* history: how much came in one read with the snapshot's header
    own,          \* history: how much of offset is of the replica's own clients
    lost          \* history: how the replica lost its place in what it receives:
                  \* "over", a read past the end of the buffer; "stray", other bytes
                  \* than commands; "cut", a read that ended inside an argument

counters == <<rdb_expected_bytes, rdb_received_bytes, rdb_written_bytes>>
sync == <<counters, tmp, loaded, early>>
data == <<should_propogate, applied, offset, own>>

InitReplica ==
    /\ taken = 0
    /\ requests = <<>>
    /\ repl_client_state = "CONNECTING"
    /\ input_buffer = <<>>
    /\ rdb_expected_bytes = 0 /\ rdb_received_bytes = 0 /\ rdb_written_bytes = 0
    /\ tmp = <<>> /\ loaded = <<>> /\ early = 0
    /\ should_propogate = FALSE /\ applied = <<>> /\ offset = 0
    /\ own = 0 /\ lost = "no"

Unread == SubSeq(incoming, taken + 1, Len(incoming))
Drop(s, n) == SubSeq(s, n + 1, Len(s))

\* The command each state sends, and the state it then waits in.
Sends ==
    [CONNECTING |-> <<"PING", "SENT_PING">>,
     RECEIVED_PONG |-> <<"REPLCONF", "SENT_REPLCONF_PORT">>,
     RECEIVED_REPLCONF_PORT_OK |-> <<"REPLCONF", "SENT_REPLCONF_CAPA">>,
     RECEIVED_REPLCONF_CAPA_OK |-> <<"PSYNC", "SENT_PSYNC">>]

send_command ==
    /\ repl_client_state \in DOMAIN Sends
    /\ requests' = Append(requests, Sends[repl_client_state][1])
    /\ repl_client_state' = Sends[repl_client_state][2]
    /\ UNCHANGED <<taken, input_buffer, sync, data, lost>>

\* handle_simple_string_reply.  The offset of +FULLRESYNC is not taken over.
Expects ==
    [SENT_PING |-> <<"PONG", "RECEIVED_PONG">>,
     SENT_REPLCONF_PORT |-> <<"OK", "RECEIVED_REPLCONF_PORT_OK">>,
     SENT_REPLCONF_CAPA |-> <<"OK", "RECEIVED_REPLCONF_CAPA_OK">>]

AfterReply(e) ==
    IF repl_client_state = "SENT_PSYNC"
    THEN IF e.kind = "fullresync" THEN "RECEIVED_FULLRESYNC_RESPONSE" ELSE "ERROR"
    ELSE IF e = [kind |-> "reply", text |-> Expects[repl_client_state][1]]
    THEN Expects[repl_client_state][2] ELSE "ERROR"

\* process_client_input while a reply is expected: the first reply changes
\* the state, and after +FULLRESYNC the parser leaves the rest in the buffer,
\* which is read until it is full.
ReadReply ==
    /\ repl_client_state \in DOMAIN Expects \cup {"SENT_PSYNC"}
    /\ \E k \in 1 .. Len(Unread) :
          LET b == input_buffer \o SubSeq(Unread, 1, k)
          IN  /\ Len(Tail(b)) <= InSize
              /\ taken' = taken + k
              /\ repl_client_state' = AfterReply(Head(b))
              /\ input_buffer' = Tail(b)
    /\ UNCHANGED <<requests, sync, data, lost>>

\* The header is taken from what is in the buffer already; this state does not
\* read from the socket.  replica_receive_rdb_snapshot goes on from there.
ReadHeader ==
    /\ repl_client_state = "RECEIVED_FULLRESYNC_RESPONSE"
    /\ Len(input_buffer) >= 2
    /\ rdb_expected_bytes' = input_buffer[1].size
    /\ rdb_received_bytes' = 0
    /\ input_buffer' = Drop(input_buffer, 2)
    /\ early' = Len(input_buffer) - 2
    /\ repl_client_state' = "RECEIVING_RDB_DATA"
    /\ UNCHANGED <<taken, requests, rdb_written_bytes, tmp, loaded, data, lost>>

\* The ring buffer after a read that did not ask for its room: each place holds
\* the last byte stored in it.
Stored(b) == [i \in 1 .. Len(b) |-> b[i + InSize * ((Len(b) - i) \div InSize)]]

\* Mutant: the bytes just read are written, not the first of the buffer.
ToDisk_JustRead(b, k) == Drop(b, Len(b) - k)

\* fwrite takes as many bytes as were read, from the front of the buffer.
ToDisk(b, k) == SubSeq(b, 1, k)

\* What rb_write and rb_read make of it.  When rb_write refuses, the buffer
\* holds as many bytes as before, and rb_read takes k of them or refuses too.
Left(b, k) ==
    LET held == Len(b) - k
    IN  IF Len(b) <= InSize THEN Drop(b, k)
        ELSE SubSeq(b, IF k <= held THEN k + 1 ELSE 1, held)

\* Mutant: off by one.
Complete_Over(written) == written > rdb_expected_bytes

Complete(written) == written = rdb_expected_bytes

\* Mutant: whatever the socket holds is read.
Limit_None == Len(Unread)

\* A read asks for the bytes that are missing, whatever the room for them.
Limit == rdb_expected_bytes - rdb_received_bytes

\* An iteration of replica_receive_rdb_snapshot.  What came with the header is
\* not counted as received, so the last bytes of the snapshot stay in the
\* buffer until as many others have come.  The end of the connection is not
\* acted on.
replica_receive_rdb_snapshot ==
    /\ repl_client_state = "RECEIVING_RDB_DATA"
    /\ Len(input_buffer) < InSize
    /\ \E k \in {i \in 1 .. Len(Unread) : i <= Limit} :
          LET b == Stored(input_buffer \o SubSeq(Unread, 1, k))
              written == rdb_written_bytes + k
          IN  /\ taken' = taken + k
              /\ rdb_received_bytes' = rdb_received_bytes + k
              /\ rdb_written_bytes' = written
              /\ tmp' = tmp \o ToDisk(b, k)
              /\ input_buffer' = Left(b, k)
              /\ lost' = IF Len(b) <= InSize THEN lost ELSE "over"
              /\ IF Complete(written)
                 THEN loaded' = tmp' /\ repl_client_state' = "READY"
                 ELSE UNCHANGED <<loaded, repl_client_state>>
    /\ UNCHANGED <<requests, rdb_expected_bytes, early, data>>

\* Mutant: what was left in the buffer with the snapshot is passed over.
Readable_New(k) == SubSeq(Unread, 1, k)

Readable(k) == input_buffer \o SubSeq(Unread, 1, k)

\* Mutant: only the first command of a read is executed.
Ends_First(b) ==
    LET done == Filter(b, Second) IN IF done = <<>> THEN <<>> ELSE <<done[1]>>

\* The commands that are complete with these bytes.
Ends(b) == Filter(b, Second)
IsSet(e) == e.cmd = "SET"

\* Mutant: the branch for a replica compares the right field, and the bytes of
\* a SET are counted by both branches.
Advance_Twice(n, flag) == IF flag THEN 2 * n ELSE n

\* The branch for a replica compares the type with a state and is never taken;
\* the branch that propagates counts the bytes, when the last command is SET.
Advance(n, flag) == IF flag THEN n ELSE 0

InStep(b) == \A i \in 1 .. Len(b) : b[i].kind = "command"

\* process_client_input for the stream of commands.  A read that ends inside an
\* argument (cut) still executes what comes before it.
ReadCommands ==
    /\ repl_client_state = "READY" /\ lost = "no"
    /\ \E k \in 0 .. Len(Unread), cut \in BOOLEAN :
          LET b == Readable(k)
              done == Ends(b)
              flag == IF done = <<>> THEN should_propogate ELSE IsSet(done[Len(done)])
          IN  /\ taken' = taken + k
              /\ lost' = IF cut THEN "cut" ELSE "no"
              /\ IF cut THEN k < Len(Unread) /\ InStep(<<Unread[k + 1]>>) ELSE k > 0
              /\ Len(b) <= InSize /\ InStep(b)
              /\ input_buffer' = <<>>
              /\ applied' = applied \o Filter(done, {e \in Second : IsSet(e)})
              /\ should_propogate' = flag
              /\ offset' = offset + Advance(Len(b), flag)
    /\ UNCHANGED <<requests, repl_client_state, sync, own>>

\* The same when what is read is not all commands: the parser is put out of
\* step, and the model does not follow the connection any further.
ReadAstray ==
    /\ repl_client_state = "READY" /\ lost = "no"
    /\ \E k \in 1 .. Len(Unread) : Len(Readable(k)) <= InSize /\ ~ InStep(Readable(k))
    /\ lost' = "stray"
    /\ UNCHANGED <<taken, requests, repl_client_state, input_buffer, sync, data>>

\* process_client_input for a client of the replica: the bytes of its SETs are
\* added to the same counter.
ClientSet ==
    /\ \E n \in 1 .. MaxOwn - own : offset' = offset + n /\ own' = own + n
    /\ UNCHANGED <<taken, requests, repl_client_state, input_buffer, sync,
                   should_propogate, applied, lost>>

\* read returns 0 in a state that calls process_client_input, and
\* handle_client_disconnection frees the client.  There is no reconnection.
MasterGone ==
    /\ closed /\ Unread = <<>> /\ Len(input_buffer) < InSize
    /\ repl_client_state \in DOMAIN Expects \cup {"SENT_PSYNC", "READY"}
    /\ repl_client_state' = "freed"
    /\ UNCHANGED <<taken, requests, input_buffer, sync, data, lost>>

NextReplica ==
    \/ send_command
    \/ ReadReply
    \/ ReadHeader
    \/ replica_receive_rdb_snapshot
    \/ ReadCommands
    \/ ReadAstray
    \/ MasterGone
==============================================================================
