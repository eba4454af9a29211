----------------------------- MODULE ReplicaSync -----------------------------
(***************************************************************************)
(* A master and one replica: Replication, in which the connection Link is  *)
(* the replica's, composed with Replica.  The master answers what Link     *)
(* asks; the other connections are clients that write and save, and stay:  *)
(* the end of a regular client touches nothing that a replica is sent.     *)
(***************************************************************************)
EXTENDS Replication

CONSTANTS
    Link,     \* the connection of the replica
    InSize,   \* RING_BUFFER_SIZE, for the replica's input buffer
    MaxOwn    \* bound: bytes of SETs from the replica's own clients

ASSUME LinkAssumption == Link \in Conns /\ InSize \in Nat \ {0} /\ MaxOwn \in Nat

VARIABLES taken, requests, repl_client_state, input_buffer, rdb_expected_bytes,
          rdb_received_bytes, rdb_written_bytes, tmp, loaded, should_propogate,
          applied, offset, early, own, lost

INSTANCE Replica WITH incoming <- sent[Link], closed <- ~ up,
                      Second <- {e \in Command : e.part = 2}

replica == <<taken, requests, repl_client_state, input_buffer, rdb_expected_bytes,
             rdb_received_bytes, rdb_written_bytes, tmp, loaded, should_propogate,
             applied, offset, early, own, lost>>
all == <<vars, replica>>

InitSync == Init /\ InitReplica

\* PING and REPLCONF are answered at once; PSYNC names no master.
Served ==
    /\ up /\ type[Link] = "regular" /\ requests # <<>>
    /\ requests' = Tail(requests)
    /\ \/ /\ Head(requests) = "PSYNC"
          /\ handle_psync(Link, FALSE, -1)
       \/ /\ Head(requests) # "PSYNC"
          /\ sent' = [sent EXCEPT ![Link] =
                         Append(@, Reply(IF Head(requests) = "PING" THEN "PONG" ELSE "OK"))]
          /\ UNCHANGED <<conn, replicas, rep, log, file, sets, input, snap, promised, missed, up>>
    /\ UNCHANGED <<taken, repl_client_state, input_buffer, rdb_expected_bytes,
                   rdb_received_bytes, rdb_written_bytes, tmp, loaded,
                   should_propogate, applied, offset, early, own, lost>>

Clients ==
    /\ \/ Accept(Link)
       \/ \E c \in Conns \ {Link} :
             \/ Accept(c)
             \/ \E chunk \in Chunks : process_client_input(c, chunk)
             \/ handle_save(c)
    /\ UNCHANGED replica

Sending == UNCHANGED replica /\ master_handle_replica_out(Link)
Replicating == UNCHANGED vars /\ NextReplica
Own == UNCHANGED vars /\ ClientSet

NextSync == Served \/ Clients \/ Sending \/ Replicating \/ Own

\* The event loops of both servers come round: a connection is accepted, a
\* request is served, a socket that takes bytes is written to, and the replica
\* is called for its EPOLLOUT event as long as the connection lives.
SyncSpec ==
    /\ InitSync /\ [][NextSync]_all
    /\ WF_all(Accept(Link) /\ UNCHANGED replica)
    /\ WF_all(Served) /\ WF_all(Sending) /\ WF_all(Replicating)
------------------------------------------------------------------------------
\* The fields of the master's client on the replica: its input buffer holds no
\* more than its size, and never more is received or written to the file than
\* its header has announced.
SyncTypeOK ==
    /\ TypeOK
    /\ taken \in 0 .. Len(sent[Link])
    /\ input_buffer \in Seq(Element) /\ Len(input_buffer) <= InSize
    /\ rdb_expected_bytes \in Nat
    /\ rdb_received_bytes = rdb_written_bytes
    /\ rdb_written_bytes \in 0 .. rdb_expected_bytes
    /\ repl_client_state \in
           DOMAIN Sends \cup DOMAIN Expects
             \cup {"SENT_PSYNC", "RECEIVED_FULLRESYNC_RESPONSE", "RECEIVING_RDB_DATA",
                   "READY", "freed"}

OtherSave == file.version # promised[Link]

\* What the replica loads is the file it was promised, whole, in its order and
\* nothing else, however its bytes are cut and however many came before it was
\* ready for them, unless the file was saved again in the meantime, or a read
\* ran past the end of the input buffer.  None does when the buffer has room for
\* the file and what came with its header.
SnapshotIntact ==
    /\ repl_client_state = "READY" /\ ~ OtherSave /\ lost # "over" =>
           loaded = [i \in 1 .. rdb_file_size[Link] |-> Part(promised[Link], i)]
    /\ lost = "over" => early + rdb_expected_bytes > InSize

\* After its snapshot the replica has executed a prefix of the SETs the master
\* has executed since it took the snapshot: none is lost, repeated, reordered
\* or taken from the snapshot's bytes, as long as no read has ended inside an
\* argument and nothing but commands has followed the snapshot.
AppliedPrefix ==
    repl_client_state = "READY" /\ Link \notin missed /\ lost = "no" =>
        \E n \in snap[Link] .. Len(sets) : Writers(applied) = SubSeq(sets, snap[Link] + 1, n)

\* The replica's offset, counted from the one its snapshot was taken at and
\* without the bytes of its own clients, never says more than the master has
\* propagated, as long as the replica is in step with what it receives.
NeverOverstates ==
    lost = "no" =>
        \A i \in DOMAIN sent[Link] : sent[Link][i].kind = "fullresync" =>
            sent[Link][i].offset + (offset - own) <= master_repl_offset

\* The header was cut off from the reply before it, and is never read.
HeaderCut == repl_client_state = "RECEIVED_FULLRESYNC_RESPONSE" /\ Len(input_buffer) < 2

\* The handshake and the transfer end, and the replica is ready, unless the
\* master is gone or saves again, or the reads cut the header off or bring a
\* part of the snapshot along with it.
ReplicaReady ==
    <>(repl_client_state = "READY" \/ ~ up \/ OtherSave \/ HeaderCut \/ early > 0)

\* A snapshot that is being sent is sent to its end, however the socket takes
\* it and whatever other clients write, unless there is another save.
SnapshotSent ==
    state[Link] = "SENDING_RDB_DATA" /\ up ~> state[Link] = "PROPAGATE" \/ OtherSave \/ ~ up

\* Once write events are armed for a replica that has its snapshot, it
\* executes every SET the master executes, as long as it is in step with them.
CaughtUp ==
    repl_client_state = "READY" /\ epollout[Link] /\ state[Link] = "PROPAGATE"
      /\ early = 0 /\ ~ OtherSave
        ~> \/ Writers(applied) = SubSeq(sets, snap[Link] + 1, Len(sets))
           \/ Link \in missed \/ ~ up \/ lost # "no"

\* A snapshot whose first bytes came with its header is received like another
\* ("proceed to receive RDB data, as some might already be in the buffer",
\* replication.c:111).
SnapshotTaken ==
    repl_client_state = "RECEIVING_RDB_DATA" ~>
        repl_client_state = "READY" \/ ~ up \/ OtherSave
==============================================================================
