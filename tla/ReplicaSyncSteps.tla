-------------------------- MODULE ReplicaSyncSteps --------------------------
(***************************************************************************)
(* The invariant of a master and its replica, and the steps that keep it   *)
(* without the connection carrying more: what the replica reads, answers   *)
(* and makes of what it has read, and what the master does with others.    *)
(***************************************************************************)
EXTENDS ReplicaSync, ReplicationProofs

wire == sent[Link]
came == Len(wire)
held == Len(input_buffer)
outs == Len(output[Link])

\* How much of the connection has left the input buffer.
Used == taken - held

\* What the replica has counted of the stream.
Streamed == offset - own

\* The input buffer holds what was read last.
BufferOK ==
    /\ taken \in 0 .. came
    /\ input_buffer \in Seq(Element) /\ held <= taken /\ held <= InSize
    /\ \A i \in 1 .. held : input_buffer[i] = wire[Used + i]

CountersOK ==
    /\ rdb_expected_bytes \in Nat /\ rdb_received_bytes = rdb_written_bytes
    /\ rdb_written_bytes \in 0 .. rdb_expected_bytes
    /\ offset \in Nat /\ own \in Nat /\ Streamed \in Nat
    /\ tmp \in Seq(Element) /\ loaded \in Seq(Element) /\ applied \in Seq(Element)

\* The replica has read n replies and sends a request, or waits for the answer.
Stage(n, asks, waits, request) ==
    /\ taken = n
    /\ \/ repl_client_state = asks /\ came = n /\ requests = <<>>
       \/ repl_client_state = waits /\ came = n /\ requests = <<request>>
       \/ repl_client_state = waits /\ came = n + 1 /\ requests = <<>>

Handshaking ==
    \/ Stage(0, "CONNECTING", "SENT_PING", "PING")
    \/ Stage(1, "RECEIVED_PONG", "SENT_REPLCONF_PORT", "REPLCONF")
    \/ Stage(2, "RECEIVED_REPLCONF_PORT_OK", "SENT_REPLCONF_CAPA", "REPLCONF")
    \/ Stage(3, "RECEIVED_REPLCONF_CAPA_OK", "SENT_PSYNC", "PSYNC")

\* The first replies.
Answers ==
    /\ came >= 1 => wire[1] = Reply("PONG")
    /\ came >= 2 => wire[2] = Reply("OK")
    /\ came >= 3 => wire[3] = Reply("OK")

Nothing ==
    /\ input_buffer = <<>> /\ applied = <<>> /\ tmp = <<>> /\ Streamed = 0
    /\ rdb_expected_bytes = 0 /\ rdb_written_bytes = 0

\* Before PSYNC is served.
Before ==
    /\ type[Link] \in {"closed", "regular"} /\ (type[Link] = "closed" => wire = <<>>)
    /\ output[Link] = <<>> /\ replicas = <<>>
    /\ Nothing
    /\ came <= 3 /\ Answers
    /\ Handshaking \/ (repl_client_state = "freed" /\ ~ up)

Size == rdb_file_size[Link]
Parts == rdb_file_offset[Link]

\* What the master has written since: the header, parts of the snapshot and,
\* when that is complete, commands.
Written ==
    /\ came >= 6 + Parts
    /\ \A i \in 1 .. 3 : wire[i].kind = "reply"
    /\ wire[4].kind = "fullresync" /\ wire[5] = Header(Size) /\ wire[6] = HeaderEnd
    /\ \A i \in 7 .. 6 + Parts : wire[i].kind = "rdb"
    /\ \A i \in 7 + Parts .. came : wire[i] \in Command
    /\ \A i \in 1 .. outs : output[Link][i] \in Command
    /\ state[Link] = "SENDING_RDB_DATA" => came = 6 + Parts
    /\ state[Link] = "PROPAGATE" => Parts = Size

\* The commands in the stream are not more than what the master has counted.
Counted ==
    /\ wire[4].offset \in Nat
    /\ wire[4].offset + came + outs <= master_repl_offset + 6 + Parts

\* Unless the file was saved again, the parts are those of one version of it.
OneVersion ==
    /\ promised[Link] <= file.version
    /\ ~ OtherSave => /\ file.size = Size /\ Parts <= Size
                      /\ \A i \in 7 .. 6 + Parts : wire[i] = Part(promised[Link], i - 6)

Mastering ==
    /\ requests = <<>> /\ Size \in Nat \ {0}
    /\ state[Link] \in {"SENDING_RDB_DATA", "PROPAGATE"}
    /\ Written /\ Counted /\ OneVersion

Unready == applied = <<>> /\ Streamed = 0

\* What the replica has made of it.
Waiting ==
    /\ repl_client_state = "SENT_PSYNC" /\ taken = 3 /\ Nothing
Replied ==
    /\ repl_client_state = "RECEIVED_FULLRESYNC_RESPONSE" /\ Used = 4
    /\ Unready /\ tmp = <<>> /\ rdb_expected_bytes = 0 /\ rdb_written_bytes = 0
Receiving ==
    /\ repl_client_state = "RECEIVING_RDB_DATA" /\ Used = 6 + rdb_written_bytes
    /\ Unready /\ rdb_expected_bytes = Size /\ rdb_written_bytes < Size /\ held = early
    /\ DOMAIN tmp = 1 .. rdb_written_bytes
    /\ \A i \in 1 .. rdb_written_bytes : tmp[i] = wire[6 + i]
Ready ==
    /\ repl_client_state = "READY" /\ Used >= 6 + Size
    /\ DOMAIN loaded = 1 .. Size /\ \A i \in 1 .. Size : loaded[i] = wire[6 + i]
    /\ applied = Filter(SubSeq(wire, 1, Used), SetEnds)

Replicated ==
    /\ Waiting \/ Replied \/ Receiving \/ Ready \/ (repl_client_state = "freed" /\ ~ up)
    /\ Streamed = 0 \/ Streamed <= Used - 6 - Size

\* Once PSYNC is served.
After == type[Link] = "replica" /\ Mastering /\ Replicated

\* Once a read has run past the end of the input buffer: the reads go on, and
\* what they make of the bytes is not followed.
Overrun ==
    /\ type[Link] = "replica" /\ state[Link] \in {"SENDING_RDB_DATA", "PROPAGATE"}
    /\ repl_client_state \in {"RECEIVING_RDB_DATA", "READY", "freed"}
    /\ taken \in 0 .. came /\ input_buffer \in Seq(Element) /\ held <= InSize
    /\ early + rdb_expected_bytes > InSize

\* The inductive invariant.
SyncInv ==
    /\ TypeInv /\ CountersOK
    /\ IF lost = "over" THEN Overrun ELSE BufferOK /\ (Before \/ After)

------------------------------------------------------------------------------
(* The master's state.  A step of the composition is a step of the master,   *)
(* an answer to a request of the handshake, or a step of the replica.        *)

Answer ==
    /\ type[Link] = "regular" /\ up
    /\ \E text \in {"PONG", "OK"} : sent' = [sent EXCEPT ![Link] = Append(@, Reply(text))]
    /\ UNCHANGED <<conn, replicas, rep, log, file, sets, input, snap, promised, missed, up>>

LEMMA MasterStep ==
    ASSUME TypeInv, [NextSync]_all
    PROVE  [Next]_vars \/ Answer
<1>1. CASE Served
  <2>1. CASE Head(requests) = "PSYNC"
    <3>1. handle_psync(Link, FALSE, -1)
      BY <1>1, <2>1, Zenon DEF Served
    <3>2. -1 \in -1 .. master_repl_offset + 1
      BY DEF TypeInv, OffsetInv, OffsetsOK
    <3> QED
      BY <3>1, <3>2, LinkAssumption, Zenon DEF Next
  <2>2. CASE Head(requests) # "PSYNC"
    BY <1>1, <2>2, Zenon DEF Served, Answer
  <2> QED
    BY <2>1, <2>2, Zenon
<1>2. CASE Clients
  BY <1>2, LinkAssumption, Zenon DEF Clients, Next
<1>3. CASE Sending
  BY <1>3, LinkAssumption, Zenon DEF Sending, Next
<1>4. CASE Replicating
  BY <1>4, Zenon DEF Replicating
<1>5. CASE Own
  BY <1>5, Zenon DEF Own
<1>6. CASE UNCHANGED all
  BY <1>6, Zenon DEF all
<1> QED
  BY <1>1, <1>2, <1>3, <1>4, <1>5, <1>6, Zenon DEF NextSync

LEMMA AnswerTyped ==
    ASSUME TypeInv, Answer
    PROVE  TypeInv' /\ (StreamInv => StreamInv')
<1>1. UNCHANGED <<type, half, should_propogate_command, replicas, state, epollout, output,
                  rdb_file_size, rdb_file_offset, repl_offset, master_repl_offset,
                  repl_backlog_base_offset, repl_backlog, file, sets, input, snap, promised,
                  missed, up>>
  BY Zenon DEF Answer, conn, rep, rdb, log
<1>2. PICK text \in {"PONG", "OK"} : sent' = [sent EXCEPT ![Link] = Append(sent[Link], Reply(text))]
  BY Zenon DEF Answer
<1>3. Reply(text) \in Element /\ Reply(text) \notin Command
  BY Zenon DEF Reply, Element, Command
<1>4. sent \in [Conns -> Seq(Element)] /\ Link \in Conns
  BY LinkAssumption, Zenon DEF TypeInv, BuffersOK
<1>5. PICK s \in Seq(Element) : s = sent[Link]
  BY <1>4, Zenon
<1>6. PICK e \in Element : e = Reply(text)
  BY <1>3, Zenon
<1>7. Append(s, e) \in Seq(Element)
  OBVIOUS
<1>8. sent' = [sent EXCEPT ![Link] = Append(s, e)]
  BY <1>2, <1>5, <1>6, Zenon
<1>9. sent' \in [Conns -> Seq(Element)]
  BY <1>4, <1>7, <1>8, Zenon
<1>10. TypeInv'
  <2>1. ClientsOK'
    BY <1>1, Zenon DEF TypeInv, ClientsOK
  <2>2. NumbersOK'
    BY <1>1, Zenon DEF TypeInv, NumbersOK
  <2>3. BuffersOK'
    BY <1>1, <1>9, Zenon DEF TypeInv, BuffersOK
  <2>4. ArrayInv'
    BY <1>1 DEF TypeInv, ArrayInv, ReplicasOnce, Registered
  <2>5. OffsetInv'
    BY <1>1, Zenon DEF TypeInv, OffsetInv, OffsetsOK, BacklogWindow, NeverAhead
  <2> QED
    BY <2>1, <2>2, <2>3, <2>4, <2>5, Zenon DEF TypeInv
<1>11. ASSUME StreamInv PROVE StreamInv'
  <2> SUFFICES ASSUME NEW x \in Conns PROVE ClientStream(x)'
    BY Zenon DEF StreamInv
  <2>1. ClientStream(x)
    BY <1>11, Zenon DEF StreamInv
  <2>2. CASE x # Link
    <3>1. sent'[x] = sent[x]
      BY <1>4, <1>8, <2>2, Zenon
    <3> QED
      BY <1>1, <2>1, <3>1, SameStream, Zenon DEF Followed
  <2>3. CASE x = Link
    <3>1. type[x] = "regular" /\ Filter(s, Command) = <<>> /\ output[x] = <<>>
      BY <1>5, <2>1, <2>3, Zenon DEF Answer, ClientStream
    <3>2. Filter(Append(s, e), Command) = Filter(s, Command)
      BY <1>3, <1>6, FilterAppend, Zenon
    <3>3. sent'[x] = Append(s, e)
      BY <1>4, <1>8, <2>3, Zenon
    <3> QED
      BY <1>1, <3>1, <3>2, <3>3, Zenon DEF ClientStream, Followed
  <2> QED
    BY <2>2, <2>3, Zenon
<1> QED
  BY <1>10, <1>11, Zenon

LEMMA MasterTyped ==
    ASSUME TypeInv, [NextSync]_all
    PROVE  TypeInv' /\ (WholeReads /\ StreamInv => StreamInv')
<1>1. CASE [Next]_vars
  <2>1. TypeInv'
    BY <1>1, ClientsStep, NumbersStep, BuffersStep, ArrayInvInductive, OffsetInvInductive, Zenon
       DEF TypeInv
  <2>2. WholeReads /\ StreamInv => StreamInv'
    BY <1>1, StreamStep, Zenon
  <2> QED
    BY <2>1, <2>2, Zenon
<1>2. CASE Answer
  BY <1>2, AnswerTyped, Zenon
<1> QED
  BY <1>1, <1>2, MasterStep, Zenon

------------------------------------------------------------------------------
(* The steps of the replica *)



\* How much can be read, and what the buffer is then.
LEMMA UnreadFacts ==
    ASSUME TypeInv, BufferOK
    PROVE  /\ wire \in Seq(Element) /\ came \in Nat /\ taken \in Nat /\ taken <= came
           /\ held \in Nat /\ held <= taken /\ Used \in Nat /\ Used + held = taken
           /\ \A k \in 0 .. Len(Unread) : k \in Nat /\ taken + k <= came
           /\ \A k \in 1 .. Len(Unread) : k \in 0 .. Len(Unread) /\ k >= 1
<1>1. wire \in Seq(Element)
  BY LinkAssumption, Zenon DEF TypeInv, BuffersOK, wire
<1>2. Unread = SubSeq(wire, taken + 1, Len(wire))
  BY Zenon DEF Unread, wire
<1>3. PICK w \in Seq(Element) : w = wire
  BY <1>1, Zenon
<1>4. PICK t \in 0 .. Len(w) : t = taken
  BY <1>3, Zenon DEF BufferOK, came
<1> DEFINE n == Len(SubSeq(w, t + 1, Len(w)))
<1>5. /\ \A k \in 0 .. n : k \in Nat /\ t + k <= Len(w)
      /\ \A k \in 1 .. n : k \in 0 .. n /\ k >= 1
  OBVIOUS
<1>6. /\ \A k \in 0 .. Len(Unread) : k \in Nat /\ taken + k <= came
      /\ \A k \in 1 .. Len(Unread) : k \in 0 .. Len(Unread) /\ k >= 1
  BY <1>2, <1>3, <1>4, <1>5, Zenon DEF came
<1>7. came \in Nat /\ held \in Nat
  BY <1>1 DEF BufferOK, came, held
<1>8. taken \in Nat /\ taken <= came
  BY <1>7 DEF BufferOK
<1> QED
  BY <1>1, <1>6, <1>7, <1>8 DEF BufferOK, Used

LEMMA Reads ==
    ASSUME TypeInv, BufferOK, NEW k \in Nat, taken + k <= came
    PROVE  /\ Readable(k) \in Seq(Element) /\ Len(Readable(k)) = held + k
           /\ \A i \in 1 .. held + k : Readable(k)[i] = wire[Used + i]
<1>1. PICK w \in Seq(Element) : w = wire
  BY UnreadFacts, Zenon
<1>2. PICK ib \in Seq(Element) : ib = input_buffer
  BY Zenon DEF BufferOK
<1>3. PICK t \in 0 .. Len(w) : t = taken
  BY <1>1, Zenon DEF BufferOK, came
<1>4. Len(ib) <= t /\ t + k <= Len(w) /\ \A i \in 1 .. Len(ib) : ib[i] = w[t - Len(ib) + i]
  BY <1>1, <1>2, <1>3, Zenon DEF BufferOK, Used, held, came
<1> DEFINE b == ib \o SubSeq(SubSeq(w, t + 1, Len(w)), 1, k)
<1>5. /\ b \in Seq(Element) /\ Len(b) = Len(ib) + k
      /\ \A i \in 1 .. Len(ib) + k : b[i] = w[t - Len(ib) + i]
  BY <1>4, ReadOn, SMTT(30)
<1>6. Readable(k) = b
  BY <1>1, <1>2, <1>3, Zenon DEF Readable, Unread, wire
<1> HIDE DEF b
<1> QED
  BY <1>1, <1>2, <1>3, <1>5, <1>6, Zenon DEF held, Used

\* n elements leave the buffer when k have been read.
LEMMA BufferMoves ==
    ASSUME TypeInv, BufferOK, UNCHANGED sent, NEW k \in Nat, NEW n \in Nat,
           taken' = taken + k, taken + k <= came,
           input_buffer' \in Seq(Element), held' = held + k - n, n <= held + k, held' <= InSize,
           \A i \in 1 .. held + k - n : input_buffer'[i] = wire[Used + n + i]
    PROVE  BufferOK' /\ Used' = Used + n
<1>1. came \in Nat /\ taken \in Nat /\ held \in Nat /\ held <= taken /\ Used \in Nat
      /\ Used + held = taken
  BY UnreadFacts, Zenon
<1>2. Used' = taken' - held'
  BY Zenon DEF Used
<1>3. Used' = Used + n
  BY <1>1, <1>2
<1>4. wire' = wire /\ came' = came
  BY Zenon DEF wire, came
<1>5. taken' \in 0 .. came' /\ held' <= taken'
  BY <1>1, <1>4, SMTT(30)
<1>6. \A i \in 1 .. held' : input_buffer'[i] = wire'[Used' + i]
  BY <1>3, <1>4, Zenon
<1> QED
  BY <1>3, <1>5, <1>6, Zenon DEF BufferOK

LEMMA SendsFacts ==
    /\ DOMAIN Sends = {"CONNECTING", "RECEIVED_PONG", "RECEIVED_REPLCONF_PORT_OK",
                       "RECEIVED_REPLCONF_CAPA_OK"}
    /\ Sends["CONNECTING"] = <<"PING", "SENT_PING">>
    /\ Sends["RECEIVED_PONG"] = <<"REPLCONF", "SENT_REPLCONF_PORT">>
    /\ Sends["RECEIVED_REPLCONF_PORT_OK"] = <<"REPLCONF", "SENT_REPLCONF_CAPA">>
    /\ Sends["RECEIVED_REPLCONF_CAPA_OK"] = <<"PSYNC", "SENT_PSYNC">>
  BY Zenon DEF Sends

LEMMA ExpectsFacts ==
    /\ DOMAIN Expects = {"SENT_PING", "SENT_REPLCONF_PORT", "SENT_REPLCONF_CAPA"}
    /\ Expects["SENT_PING"] = <<"PONG", "RECEIVED_PONG">>
    /\ Expects["SENT_REPLCONF_PORT"] = <<"OK", "RECEIVED_REPLCONF_PORT_OK">>
    /\ Expects["SENT_REPLCONF_CAPA"] = <<"OK", "RECEIVED_REPLCONF_CAPA_OK">>
  BY Zenon DEF Expects

\* In these states the replica has been promised a snapshot.
LEMMA InAfter ==
    ASSUME Before \/ After,
           repl_client_state \in {"RECEIVED_FULLRESYNC_RESPONSE", "RECEIVING_RDB_DATA", "READY"}
    PROVE  After
  BY Zenon DEF Before, Handshaking, Stage

\* The master's part of the invariant, when the replica alone moves.
LEMMA MasterStill ==
    ASSUME UNCHANGED vars, UNCHANGED requests
    PROVE  /\ UNCHANGED <<type, state, output, sent, up, replicas, wire, came, Size, Parts>>
           /\ Mastering => Mastering'
<1>1. UNCHANGED <<type, state, output, sent, rdb_file_size, rdb_file_offset, promised, file,
                  master_repl_offset, up, replicas>>
  BY Zenon DEF vars, conn, rep, rdb, log, hist
<1>2. UNCHANGED <<wire, came, outs, Size, Parts>>
  BY <1>1, Zenon DEF wire, came, outs, Size, Parts
<1> QED
  BY <1>1, <1>2, Zenon DEF Mastering, Written, Counted, OneVersion, OtherSave

LEMMA SendStep ==
    ASSUME BufferOK, CountersOK, Before \/ After, send_command, UNCHANGED vars
    PROVE  BufferOK' /\ CountersOK' /\ (Before \/ After)'
<1>0. UNCHANGED <<type, state, output, sent, rdb_file_size, rdb_file_offset, promised, file,
                  master_repl_offset, up, replicas>>
  BY Zenon DEF vars, conn, rep, rdb, log, hist
<1>1. UNCHANGED <<taken, input_buffer, tmp, loaded, applied, offset, own, early, Streamed,
                  rdb_expected_bytes, rdb_received_bytes, rdb_written_bytes, wire, came, held, Used>>
  BY <1>0, Zenon DEF send_command, sync, counters, data, wire, came, held, Used, Streamed
<1>2. BufferOK' /\ CountersOK'
  BY <1>1, Zenon DEF BufferOK, CountersOK
<1>3. Before
  BY SendsFacts, Zenon DEF send_command, After, Replicated, Waiting, Replied, Receiving, Ready
<1>4. Handshaking /\ repl_client_state # "freed"
  BY <1>3, SendsFacts, Zenon DEF send_command, Before
<1>5. repl_client_state \in DOMAIN Sends /\ repl_client_state' = Sends[repl_client_state][2]
      /\ requests' = Append(requests, Sends[repl_client_state][1])
  BY Zenon DEF send_command
<1>6. Handshaking'
  <2>1. CASE Stage(0, "CONNECTING", "SENT_PING", "PING")
    <3>1. repl_client_state = "CONNECTING" /\ taken = 0 /\ came = 0 /\ requests = <<>>
      BY <1>5, <2>1, SendsFacts, Zenon DEF Stage
    <3>2. repl_client_state' = "SENT_PING" /\ requests' = <<"PING">>
      BY <1>5, <3>1, SendsFacts
    <3>3. Stage(0, "CONNECTING", "SENT_PING", "PING")'
      BY <1>1, <3>1, <3>2, Zenon DEF Stage
    <3> QED
      BY <3>3, Zenon DEF Handshaking
  <2>2. CASE Stage(1, "RECEIVED_PONG", "SENT_REPLCONF_PORT", "REPLCONF")
    <3>1. repl_client_state = "RECEIVED_PONG" /\ taken = 1 /\ came = 1 /\ requests = <<>>
      BY <1>5, <2>2, SendsFacts, Zenon DEF Stage
    <3>2. repl_client_state' = "SENT_REPLCONF_PORT" /\ requests' = <<"REPLCONF">>
      BY <1>5, <3>1, SendsFacts
    <3>3. Stage(1, "RECEIVED_PONG", "SENT_REPLCONF_PORT", "REPLCONF")'
      BY <1>1, <3>1, <3>2, Zenon DEF Stage
    <3> QED
      BY <3>3, Zenon DEF Handshaking
  <2>3. CASE Stage(2, "RECEIVED_REPLCONF_PORT_OK", "SENT_REPLCONF_CAPA", "REPLCONF")
    <3>1. repl_client_state = "RECEIVED_REPLCONF_PORT_OK" /\ taken = 2 /\ came = 2 /\ requests = <<>>
      BY <1>5, <2>3, SendsFacts, Zenon DEF Stage
    <3>2. repl_client_state' = "SENT_REPLCONF_CAPA" /\ requests' = <<"REPLCONF">>
      BY <1>5, <3>1, SendsFacts
    <3>3. Stage(2, "RECEIVED_REPLCONF_PORT_OK", "SENT_REPLCONF_CAPA", "REPLCONF")'
      BY <1>1, <3>1, <3>2, Zenon DEF Stage
    <3> QED
      BY <3>3, Zenon DEF Handshaking
  <2>4. CASE Stage(3, "RECEIVED_REPLCONF_CAPA_OK", "SENT_PSYNC", "PSYNC")
    <3>1. repl_client_state = "RECEIVED_REPLCONF_CAPA_OK" /\ taken = 3 /\ came = 3 /\ requests = <<>>
      BY <1>5, <2>4, SendsFacts, Zenon DEF Stage
    <3>2. repl_client_state' = "SENT_PSYNC" /\ requests' = <<"PSYNC">>
      BY <1>5, <3>1, SendsFacts
    <3>3. Stage(3, "RECEIVED_REPLCONF_CAPA_OK", "SENT_PSYNC", "PSYNC")'
      BY <1>1, <3>1, <3>2, Zenon DEF Stage
    <3> QED
      BY <3>3, Zenon DEF Handshaking
  <2> QED
    BY <1>4, <2>1, <2>2, <2>3, <2>4, Zenon DEF Handshaking
<1> QED
  BY <1>0, <1>1, <1>2, <1>3, <1>6, Zenon DEF Before, Nothing, Answers

LEMMA ReplyStep ==
    ASSUME TypeInv, BufferOK, CountersOK, Before \/ After, ReadReply, UNCHANGED vars
    PROVE  BufferOK' /\ CountersOK' /\ (Before \/ After)'
<1>0. UNCHANGED <<type, state, output, sent, rdb_file_size, rdb_file_offset, promised, file,
                  master_repl_offset, up, replicas>>
  BY Zenon DEF vars, conn, rep, rdb, log, hist
<1>1. UNCHANGED <<requests, tmp, loaded, applied, offset, own, Streamed,
                  rdb_expected_bytes, rdb_received_bytes, rdb_written_bytes, wire, came>>
  BY <1>0, Zenon DEF ReadReply, sync, counters, data, wire, came, Streamed
<1>2. came \in Nat /\ taken \in Nat /\ held \in Nat /\ Used \in Nat /\ Used + held = taken
  BY UnreadFacts, Zenon
<1>3. PICK k \in 1 .. Len(Unread) :
           /\ taken' = taken + k
           /\ repl_client_state' = AfterReply(Head(Readable(k)))
           /\ input_buffer' = Tail(Readable(k)) /\ Len(Tail(Readable(k))) <= InSize
  BY Zenon DEF ReadReply, Readable
<1>4. k \in Nat /\ k >= 1 /\ taken + k <= came
  BY UnreadFacts, Zenon
<1>5. PICK b \in Seq(Element) : /\ b = Readable(k) /\ Len(b) = held + k
                                /\ \A i \in 1 .. held + k : b[i] = wire[Used + i]
  BY <1>4, Reads, Zenon
<1>6. b # <<>>
  BY <1>2, <1>4, <1>5
<1>7. /\ Tail(b) \in Seq(Element) /\ Len(Tail(b)) = Len(b) - 1 /\ Head(b) = b[1]
      /\ \A i \in 1 .. Len(b) - 1 : Tail(b)[i] = b[i + 1]
  BY <1>6, TailFacts
<1>8. Head(b) = wire[Used + 1]
  BY <1>2, <1>4, <1>5, <1>7
<1>9. BufferOK' /\ Used' = Used + 1 /\ held' = held + k - 1
  <2>1. held' = held + k - 1 /\ held' <= InSize
    BY <1>3, <1>5, <1>7 DEF held
  <2>2. ASSUME NEW i \in 1 .. held + k - 1 PROVE Tail(b)[i] = wire[Used + 1 + i]
    <3>1. i \in 1 .. Len(b) - 1 /\ i + 1 \in 1 .. held + k /\ Used + (i + 1) = Used + 1 + i
      BY <1>2, <1>4, <1>5
    <3> QED
      BY <1>5, <1>7, <3>1, Zenon
  <2>3. input_buffer' = Tail(b) /\ taken' = taken + k
    BY <1>3, <1>5, Zenon
  <2>4. 1 <= held + k
    BY <1>2, <1>4
  <2> QED
    BY <1>0, <1>4, <1>7, <2>1, <2>2, <2>3, <2>4, BufferMoves, ZenonT(30)
<1>11. CountersOK'
  BY <1>1, Zenon DEF CountersOK
<1>12. CASE Before
  <2>1. held = 0
    BY <1>12, Zenon DEF Before, Nothing, held
  <2>2. repl_client_state # "freed" /\ Handshaking
    BY <1>12, ExpectsFacts, Zenon DEF Before, ReadReply
  <2>3. k = 1 /\ came = taken + 1 /\ requests = <<>>
    <3>1. CASE Stage(0, "CONNECTING", "SENT_PING", "PING")
      BY <1>4, <3>1 DEF Stage
    <3>2. CASE Stage(1, "RECEIVED_PONG", "SENT_REPLCONF_PORT", "REPLCONF")
      BY <1>4, <3>2 DEF Stage
    <3>3. CASE Stage(2, "RECEIVED_REPLCONF_PORT_OK", "SENT_REPLCONF_CAPA", "REPLCONF")
      BY <1>4, <3>3 DEF Stage
    <3>4. CASE Stage(3, "RECEIVED_REPLCONF_CAPA_OK", "SENT_PSYNC", "PSYNC")
      BY <1>4, <3>4 DEF Stage
    <3> QED
      BY <2>2, <3>1, <3>2, <3>3, <3>4, Zenon DEF Handshaking
  <2>4. input_buffer' = <<>>
    <3>1. held' = 0
      BY <1>2, <1>9, <2>1, <2>3
    <3> QED
      BY <1>9, <3>1 DEF BufferOK, held
  <2>5. Handshaking'
    <3>1. came \in 1 .. 3
      BY <1>2, <1>12, <2>3 DEF Before
    <3>2. CASE taken = 0
      <4>1. repl_client_state = "SENT_PING"
        BY <2>2, <2>3, <3>2 DEF Handshaking, Stage
      <4>2. Head(b) = Reply("PONG")
        BY <1>2, <1>8, <1>12, <2>1, <2>3, <3>2 DEF Before, Answers
      <4>3. repl_client_state' = "RECEIVED_PONG"
        BY <1>3, <1>5, <4>1, <4>2, ExpectsFacts DEF AfterReply, Reply
      <4>4. Stage(1, "RECEIVED_PONG", "SENT_REPLCONF_PORT", "REPLCONF")'
        BY <1>1, <1>3, <2>3, <3>2, <4>3 DEF Stage
      <4> QED
        BY <4>4, Zenon DEF Handshaking
    <3>3. CASE taken = 1
      <4>1. repl_client_state = "SENT_REPLCONF_PORT"
        BY <2>2, <2>3, <3>3 DEF Handshaking, Stage
      <4>2. Head(b) = Reply("OK")
        BY <1>2, <1>8, <1>12, <2>1, <2>3, <3>3 DEF Before, Answers
      <4>3. repl_client_state' = "RECEIVED_REPLCONF_PORT_OK"
        BY <1>3, <1>5, <4>1, <4>2, ExpectsFacts DEF AfterReply, Reply
      <4>4. Stage(2, "RECEIVED_REPLCONF_PORT_OK", "SENT_REPLCONF_CAPA", "REPLCONF")'
        BY <1>1, <1>3, <2>3, <3>3, <4>3 DEF Stage
      <4> QED
        BY <4>4, Zenon DEF Handshaking
    <3>4. CASE taken = 2
      <4>1. repl_client_state = "SENT_REPLCONF_CAPA"
        BY <2>2, <2>3, <3>4 DEF Handshaking, Stage
      <4>2. Head(b) = Reply("OK")
        BY <1>2, <1>8, <1>12, <2>1, <2>3, <3>4 DEF Before, Answers
      <4>3. repl_client_state' = "RECEIVED_REPLCONF_CAPA_OK"
        BY <1>3, <1>5, <4>1, <4>2, ExpectsFacts DEF AfterReply, Reply
      <4>4. Stage(3, "RECEIVED_REPLCONF_CAPA_OK", "SENT_PSYNC", "PSYNC")'
        BY <1>1, <1>3, <2>3, <3>4, <4>3 DEF Stage
      <4> QED
        BY <4>4, Zenon DEF Handshaking
    <3> QED
      BY <1>2, <2>3, <3>1, <3>2, <3>3, <3>4
  <2> QED
    BY <1>0, <1>1, <1>9, <1>11, <1>12, <2>4, <2>5, Zenon DEF Before, Nothing, Answers
<1>13. CASE After
  <2>1. Waiting
    BY <1>13, ExpectsFacts, Zenon DEF After, Replicated, Replied, Receiving, Ready, ReadReply
  <2>2. held = 0 /\ Used = 3
    BY <1>2, <2>1 DEF Waiting, Nothing, held
  <2>3. Head(b).kind = "fullresync"
    BY <1>8, <1>13, <2>2 DEF After, Mastering, Written
  <2>4. repl_client_state' = "RECEIVED_FULLRESYNC_RESPONSE"
    BY <1>3, <1>5, <2>1, <2>3, Zenon DEF AfterReply, Waiting
  <2>5. Replied'
    BY <1>1, <1>9, <2>1, <2>2, <2>4 DEF Replied, Waiting, Nothing, Unready
  <2>6. Replicated'
    BY <2>5, Zenon DEF Replicated, Replied, Unready
  <2>7. Mastering'
    BY <1>1, <1>13, MasterStill, Zenon DEF After
  <2> QED
    BY <1>0, <1>9, <1>11, <1>13, <2>6, <2>7, Zenon DEF After
<1> QED
  BY <1>12, <1>13, Zenon

LEMMA HeaderStep ==
    ASSUME TypeInv, BufferOK, CountersOK, Before \/ After, ReadHeader, UNCHANGED vars
    PROVE  BufferOK' /\ CountersOK' /\ (Before \/ After)'
<1>1. After /\ Replied
  <2>1. After
    BY InAfter, Zenon DEF ReadHeader
  <2> QED
    BY <2>1, Zenon DEF ReadHeader, After, Replicated, Waiting, Receiving, Ready
<1>2. UNCHANGED <<taken, requests, rdb_written_bytes, tmp, loaded, applied, offset, own, Streamed>>
      /\ early' = Len(input_buffer) - 2
  BY Zenon DEF ReadHeader, data, Streamed
<1>3. Mastering' /\ UNCHANGED <<type, sent, wire, came, Size>>
  BY <1>1, <1>2, MasterStill, Zenon DEF After
<1>4. came \in Nat /\ taken \in Nat /\ held \in Nat /\ taken <= came /\ Used + held = taken
  BY UnreadFacts, Zenon
<1>5. PICK b \in Seq(Element) : b = input_buffer
  BY Zenon DEF BufferOK
<1>6. Len(b) = held /\ held >= 2
  BY <1>5, Zenon DEF ReadHeader, held
<1>7. PICK r \in Seq(Element) : /\ r = SubSeq(b, 2 + 1, Len(b)) /\ Len(r) = Len(b) - 2
                                /\ \A i \in 1 .. Len(b) - 2 : r[i] = b[2 + i]
  <2>1. 2 \in 0 .. Len(b)
    BY <1>4, <1>6
  <2>2. /\ SubSeq(b, 2 + 1, Len(b)) \in Seq(Element) /\ Len(SubSeq(b, 2 + 1, Len(b))) = Len(b) - 2
        /\ \A i \in 1 .. Len(b) - 2 : SubSeq(b, 2 + 1, Len(b))[i] = b[2 + i]
    BY <2>1, SuffixFacts, Zenon
  <2> QED
    BY <2>2, Zenon
<1>8. input_buffer' = r
  BY <1>5, <1>7, Zenon DEF ReadHeader, Drop
<1>9. BufferOK' /\ Used' = Used + 2 /\ held' = early'
  <2>0. held' = Len(b) - 2 /\ held' = early'
    BY <1>2, <1>5, <1>7, <1>8, Zenon DEF held
  <2>1. held' = held + 0 - 2 /\ held' <= InSize
    BY <1>4, <1>6, <2>0, LinkAssumption DEF BufferOK
  <2>2. ASSUME NEW i \in 1 .. held + 0 - 2 PROVE input_buffer'[i] = wire[Used + 2 + i]
    <3>1. i \in 1 .. Len(b) - 2 /\ 2 + i \in 1 .. held
      BY <1>4, <1>6
    <3>2. b[2 + i] = wire[Used + (2 + i)]
      BY <1>5, <3>1, Zenon DEF BufferOK
    <3>3. Used + (2 + i) = Used + 2 + i
      BY <1>4, <3>1 DEF Used
    <3> QED
      BY <1>7, <1>8, <3>1, <3>2, <3>3, Zenon
  <2>3. taken' = taken + 0 /\ taken + 0 <= came /\ 2 <= held + 0
    BY <1>2, <1>4, <1>6
  <2> QED
    BY <1>3, <1>8, <2>0, <2>1, <2>2, <2>3, BufferMoves, ZenonT(30)
<1>10. rdb_expected_bytes' = Size /\ rdb_received_bytes' = 0
  <2>1. 1 \in 1 .. held /\ Used + 1 = 5
    BY <1>1, <1>4, <1>6 DEF Replied
  <2>2. input_buffer[1] = wire[5]
    BY <2>1, Zenon DEF BufferOK
  <2>3. wire[5] = Header(Size)
    BY <1>1, Zenon DEF After, Mastering, Written
  <2> QED
    BY <2>2, <2>3 DEF ReadHeader, Header
<1>11. Size \in Nat /\ Size > 0 /\ rdb_written_bytes' = 0
  BY <1>1, <1>2 DEF After, Mastering, Replied
<1>12. CountersOK'
  BY <1>2, <1>10, <1>11 DEF CountersOK
<1>13. Receiving'
  <2>1. repl_client_state' = "RECEIVING_RDB_DATA"
    BY Zenon DEF ReadHeader
  <2>2. tmp' = <<>> /\ Unready' /\ Used' = 6 + rdb_written_bytes'
    BY <1>1, <1>2, <1>4, <1>9, <1>11 DEF Replied, Unready
  <2>3. DOMAIN tmp' = 1 .. rdb_written_bytes'
    BY <1>11, <2>2
  <2>4. rdb_expected_bytes' = Size' /\ rdb_written_bytes' < Size'
    BY <1>3, <1>10, <1>11, Zenon
  <2>5. \A i \in 1 .. rdb_written_bytes' : tmp'[i] = wire'[6 + i]
    BY <1>11
  <2> QED
    BY <1>9, <2>1, <2>2, <2>3, <2>4, <2>5 DEF Receiving
<1> QED
  BY <1>1, <1>3, <1>9, <1>12, <1>13, Zenon DEF After, Replicated, Receiving, Unready

\* What comes before the commands completes none.
LEMMA NoneYet ==
    ASSUME TypeInv, BufferOK, Mastering, NEW n \in Nat, n <= came, n = 6 + Size
    PROVE  Filter(SubSeq(wire, 1, n), SetEnds) = <<>>
<1>1. PICK w \in Seq(Element) : w = wire
  BY UnreadFacts, Zenon
<1>2. n \in 0 .. Len(w)
  BY <1>1 DEF came
<1>3. /\ SubSeq(w, 1, n) \in Seq(Element) /\ Len(SubSeq(w, 1, n)) = n
      /\ \A i \in 1 .. n : SubSeq(w, 1, n)[i] = w[i]
  BY <1>2, PrefixFacts, Zenon
<1>4. Parts \in Nat /\ came \in Nat /\ Size \in Nat
  BY LinkAssumption, UnreadFacts, Zenon DEF TypeInv, NumbersOK, Parts, Mastering
<1>5. Size <= Parts
  BY <1>4 DEF Mastering, Written
<1>6. ASSUME NEW i \in 1 .. n PROVE w[i] \notin SetEnds
  <2>1. \A e \in SetEnds : e.kind = "command"
    BY Zenon DEF SetEnds, Command
  <2>2. CASE i \in 1 .. 3
    BY <1>1, <2>1, <2>2, Zenon DEF Mastering, Written
  <2>3. CASE i \in {4, 5, 6}
    BY <1>1, <2>1, <2>3 DEF Mastering, Written, Header, HeaderEnd
  <2>4. CASE i \in 7 .. 6 + Parts
    BY <1>1, <2>1, <2>4, Zenon DEF Mastering, Written
  <2> QED
    BY <1>4, <1>5, <2>2, <2>3, <2>4
<1> QED
  BY <1>1, <1>3, <1>6, FilterNone, Zenon

\* A read keeps the number of bytes, and in a buffer with room for them each.
LEMMA StoredFacts ==
    ASSUME NEW E, NEW b \in Seq(E)
    PROVE  /\ Stored(b) \in Seq(E) /\ Len(Stored(b)) = Len(b)
           /\ Len(b) <= InSize => Stored(b) = b
<1>1. PICK d \in Nat \ {0} : d = InSize
  BY LinkAssumption, Zenon
<1> DEFINE last(i) == i + d * ((Len(b) - i) \div d)
<1>2. ASSUME NEW i \in 1 .. Len(b) PROVE last(i) \in 1 .. Len(b) /\ (Len(b) <= d => last(i) = i)
  <2>1. PICK n \in Nat : n = Len(b) - i
    OBVIOUS
  <2>2. d * (n \div d) \in 0 .. n /\ (n < d => d * (n \div d) = 0)
    <3>1. d * (n \div d) \in 0 .. n /\ (n < d => n \div d = 0)
      OBVIOUS
    <3> QED
      BY <3>1
  <2> QED
    BY <2>1, <2>2
<1>3. Stored(b) = [i \in 1 .. Len(b) |-> b[last(i)]]
  BY <1>1, Zenon DEF Stored
<1> HIDE DEF last
<1>4. [i \in 1 .. Len(b) |-> b[last(i)]] \in Seq(E)
      /\ Len([i \in 1 .. Len(b) |-> b[last(i)]]) = Len(b)
  BY <1>2
<1>5. Len(b) <= d => [i \in 1 .. Len(b) |-> b[last(i)]] = b
  BY <1>2
<1> QED
  BY <1>1, <1>3, <1>4, <1>5, Zenon

LEMMA LeftFacts ==
    ASSUME NEW E, NEW b \in Seq(E), NEW k \in Nat, k <= Len(b)
    PROVE  Left(b, k) \in Seq(E) /\ Len(Left(b, k)) <= Len(b) - k
<1>1. PICK h \in Nat : h = Len(b) - k
  <2>1. Len(b) - k \in Nat
    OBVIOUS
  <2> QED
    BY <2>1, Zenon
<1>2. /\ SubSeq(b, k + 1, Len(b)) \in Seq(E) /\ Len(SubSeq(b, k + 1, Len(b))) <= h
  BY <1>1
<1>3. SubSeq(b, k + 1, h) \in Seq(E) /\ Len(SubSeq(b, k + 1, h)) <= h
  BY <1>1
<1>4. SubSeq(b, 1, h) \in Seq(E) /\ Len(SubSeq(b, 1, h)) <= h
  BY <1>1
<1> QED
  BY <1>1, <1>2, <1>3, <1>4, Zenon DEF Left, Drop

\* Whatever a read of the snapshot does to the buffer, it is a buffer, and the
\* counters are right; and the read goes past its end only when it is too small.
LEMMA ReceiveTyped ==
    ASSUME TypeInv, CountersOK, taken \in 0 .. came, input_buffer \in Seq(Element),
           held <= InSize, replica_receive_rdb_snapshot, UNCHANGED vars
    PROVE  /\ CountersOK' /\ UNCHANGED <<requests, rdb_expected_bytes, early>>
           /\ taken' \in 0 .. came' /\ input_buffer' \in Seq(Element) /\ held' <= InSize
           /\ repl_client_state' \in {"RECEIVING_RDB_DATA", "READY"}
           /\ lost' = "over" => lost = "over" \/ held + rdb_expected_bytes > InSize
<1>1. UNCHANGED <<requests, rdb_expected_bytes, early, applied, offset, own, Streamed>>
  BY Zenon DEF replica_receive_rdb_snapshot, data, Streamed
<1>2. came' = came
  BY Zenon DEF vars, hist, came, wire
<1>3. PICK k \in 1 .. Len(Unread) :
         /\ k <= Limit
         /\ taken' = taken + k
         /\ rdb_received_bytes' = rdb_received_bytes + k
         /\ rdb_written_bytes' = rdb_written_bytes + k
         /\ tmp' = tmp \o ToDisk(Stored(Readable(k)), k)
         /\ input_buffer' = Left(Stored(Readable(k)), k)
         /\ lost' = IF Len(Stored(Readable(k))) <= InSize THEN lost ELSE "over"
         /\ \/ loaded' = tmp' /\ repl_client_state' = "READY"
            \/ UNCHANGED <<loaded, repl_client_state>>
  BY Zenon DEF replica_receive_rdb_snapshot, Readable
<1>4. /\ k \in Nat /\ taken + k \in 0 .. came /\ held \in Nat
      /\ Readable(k) \in Seq(Element) /\ Len(Readable(k)) = held + k
  <2>1. PICK w \in Seq(Element) : w = wire
    BY LinkAssumption, Zenon DEF TypeInv, BuffersOK, wire
  <2>2. PICK ib \in Seq(Element) : ib = input_buffer
    OBVIOUS
  <2>3. PICK t \in 0 .. Len(w) : t = taken
    BY <2>1, Zenon DEF came
  <2>4. Unread = SubSeq(w, t + 1, Len(w))
    BY <2>1, <2>3, Zenon DEF Unread, wire
  <2>5. PICK u \in Seq(Element) : u = Unread /\ Len(u) = Len(w) - t
    <3>1. SubSeq(w, t + 1, Len(w)) \in Seq(Element) /\ Len(SubSeq(w, t + 1, Len(w))) = Len(w) - t
      BY SuffixFacts, Zenon
    <3> QED
      BY <2>4, <3>1, Zenon
  <2>6. k \in 1 .. Len(u)
    BY <2>5, Zenon
  <2>7. PICK v \in Seq(Element) : v = SubSeq(u, 1, k) /\ Len(v) = k
    <3>1. SubSeq(u, 1, k) \in Seq(Element) /\ Len(SubSeq(u, 1, k)) = k
      BY <2>6
    <3> QED
      BY <3>1, Zenon
  <2>8. k \in Nat /\ t + k \in 0 .. Len(w) /\ ib \o v \in Seq(Element) /\ Len(ib \o v) = Len(ib) + k
        /\ Len(ib) \in Nat
    BY <2>5, <2>6, <2>7
  <2> QED
    BY <2>1, <2>2, <2>3, <2>5, <2>7, <2>8, Zenon DEF Readable, held, came
<1>5. PICK b \in Seq(Element) : b = Stored(Readable(k)) /\ Len(b) = held + k
  BY <1>4, StoredFacts, Zenon
<1>6. k <= Len(b) /\ Len(b) - k = held
  BY <1>4, <1>5
<1>7. input_buffer' \in Seq(Element) /\ held' <= held
  BY <1>3, <1>4, <1>5, <1>6, LeftFacts, Zenon DEF held
<1>8. held' <= InSize
  <2>1. held' \in Nat
    BY <1>7, LenNat, Zenon DEF held
  <2> QED
    BY <1>4, <1>7, <2>1, LinkAssumption
<1>9. tmp' \in Seq(Element)
  <2>1. SubSeq(b, 1, k) \in Seq(Element)
    BY <1>4, <1>6
  <2>2. PICK t \in Seq(Element), d \in Seq(Element) : t = tmp /\ d = SubSeq(b, 1, k)
    BY <2>1, Zenon DEF CountersOK
  <2>3. t \o d \in Seq(Element)
    OBVIOUS
  <2> QED
    BY <1>3, <1>5, <2>2, <2>3, Zenon DEF ToDisk
<1>10. PICK x \in Nat, e \in Nat : /\ x = rdb_written_bytes /\ e = rdb_expected_bytes
                                   /\ x = rdb_received_bytes /\ k <= e - x /\ x <= e
  BY <1>3 DEF CountersOK, Limit
<1>11. x + k \in 0 .. e
  BY <1>4, <1>10
<1>12. CountersOK'
  <2>1. rdb_written_bytes' = x + k /\ rdb_received_bytes' = x + k /\ rdb_expected_bytes' = e
    BY <1>1, <1>3, <1>10, Zenon
  <2>2. loaded' \in Seq(Element)
    BY <1>3, <1>9, Zenon DEF CountersOK
  <2> QED
    BY <1>1, <1>9, <1>10, <1>11, <2>1, <2>2, Zenon DEF CountersOK
<1>13. ASSUME lost' = "over", lost # "over" PROVE held + rdb_expected_bytes > InSize
  <2>1. ~ Len(b) <= InSize
    BY <1>3, <1>5, <1>13, Zenon
  <2> QED
    BY <1>4, <1>5, <1>10, <2>1, LinkAssumption
<1>14. repl_client_state' \in {"RECEIVING_RDB_DATA", "READY"}
  BY <1>3, Zenon DEF replica_receive_rdb_snapshot
<1> QED
  BY <1>1, <1>2, <1>3, <1>4, <1>7, <1>8, <1>12, <1>13, <1>14, Zenon

LEMMA ReceiveStep ==
    ASSUME TypeInv, BufferOK, CountersOK, Before \/ After, replica_receive_rdb_snapshot,
           UNCHANGED vars, lost' # "over"
    PROVE  BufferOK' /\ (Before \/ After)'
<1>1. After /\ Receiving
  <2>1. After
    BY InAfter, Zenon DEF replica_receive_rdb_snapshot
  <2> QED
    BY <2>1, Zenon DEF replica_receive_rdb_snapshot, After, Replicated, Waiting, Replied, Ready
<1>2. UNCHANGED <<requests, rdb_expected_bytes, early, applied, Streamed>>
  BY Zenon DEF replica_receive_rdb_snapshot, data, Streamed
<1>3. Mastering' /\ UNCHANGED <<type, sent, wire, came, Size>>
  BY <1>1, <1>2, MasterStill, Zenon DEF After
<1>4. came \in Nat /\ taken \in Nat /\ held \in Nat /\ taken <= came /\ Used + held = taken
      /\ Used \in Nat
  BY UnreadFacts, Zenon
<1>5. PICK k \in 1 .. Len(Unread) :
         /\ k <= Limit
         /\ taken' = taken + k
         /\ rdb_received_bytes' = rdb_received_bytes + k
         /\ rdb_written_bytes' = rdb_written_bytes + k
         /\ tmp' = tmp \o ToDisk(Stored(Readable(k)), k)
         /\ input_buffer' = Left(Stored(Readable(k)), k)
         /\ Len(Stored(Readable(k))) <= InSize
         /\ IF Complete(rdb_written_bytes + k)
            THEN loaded' = tmp' /\ repl_client_state' = "READY"
            ELSE UNCHANGED <<loaded, repl_client_state>>
  BY Zenon DEF replica_receive_rdb_snapshot, Readable
<1>6. k \in Nat /\ k >= 1 /\ taken + k <= came
  BY UnreadFacts, Zenon
<1>7. PICK b \in Seq(Element) : /\ b = Stored(Readable(k)) /\ Len(b) = held + k
                                /\ \A i \in 1 .. held + k : b[i] = wire[Used + i]
  <2>1. PICK r \in Seq(Element) : /\ r = Readable(k) /\ Len(r) = held + k
                                  /\ \A i \in 1 .. held + k : r[i] = wire[Used + i]
    BY <1>6, Reads, Zenon
  <2>2. Stored(r) = r
    BY <1>5, <2>1, StoredFacts, Zenon
  <2> QED
    BY <2>1, <2>2, Zenon
<1>8. k \in 0 .. Len(b)
  BY <1>4, <1>6, <1>7
<1>9. PICK r \in Seq(Element) : /\ r = SubSeq(b, k + 1, Len(b)) /\ Len(r) = Len(b) - k
                                /\ \A i \in 1 .. Len(b) - k : r[i] = b[k + i]
  <2>1. /\ SubSeq(b, k + 1, Len(b)) \in Seq(Element) /\ Len(SubSeq(b, k + 1, Len(b))) = Len(b) - k
        /\ \A i \in 1 .. Len(b) - k : SubSeq(b, k + 1, Len(b))[i] = b[k + i]
    BY <1>8, SuffixFacts, Zenon
  <2> QED
    BY <2>1, Zenon
<1>10. input_buffer' = r
  BY <1>5, <1>7, <1>9, Zenon DEF Left, Drop
<1>11. BufferOK' /\ Used' = Used + k /\ held' = held
  <2>0. held' = Len(b) - k
    BY <1>9, <1>10, Zenon DEF held
  <2>1. held' = held + k - k /\ held' = held /\ held' <= InSize
    <3>1. held <= InSize
      BY Zenon DEF BufferOK
    <3>2. held' = (held + k) - k
      BY <1>7, <2>0, Zenon
    <3>3. \A h \in Nat : (h + k) - k = h /\ h + k - k = h
      BY <1>6
    <3> QED
      BY <1>4, <3>1, <3>2, <3>3, Zenon
  <2>2. ASSUME NEW i \in 1 .. held + k - k PROVE input_buffer'[i] = wire[Used + k + i]
    <3>1. i \in 1 .. Len(b) - k /\ k + i \in 1 .. held + k /\ Used + (k + i) = Used + k + i
      <4>1. PICK h \in Nat, u \in Nat : h = held /\ u = Used
        BY <1>4, Zenon
      <4>2. i \in 1 .. h + k - k
        BY <4>1, Zenon
      <4>3. i \in 1 .. (h + k) - k /\ k + i \in 1 .. h + k /\ u + (k + i) = u + k + i
        BY <1>6, <4>2
      <4> QED
        BY <1>7, <4>1, <4>3, Zenon
    <3> QED
      BY <1>7, <1>9, <1>10, <3>1, Zenon
  <2>3. k <= held + k
    BY <1>4, <1>6
  <2> QED
    BY <1>3, <1>5, <1>6, <1>10, <2>1, <2>2, <2>3, BufferMoves, ZenonT(30)
<1>12. rdb_written_bytes \in Nat /\ rdb_expected_bytes = Size /\ Size \in Nat
       /\ rdb_received_bytes = rdb_written_bytes /\ Used = 6 + rdb_written_bytes
  BY <1>1 DEF CountersOK, Receiving
<1>13. rdb_written_bytes + k <= Size
  BY <1>5, <1>6, <1>12 DEF Limit
<1>14. /\ tmp' \in Seq(Element) /\ DOMAIN tmp' = 1 .. rdb_written_bytes + k
       /\ \A i \in 1 .. rdb_written_bytes + k : tmp'[i] = wire[6 + i]
  <2>1. PICK t \in Seq(Element) : t = tmp
    BY Zenon DEF CountersOK
  <2>2. PICK d \in Seq(Element) : /\ d = SubSeq(b, 1, k) /\ Len(d) = k
                                  /\ \A i \in 1 .. k : d[i] = b[i]
    <3>1. /\ SubSeq(b, 1, k) \in Seq(Element) /\ Len(SubSeq(b, 1, k)) = k
          /\ \A i \in 1 .. k : SubSeq(b, 1, k)[i] = b[i]
      BY <1>8, PrefixFacts, Zenon
    <3> QED
      BY <3>1, Zenon
  <2>3. tmp' = t \o d
    BY <1>5, <1>7, <2>1, <2>2, Zenon DEF ToDisk
  <2>4. Len(t) = rdb_written_bytes
    BY <1>1, <1>12, <2>1 DEF Receiving
  <2>5. t \o d \in Seq(Element) /\ Len(t \o d) = Len(t) + Len(d)
        /\ \A i \in 1 .. Len(t) + Len(d) : (t \o d)[i] = IF i <= Len(t) THEN t[i] ELSE d[i - Len(t)]
    BY ConcatProperties, Zenon
  <2>6. ASSUME NEW i \in 1 .. rdb_written_bytes + k PROVE (t \o d)[i] = wire[6 + i]
    <3>1. CASE i <= rdb_written_bytes
      <4>1. i \in 1 .. rdb_written_bytes /\ i <= Len(t)
        BY <1>12, <2>4, <3>1
      <4>2. tmp[i] = wire[6 + i]
        BY <1>1, <4>1, Zenon DEF Receiving
      <4> QED
        BY <2>1, <2>2, <2>4, <2>5, <4>1, <4>2
    <3>2. CASE ~ i <= rdb_written_bytes
      <4>1. i - rdb_written_bytes \in 1 .. k /\ i - rdb_written_bytes \in 1 .. held + k
            /\ Used + (i - rdb_written_bytes) = 6 + i
        BY <1>4, <1>6, <1>12, <3>2
      <4>2. (t \o d)[i] = d[i - rdb_written_bytes]
        BY <2>2, <2>4, <2>5, <3>2, SMTT(30)
      <4> QED
        BY <1>7, <2>2, <4>1, <4>2, Zenon
    <3> QED
      BY <3>1, <3>2, Zenon
  <2>7. DOMAIN (t \o d) = 1 .. rdb_written_bytes + k
    BY <2>2, <2>4, <2>5
  <2> QED
    BY <2>3, <2>5, <2>6, <2>7, Zenon
<1>15. Unready' /\ Streamed' = 0
  BY <1>1, <1>2, Zenon DEF Receiving, Unready
<1>17. CASE Complete(rdb_written_bytes + k)
  <2>1. loaded' = tmp' /\ repl_client_state' = "READY" /\ rdb_written_bytes + k = Size
    BY <1>5, <1>12, <1>17, Zenon DEF Complete
  <2>3. Used' = 6 + Size /\ 6 + Size <= came /\ 6 + Size \in Nat
    BY <1>4, <1>6, <1>11, <1>12, <2>1
  <2>4. Filter(SubSeq(wire, 1, 6 + Size), SetEnds) = <<>>
    BY <1>1, <2>3, NoneYet, Zenon DEF After
  <2>5. applied' = Filter(SubSeq(wire', 1, Used'), SetEnds)
    BY <1>3, <1>15, <2>3, <2>4, Zenon DEF Unready
  <2>6. DOMAIN loaded' = 1 .. Size' /\ \A i \in 1 .. Size' : loaded'[i] = wire'[6 + i]
    BY <1>3, <1>14, <2>1, Zenon
  <2>7. Used' >= 6 + Size'
    BY <1>3, <1>12, <2>3
  <2>8. Ready'
    BY <2>1, <2>5, <2>6, <2>7, Zenon DEF Ready
  <2> QED
    BY <1>1, <1>3, <1>11, <1>15, <2>8, Zenon DEF After, Replicated
<1>18. CASE ~ Complete(rdb_written_bytes + k)
  <2>1. UNCHANGED <<loaded, repl_client_state>> /\ rdb_written_bytes + k < Size
    BY <1>5, <1>6, <1>12, <1>13, <1>18, SMTT(30) DEF Complete
  <2>3. Used' = 6 + rdb_written_bytes'
    BY <1>5, <1>6, <1>11, <1>12
  <2>4. rdb_expected_bytes' = Size' /\ rdb_written_bytes' < Size'
    BY <1>2, <1>3, <1>5, <1>12, <2>1, Zenon
  <2>5. DOMAIN tmp' = 1 .. rdb_written_bytes'
        /\ \A i \in 1 .. rdb_written_bytes' : tmp'[i] = wire'[6 + i]
    BY <1>3, <1>5, <1>14, Zenon
  <2>6. Receiving'
    BY <1>1, <1>2, <1>11, <1>15, <2>1, <2>3, <2>4, <2>5, Zenon DEF Receiving
  <2> QED
    BY <1>1, <1>3, <1>11, <1>15, <2>6, Zenon DEF After, Replicated
<1> QED
  BY <1>17, <1>18, Zenon

LEMMA CommandsStep ==
    ASSUME TypeInv, BufferOK, CountersOK, Before \/ After, ReadCommands, UNCHANGED vars
    PROVE  BufferOK' /\ CountersOK' /\ (Before \/ After)'
<1>1. After /\ Ready
  <2>1. After
    BY InAfter, Zenon DEF ReadCommands
  <2> QED
    BY <2>1, Zenon DEF ReadCommands, After, Replicated, Waiting, Replied, Receiving
<1>2. UNCHANGED <<requests, repl_client_state, rdb_expected_bytes, rdb_received_bytes,
                  rdb_written_bytes, tmp, loaded, own>>
  BY Zenon DEF ReadCommands, sync, counters
<1>3. Mastering' /\ UNCHANGED <<type, sent, wire, came, Size>>
  BY <1>1, <1>2, MasterStill, Zenon DEF After
<1>4. came \in Nat /\ taken \in Nat /\ held \in Nat /\ taken <= came /\ Used + held = taken
      /\ Used \in Nat /\ wire \in Seq(Element)
  BY UnreadFacts, Zenon
<1>5. PICK k \in 0 .. Len(Unread) :
         /\ taken' = taken + k
         /\ input_buffer' = <<>>
         /\ applied' = applied \o Filter(Ends(Readable(k)),
                                         {e \in {f \in Command : f.part = 2} : IsSet(e)})
         /\ offset' = offset + Len(Readable(k)) \/ offset' = offset + 0
  BY Zenon DEF ReadCommands, Advance
<1>6. k \in Nat /\ taken + k <= came
  BY UnreadFacts, Zenon
<1>7. PICK b \in Seq(Element) : /\ b = Readable(k) /\ Len(b) = held + k
                                /\ \A i \in 1 .. held + k : b[i] = wire[Used + i]
  BY <1>6, Reads, Zenon
<1>8. BufferOK' /\ Used' = Used + (held + k)
  <2>1. held' = held + k - (held + k) /\ held' <= InSize
    BY <1>4, <1>5, <1>6, LinkAssumption DEF held
  <2>2. \A i \in 1 .. held + k - (held + k) : input_buffer'[i] = wire[Used + (held + k) + i]
    <3>1. \A h, n \in Nat : \A i \in 1 .. h + n - (h + n) : FALSE
      OBVIOUS
    <3> QED
      BY <1>4, <1>6, <3>1, Zenon
  <2>3. held + k \in Nat /\ held + k <= held + k
    BY <1>4, <1>6
  <2>4. input_buffer' \in Seq(Element)
    BY <1>5
  <2> QED
    BY <1>3, <1>5, <1>6, <2>1, <2>2, <2>3, <2>4, BufferMoves, Zenon
<1>9. applied' = Filter(SubSeq(wire, 1, Used + (held + k)), SetEnds)
  <2>1. {e \in {f \in Command : f.part = 2} : IsSet(e)} = SetEnds
    BY Zenon DEF IsSet, SetEnds, EndsSet
  <2>2. SetEnds \subseteq {e \in Command : e.part = 2}
    BY Zenon DEF SetEnds, EndsSet
  <2>3. Ends(b) = Filter(b, {e \in Command : e.part = 2})
    BY Zenon DEF Ends
  <2>4. Filter(Ends(b), SetEnds) = Filter(b, SetEnds)
    <3>1. Filter(Filter(b, {e \in Command : e.part = 2}), SetEnds) = Filter(b, SetEnds)
      BY <2>2, FilterTwice, Zenon
    <3> QED
      BY <2>3, <3>1, Zenon
  <2>5. applied' = applied \o Filter(b, SetEnds)
    BY <1>5, <1>7, <2>1, <2>4, Zenon
  <2>6. PICK w \in Seq(Element) : w = wire
    BY <1>4, Zenon
  <2>7. PICK u \in Nat : u = Used
    BY <1>4, Zenon
  <2>8. PICK m \in Nat : m = held + k
    BY <1>4, <1>6
  <2>9. u + m <= Len(w)
    BY <1>4, <1>6, <2>6, <2>7, <2>8 DEF came
  <2>10. CutOut(b, w, u, m)
    BY <1>7, <2>6, <2>7, <2>8, <2>9, Zenon DEF CutOut
  <2>11. Filter(SubSeq(w, 1, u), SetEnds) \o Filter(b, SetEnds)
           = Filter(SubSeq(w, 1, u + m), SetEnds)
    <3>1. ReadsOn(b, w, u, m)
      BY <2>10, FilterOn, Zenon
    <3> QED
      BY <3>1, Zenon DEF ReadsOn
  <2> QED
    BY <1>1, <2>5, <2>6, <2>7, <2>8, <2>11, Zenon DEF Ready
<1>10. applied' \in Seq(Element)
  <2>1. PICK w \in Seq(Element) : w = wire
    BY <1>4, Zenon
  <2>2. SubSeq(w, 1, Used + (held + k)) \in Seq(Element)
    <3>1. Used + (held + k) \in 0 .. Len(w)
      BY <1>4, <1>6, <2>1 DEF came
    <3> QED
      BY <3>1, PrefixFacts, Zenon
  <2> QED
    BY <1>9, <2>1, <2>2, FilterType, Zenon
<1>11. offset' \in Nat /\ Streamed' \in Nat /\ (Streamed' = 0 \/ Streamed' <= Used' - 6 - Size)
  <2>1. Size \in Nat /\ offset \in Nat /\ own \in Nat /\ Streamed \in Nat /\ Used >= 6 + Size
        /\ (Streamed = 0 \/ Streamed <= Used - 6 - Size)
    BY <1>1, Zenon DEF After, Mastering, Replicated, Ready, CountersOK
  <2>2. PICK m \in Nat : m = held + k
    BY <1>4, <1>6
  <2>3. offset' = offset + m \/ offset' = offset + 0
    BY <1>5, <1>7, <2>2, Zenon
  <2>4. Used' = Used + m
    BY <1>8, <2>2, Zenon
  <2>5. offset' \in Nat /\ (Streamed' = Streamed + m \/ Streamed' = Streamed)
    BY <1>2, <2>1, <2>3 DEF Streamed
  <2> QED
    BY <1>4, <2>1, <2>4, <2>5
<1>12. CountersOK'
  BY <1>2, <1>10, <1>11, Zenon DEF CountersOK
<1>13. Ready'
  <2>1. Used' >= 6 + Size'
    BY <1>1, <1>3, <1>4, <1>6, <1>8 DEF Ready, After, Mastering
  <2> QED
    BY <1>1, <1>2, <1>3, <1>8, <1>9, <2>1, SMTT(30) DEF Ready
<1> QED
  BY <1>1, <1>3, <1>8, <1>11, <1>12, <1>13, Zenon DEF After, Replicated

LEMMA GoneStep ==
    ASSUME BufferOK, CountersOK, Before \/ After, MasterGone, UNCHANGED vars
    PROVE  BufferOK' /\ CountersOK' /\ (Before \/ After)'
<1>1. UNCHANGED <<taken, requests, input_buffer, held, tmp, loaded, applied, offset, own,
                  Streamed, rdb_expected_bytes, rdb_received_bytes, rdb_written_bytes>>
  BY Zenon DEF MasterGone, sync, counters, data, held, Streamed
<1>2. UNCHANGED <<type, state, output, sent, up, replicas, wire, came, Size, Parts, Used>>
      /\ (Mastering => Mastering')
  BY <1>1, MasterStill, Zenon DEF Used
<1>3. repl_client_state' = "freed" /\ ~ up'
  BY <1>2, Zenon DEF MasterGone
<1>4. BufferOK' /\ CountersOK'
  BY <1>1, <1>2, Zenon DEF BufferOK, CountersOK
<1>5. CASE Before
  BY <1>1, <1>2, <1>3, <1>4, <1>5, Zenon DEF Before, Nothing, Answers
<1>6. CASE After
  BY <1>1, <1>2, <1>3, <1>4, <1>6, Zenon DEF After, Replicated
<1> QED
  BY <1>5, <1>6, Zenon

------------------------------------------------------------------------------
(* Steps that leave the connection to the replica alone *)

Grows == came' \in Nat /\ came' >= came /\ wire' \in Seq(Element)
           /\ \A i \in 1 .. came : wire'[i] = wire[i]

\* The replica does nothing.
Resting == UNCHANGED <<taken, repl_client_state, input_buffer, rdb_expected_bytes,
                       rdb_received_bytes, rdb_written_bytes, tmp, loaded, applied, offset,
                       own, early>>

\* The replica's part of the invariant, when the connection carries more.
LEMMA ReplicaStill ==
    ASSUME TypeInv, BufferOK, CountersOK, Resting, Grows
    PROVE  /\ BufferOK' /\ CountersOK' /\ Used' = Used
           /\ UNCHANGED Size /\ up /\ Size \in Nat /\ Replicated => Replicated'
<1>1. UNCHANGED <<taken, repl_client_state, input_buffer, held, Used, tmp, loaded,
                  applied, offset, own, early, Streamed, rdb_expected_bytes, rdb_received_bytes,
                  rdb_written_bytes>>
  BY Zenon DEF Resting, held, Used, Streamed
<1>2. came \in Nat /\ taken \in Nat /\ held \in Nat /\ taken <= came /\ Used + held = taken
      /\ Used \in Nat /\ wire \in Seq(Element)
  BY UnreadFacts, Zenon
<1>3. came' \in Nat /\ came' >= came /\ \A i \in 1 .. came : wire'[i] = wire[i]
  BY Zenon DEF Grows
<1>4. BufferOK'
  <2>1. taken' \in 0 .. came' /\ held' <= taken' /\ input_buffer' \in Seq(Element)
    BY <1>1, <1>2, <1>3 DEF BufferOK
  <2>2. ASSUME NEW i \in 1 .. held PROVE input_buffer[i] = wire'[Used + i]
    <3>1. Used + i \in 1 .. came
      BY <1>2
    <3>2. input_buffer[i] = wire[Used + i]
      BY Zenon DEF BufferOK
    <3> QED
      BY <1>3, <3>1, <3>2, Zenon
  <2> QED
    BY <1>1, <2>1, <2>2, Zenon DEF BufferOK
<1>5. CountersOK'
  BY <1>1, Zenon DEF CountersOK
<1>6. ASSUME UNCHANGED Size, up, Size \in Nat, Replicated PROVE Replicated'
  <2>1. CASE Waiting
    BY <1>1, <1>6, <2>1, Zenon DEF Waiting, Nothing, Replicated
  <2>2. CASE Replied
    BY <1>1, <1>6, <2>2, Zenon DEF Replied, Unready, Replicated
  <2>3. CASE Receiving
    <3>1. \A i \in 1 .. rdb_written_bytes : 6 + i \in 1 .. came
      BY <1>2, <2>3 DEF Receiving, CountersOK
    <3>2. \A i \in 1 .. rdb_written_bytes : tmp[i] = wire'[6 + i]
      BY <1>3, <2>3, <3>1, Zenon DEF Receiving
    <3> QED
      BY <1>1, <1>6, <2>3, <3>2, Zenon DEF Receiving, Unready, Replicated
  <2>4. CASE Ready
    <3>1. \A i \in 1 .. Size : 6 + i \in 1 .. came
      BY <1>2, <1>6, <2>4 DEF Ready
    <3>2. \A i \in 1 .. Size : loaded[i] = wire'[6 + i]
      BY <1>3, <2>4, <3>1, Zenon DEF Ready
    <3>3. SubSeq(wire', 1, Used) = SubSeq(wire, 1, Used)
      <4>1. PICK w \in Seq(Element) : w = wire
        BY <1>2, Zenon
      <4>2. PICK v \in Seq(Element) : v = wire'
        BY Zenon DEF Grows
      <4>3. PICK n \in Nat : n = Used
        BY <1>2, Zenon
      <4>4. n <= Len(w) /\ n <= Len(v)
        BY <1>2, <1>3, <4>1, <4>2, <4>3 DEF came
      <4>5. \A i \in 1 .. n : v[i] = w[i]
        BY <1>2, <1>3, <4>1, <4>2, <4>3
      <4> QED
        BY <4>1, <4>2, <4>3, <4>4, <4>5, SamePrefix
    <3>4. applied' = Filter(SubSeq(wire', 1, Used'), SetEnds)
      BY <1>1, <2>4, <3>3, Zenon DEF Ready
    <3> QED
      BY <1>1, <1>6, <2>4, <3>2, <3>4, Zenon DEF Ready, Replicated
  <2> QED
    BY <1>6, <2>1, <2>2, <2>3, <2>4, Zenon DEF Replicated
<1> QED
  BY <1>1, <1>4, <1>5, <1>6, Zenon

\* A step in which the master does nothing on the replica's connection, but
\* may append commands to its output and save the file.
Quiet ==
    /\ up
    /\ type'[Link] = type[Link] /\ state'[Link] = state[Link] /\ sent'[Link] = sent[Link]
    /\ UNCHANGED <<replicas, Size, Parts>> /\ promised'[Link] = promised[Link]
    /\ file' = file \/ file'.version = file.version + 1
    /\ outs' \in Nat
    /\ \/ output'[Link] = output[Link] /\ master_repl_offset' >= master_repl_offset
       \/ /\ type[Link] = "replica"
          /\ outs' + master_repl_offset <= outs + master_repl_offset'
          /\ (\A i \in 1 .. outs : output[Link][i] \in Command)
               => \A i \in 1 .. outs' : output'[Link][i] \in Command

LEMMA QuietKeeps ==
    ASSUME TypeInv, TypeInv', BufferOK, CountersOK, Before \/ After, UNCHANGED replica, Quiet
    PROVE  BufferOK' /\ CountersOK' /\ (Before \/ After)'
<1>1. UNCHANGED <<wire, came, Size, Parts>>
  BY Zenon DEF Quiet, wire, came
<1>2. came \in Nat /\ wire \in Seq(Element)
  BY UnreadFacts, Zenon
<1>3. Grows /\ Resting
  BY <1>1, <1>2 DEF Grows, Resting, replica
<1>4. BufferOK' /\ CountersOK' /\ Used' = Used
  BY <1>3, ReplicaStill, Zenon
<1>5. UNCHANGED <<taken, requests, repl_client_state, input_buffer, tmp, applied, Streamed,
                  rdb_expected_bytes, rdb_written_bytes>>
  BY Zenon DEF replica, Streamed
<1>6. CASE Before
  <2>1. Handshaking
    BY <1>6, Zenon DEF Before, Quiet
  <2>2. Handshaking'
    BY <1>1, <1>5, <2>1 DEF Handshaking, Stage
  <2>3. type'[Link] = type[Link] /\ output'[Link] = output[Link] /\ replicas' = replicas
    BY <1>6, Zenon DEF Before, Quiet
  <2> QED
    BY <1>1, <1>4, <1>5, <1>6, <2>2, <2>3, Zenon DEF Before, Nothing, Answers
<1>7. CASE After
  <2>1. master_repl_offset \in Nat /\ master_repl_offset' \in Nat /\ Parts \in Nat /\ Size \in Nat
    BY <1>7, LinkAssumption, Zenon DEF TypeInv, OffsetInv, OffsetsOK, NumbersOK, Parts, After, Mastering
  <2>2. outs \in Nat /\ outs' \in Nat
    <3>1. output[Link] \in Seq(Element)
      BY LinkAssumption, Zenon DEF TypeInv, BuffersOK
    <3> QED
      BY <3>1, LenNat, Zenon DEF outs, Quiet
  <2>3. PICK o \in Nat, p \in Nat, q \in Nat :
              o = outs /\ p = master_repl_offset /\ q = master_repl_offset'
    BY <2>1, <2>2, Zenon
  <2>4. PICK r \in Nat : r = outs'
    BY <2>2, Zenon
  <2>5. r + p <= o + q
    <3>1. CASE output'[Link] = output[Link] /\ master_repl_offset' >= master_repl_offset
      <4>1. r = o
        BY <2>3, <2>4, <3>1, Zenon DEF outs
      <4>2. q >= p
        BY <2>3, <3>1, Zenon
      <4> QED
        BY <4>1, <4>2
    <3>2. CASE outs' + master_repl_offset <= outs + master_repl_offset'
      BY <2>3, <2>4, <3>2, Zenon
    <3> QED
      BY <3>1, <3>2, Zenon DEF Quiet
  <2>6. Counted'
    <3>1. PICK f \in Nat, n \in Nat, m \in Nat : f = wire[4].offset /\ n = came /\ m = Parts
      BY <1>2, <1>7, <2>1, Zenon DEF After, Mastering, Counted
    <3>2. f + n + o <= p + 6 + m
      BY <1>7, <2>3, <3>1, Zenon DEF After, Mastering, Counted
    <3>3. f + n + r <= q + 6 + m
      BY <2>5, <3>2
    <3>4. f = wire'[4].offset /\ n = came' /\ m = Parts'
      BY <1>1, <3>1, Zenon
    <3> QED
      BY <2>3, <2>4, <3>3, <3>4, Zenon DEF Counted
  <2>7. \A i \in 1 .. outs' : output'[Link][i] \in Command
    <3>1. \A i \in 1 .. outs : output[Link][i] \in Command
      BY <1>7, Zenon DEF After, Mastering, Written
    <3>2. output'[Link] = output[Link] => outs' = outs
      BY Zenon DEF outs
    <3> QED
      BY <3>1, <3>2, Zenon DEF Quiet
  <2>8. Written'
    BY <1>1, <1>7, <2>7, Zenon DEF Quiet, After, Mastering, Written
  <2>9. OneVersion'
    <3>1. file.version \in Nat /\ promised[Link] \in Nat
      BY LinkAssumption DEF TypeInv, NumbersOK
    <3>2. CASE file' = file
      BY <1>1, <1>7, <3>2, Zenon DEF Quiet, After, Mastering, OneVersion, OtherSave
    <3>3. CASE file'.version = file.version + 1
      <4>1. promised'[Link] = promised[Link] /\ promised[Link] <= file.version
        BY <1>7, Zenon DEF Quiet, After, Mastering, OneVersion
      <4>2. promised[Link] <= file.version + 1 /\ file.version + 1 # promised[Link]
        BY <3>1, <4>1
      <4> QED
        BY <3>3, <4>1, <4>2, Zenon DEF OneVersion, OtherSave
    <3> QED
      BY <3>2, <3>3, Zenon DEF Quiet
  <2>10. Replicated'
    BY <1>1, <1>3, <1>7, <2>1, ReplicaStill, Zenon DEF Quiet, After
  <2>11. Mastering'
    BY <1>1, <1>5, <1>7, <2>6, <2>8, <2>9, Zenon DEF Quiet, After, Mastering
  <2> QED
    BY <1>4, <1>7, <2>10, <2>11, Zenon DEF Quiet, After
<1> QED
  BY <1>6, <1>7, Zenon

\* A client writes: its bytes are appended where there is room for them.
LEMMA InputQuiet ==
    ASSUME TypeInv, NEW c \in Conns, c # Link, NEW chunk \in Chunks, process_client_input(c, chunk)
    PROVE  Quiet
<1>1. /\ output \in [Conns -> Seq(Element)] /\ type \in [Conns -> Types]
      /\ master_repl_offset \in Nat /\ Link \in Conns
  BY LinkAssumption, Zenon DEF TypeInv, BuffersOK, ArrayInv, OffsetInv, OffsetsOK
<1>2. up /\ UNCHANGED <<replicas, state, sent, rdb_file_size, rdb_file_offset, promised, file>>
  BY Zenon DEF process_client_input, rdb
<1>3. UNCHANGED <<Size, Parts>>
  BY <1>2, Zenon DEF Size, Parts
<1>4. outs \in Nat
  BY <1>1, LenNat, Zenon DEF outs
<1>5. CASE ~ Flag(c, chunk)
  <2>1. UNCHANGED <<type, output, master_repl_offset>>
    BY <1>5, Zenon DEF process_client_input, log
  <2>2. outs' = outs
    BY <2>1, Zenon DEF outs
  <2>3. master_repl_offset' >= master_repl_offset
    BY <1>1, <2>1
  <2> QED
    BY <1>2, <1>3, <1>4, <2>1, <2>2, <2>3, Zenon DEF Quiet
<1>6. CASE Flag(c, chunk)
  <2> DEFINE n == Len(chunk)
             got == {y \in Receivers : Fits(y, n)}
  <2>1. /\ output' = [y \in Conns |-> IF y \in got THEN output[y] \o Bytes(c, chunk) ELSE output[y]]
        /\ type' = type \/ type' = [type EXCEPT ![c] = "closed"]
        /\ master_repl_offset' = master_repl_offset + n
    BY <1>1, <1>6, Zenon DEF process_client_input, Propagate, Bytes, Backlogged
  <2>2. chunk \in Seq(Fragment) /\ n \in Nat
    BY ChunksAssumption
  <2>3. type'[Link] = type[Link]
    BY <1>1, <2>1, Zenon
  <2>4. CASE Link \notin got
    <3>1. output'[Link] = output[Link]
      BY <1>1, <2>1, <2>4, Zenon
    <3>2. outs' = outs
      BY <3>1, Zenon DEF outs
    <3>3. master_repl_offset' >= master_repl_offset
      BY <1>1, <2>1, <2>2
    <3> QED
      BY <1>2, <1>3, <1>4, <2>3, <3>1, <3>2, <3>3, Zenon DEF Quiet
  <2>5. CASE Link \in got
    <3>1. type[Link] = "replica"
      BY <1>1, <2>5, Zenon DEF Receivers, TypeInv, ArrayInv, ReplicasOnce
    <3>2. PICK b \in Seq(Command) : b = Bytes(c, chunk) /\ Len(b) = n
      <4>1. ASSUME NEW i \in 1 .. n
            PROVE  Frag(c, chunk[i]) \in Command
        <5>1. chunk[i] \in Fragment
          BY <2>2
        <5> HIDE DEF n
        <5> QED
          BY <5>1, Zenon DEF Frag, Command, Fragment
      <4>2. Bytes(c, chunk) \in Seq(Command) /\ Len(Bytes(c, chunk)) = n
        BY <2>2, <4>1 DEF Bytes
      <4> QED
        BY <4>2, Zenon
    <3>3. PICK o \in Seq(Element) : o = output[Link]
      BY <1>1, Zenon
    <3>4. output'[Link] = o \o b
      BY <1>1, <2>1, <2>5, <3>2, <3>3, Zenon
    <3>5. b \in Seq(Element)
      BY DEF Element
    <3>6. /\ Len(o \o b) = Len(o) + Len(b)
          /\ \A i \in 1 .. Len(o) + Len(b) : (o \o b)[i] = IF i <= Len(o) THEN o[i] ELSE b[i - Len(o)]
      BY <3>5, ConcatProperties, Zenon
    <3>7. outs' = outs + n /\ Len(o) = outs
      BY <3>2, <3>3, <3>4, <3>6, Zenon DEF outs
    <3>8. ASSUME \A i \in 1 .. outs : output[Link][i] \in Command, NEW i \in 1 .. outs + n
          PROVE  (o \o b)[i] \in Command
      <4>1. CASE i <= Len(o)
        <5>1. i \in 1 .. outs
          BY <1>4, <2>2, <3>7, <4>1
        <5>2. (o \o b)[i] = o[i]
          BY <3>2, <3>6, <3>7, <4>1, Zenon
        <5> QED
          BY <3>3, <3>8, <5>1, <5>2, Zenon
      <4>2. CASE ~ i <= Len(o)
        <5>1. i - outs \in 1 .. n
          BY <1>4, <2>2, <3>7, <4>2
        <5>2. (o \o b)[i] = b[i - outs]
          BY <3>2, <3>6, <3>7, <4>2, Zenon
        <5>3. \A j \in 1 .. n : b[j] \in Command
          BY <3>2, ElementOfSeq, Zenon
        <5> QED
          BY <5>1, <5>2, <5>3, Zenon
      <4> QED
        BY <4>1, <4>2, ZenonT(30)
    <3>9. outs' \in Nat /\ outs' + master_repl_offset <= outs + master_repl_offset'
      <4>1. PICK x \in Nat, y \in Nat, z \in Nat : x = outs /\ y = n /\ z = master_repl_offset
        BY <1>1, <1>4, <2>2, Zenon
      <4>2. outs' = x + y /\ master_repl_offset' = z + y
        BY <2>1, <3>7, <4>1, Zenon
      <4>3. (x + y) + z <= x + (z + y) /\ x + y \in Nat
        OBVIOUS
      <4> QED
        BY <4>1, <4>2, <4>3, Zenon
    <3>10. (\A i \in 1 .. outs : output[Link][i] \in Command)
             => \A i \in 1 .. outs' : output'[Link][i] \in Command
      BY <3>4, <3>7, <3>8, Zenon
    <3> QED
      BY <1>2, <1>3, <2>3, <3>1, <3>9, <3>10, Zenon DEF Quiet
  <2> QED
    BY <2>4, <2>5, Zenon
<1> QED
  BY <1>5, <1>6, Zenon

LEMMA ClientsQuiet ==
    ASSUME TypeInv, NEW c \in Conns, c # Link,
           Accept(c) \/ (\E chunk \in Chunks : process_client_input(c, chunk))
             \/ handle_save(c)
    PROVE  Quiet
<1>1. /\ output \in [Conns -> Seq(Element)] /\ type \in [Conns -> Types]
      /\ sent \in [Conns -> Seq(Element)] /\ state \in [Conns -> States]
      /\ master_repl_offset \in Nat /\ Link \in Conns
  BY LinkAssumption, Zenon DEF TypeInv, BuffersOK, ArrayInv, OffsetInv, OffsetsOK
<1>2. outs \in Nat
  BY <1>1, LenNat, Zenon DEF outs
<1>3. ASSUME up, UNCHANGED <<replicas, rdb_file_size, rdb_file_offset, promised, master_repl_offset>>,
             file' = file \/ file'.version = file.version + 1,
             type'[Link] = type[Link], state'[Link] = state[Link], sent'[Link] = sent[Link],
             output'[Link] = output[Link]
      PROVE  Quiet
  <2>1. UNCHANGED <<Size, Parts, outs>>
    BY <1>3, Zenon DEF Size, Parts, outs
  <2>2. master_repl_offset' >= master_repl_offset
    BY <1>1, <1>3
  <2> QED
    BY <1>2, <1>3, <2>1, <2>2, Zenon DEF Quiet
<1>4. CASE Accept(c)
  <2>1. type'[Link] = type[Link] /\ state'[Link] = state[Link] /\ sent'[Link] = sent[Link]
        /\ output'[Link] = output[Link]
    BY <1>1, <1>4, Zenon DEF Accept
  <2>2. up /\ UNCHANGED <<replicas, rdb_file_size, rdb_file_offset, promised, master_repl_offset, file>>
    BY <1>4, Zenon DEF Accept, rdb, log
  <2> QED
    BY <1>3, <2>1, <2>2, Zenon
<1>5. CASE \E chunk \in Chunks : process_client_input(c, chunk)
  BY <1>5, InputQuiet, Zenon
<1>6. CASE handle_save(c)
  <2>1. up /\ UNCHANGED <<replicas, rdb_file_size, rdb_file_offset, promised, master_repl_offset,
                          type, state, sent, output>>
    BY <1>6, Zenon DEF handle_save, rep, rdb, log, hist
  <2>2. PICK n \in RdbSizes : file' = [version |-> file.version + 1, size |-> n]
    BY <1>6, Zenon DEF handle_save, redis_db_save
  <2>3. file'.version = file.version + 1
    BY <2>2, Zenon
  <2> QED
    BY <1>3, <2>1, <2>3, Zenon
<1> QED
  BY <1>4, <1>5, <1>6, Zenon

\* The replica goes past the end of its buffer, or has gone before.
LEMMA OverStep ==
    ASSUME TypeInv, CountersOK, replica_receive_rdb_snapshot, UNCHANGED vars, lost' = "over",
           IF lost = "over" THEN Overrun ELSE BufferOK /\ (Before \/ After)
    PROVE  CountersOK' /\ Overrun'
<1>1. taken \in 0 .. came /\ input_buffer \in Seq(Element) /\ held <= InSize
  BY Zenon DEF Overrun, BufferOK
<1>2. /\ CountersOK' /\ UNCHANGED <<requests, rdb_expected_bytes, early>>
      /\ taken' \in 0 .. came' /\ input_buffer' \in Seq(Element) /\ held' <= InSize
      /\ repl_client_state' \in {"RECEIVING_RDB_DATA", "READY"}
      /\ lost' = "over" => lost = "over" \/ held + rdb_expected_bytes > InSize
  BY <1>1, ReceiveTyped, Zenon
<1>3. UNCHANGED <<type, state>>
  BY <1>2, MasterStill, Zenon
<1>4. CASE lost = "over"
  BY <1>2, <1>3, <1>4, Zenon DEF Overrun
<1>5. CASE lost # "over"
  <2>1. After /\ Receiving
    <3>1. After
      BY <1>5, InAfter, Zenon DEF replica_receive_rdb_snapshot
    <3> QED
      BY <3>1, Zenon DEF replica_receive_rdb_snapshot, After, Replicated, Waiting, Replied, Ready
  <2>2. early' + rdb_expected_bytes' > InSize
    BY <1>2, <1>5, <2>1, Zenon DEF Receiving
  <2>3. type'[Link] = "replica" /\ state'[Link] \in {"SENDING_RDB_DATA", "PROPAGATE"}
    BY <1>3, <2>1, Zenon DEF After, Mastering
  <2> QED
    BY <1>2, <2>2, <2>3, Zenon DEF Overrun
<1> QED
  BY <1>4, <1>5, Zenon

\* The replica's counter alone moves, with what it counts of other clients.
LEMMA StillStep ==
    ASSUME SyncInv, UNCHANGED vars, offset' \in Nat, own' \in Nat,
           UNCHANGED <<taken, requests, repl_client_state, input_buffer, rdb_expected_bytes,
                       rdb_received_bytes, rdb_written_bytes, tmp, loaded, applied, early,
                       Streamed>>,
           lost' = "over" <=> lost = "over"
    PROVE  CountersOK' /\ IF lost' = "over" THEN Overrun' ELSE BufferOK' /\ (Before \/ After)'
<1>1. UNCHANGED <<type, state, output, sent, up, replicas, wire, came, Size, Parts>>
      /\ (Mastering => Mastering')
  BY MasterStill, Zenon
<1>2. UNCHANGED <<held, Used>>
  BY Zenon DEF held, Used
<1>3. CountersOK'
  BY Zenon DEF SyncInv, CountersOK
<1>4. Overrun => Overrun'
  BY <1>1, <1>2, Zenon DEF Overrun
<1>5. BufferOK => BufferOK'
  BY <1>1, <1>2, Zenon DEF BufferOK
<1>6. Handshaking => Handshaking'
  BY <1>1, Zenon DEF Handshaking, Stage
<1>7. Before => Before'
  BY <1>1, <1>6, Zenon DEF Before, Nothing, Answers
<1>8. Replicated => Replicated'
  BY <1>1, <1>2, Zenon DEF Replicated, Waiting, Nothing, Replied, Unready, Receiving, Ready
<1>9. After => After'
  BY <1>1, <1>8, Zenon DEF After
<1> QED
  BY <1>3, <1>4, <1>5, <1>7, <1>9, Zenon DEF SyncInv
==============================================================================
