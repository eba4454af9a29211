-------------------------- MODULE ReplicaSyncProofs --------------------------
(***************************************************************************)
(* A master and its replica: what the replica has taken from the           *)
(* connection, what it has made of it and how far that is behind the       *)
(* master, for every number of clients, every set of chunks and every size *)
(* of the snapshot and of the buffers.                                     *)
(***************************************************************************)
EXTENDS ReplicaSyncSteps

(* Steps that write to the connection of the replica *)

LEMMA AcceptKeeps ==
    ASSUME TypeInv, BufferOK, CountersOK, Before \/ After, UNCHANGED replica, Accept(Link)
    PROVE  BufferOK' /\ CountersOK' /\ (Before \/ After)'
<1>1. Before /\ wire = <<>>
  BY Zenon DEF Accept, Before, After
<1>2. sent \in [Conns -> Seq(Element)] /\ output \in [Conns -> Seq(Element)]
      /\ type \in [Conns -> Types] /\ Link \in Conns
  BY LinkAssumption, Zenon DEF TypeInv, BuffersOK, ArrayInv
<1>3. sent'[Link] = <<>> /\ output'[Link] = <<>> /\ type'[Link] = "regular" /\ up' = up
      /\ replicas' = replicas
  BY <1>2, Zenon DEF Accept
<1>4. wire' = wire /\ came' = came
  BY <1>1, <1>3, Zenon DEF wire, came
<1>5. Grows /\ Resting
  BY <1>4, UnreadFacts DEF Grows, Resting, replica
<1>6. BufferOK' /\ CountersOK'
  BY <1>5, ReplicaStill, Zenon
<1>7. UNCHANGED <<taken, requests, repl_client_state, input_buffer, tmp, applied, Streamed,
                  rdb_expected_bytes, rdb_written_bytes>>
  BY Zenon DEF replica, Streamed
<1>8. Handshaking => Handshaking'
  BY <1>4, <1>7, Zenon DEF Handshaking, Stage
<1> QED
  BY <1>1, <1>3, <1>4, <1>6, <1>7, <1>8, Zenon DEF Before, Nothing, Answers


\* The master writes e on the connection.
LEMMA Writes ==
    ASSUME TypeInv, NEW e \in Seq(Element), sent' = [sent EXCEPT ![Link] = sent[Link] \o e]
    PROVE  /\ Grows /\ came' = came + Len(e)
           /\ \A i \in 1 .. Len(e) : wire'[came + i] = e[i]
<1>1. sent \in [Conns -> Seq(Element)] /\ Link \in Conns
  BY LinkAssumption, Zenon DEF TypeInv, BuffersOK
<1>2. PICK w \in Seq(Element) : w = wire
  BY <1>1, Zenon DEF wire
<1>3. wire' = w \o e
  BY <1>1, <1>2, Zenon DEF wire
<1>4. /\ w \o e \in Seq(Element) /\ Len(w \o e) = Len(w) + Len(e)
      /\ \A i \in 1 .. Len(w) + Len(e) : (w \o e)[i] = IF i <= Len(w) THEN w[i] ELSE e[i - Len(w)]
  BY ConcatProperties, Zenon
<1>5. PICK m \in Nat, n \in Nat : m = Len(w) /\ n = Len(e)
  OBVIOUS
<1>6. came = m /\ came' = m + n
  BY <1>2, <1>3, <1>4, <1>5, Zenon DEF came
<1>7. \A i \in 1 .. m : (w \o e)[i] = w[i]
  BY <1>4, <1>5
<1>8. \A i \in 1 .. n : (w \o e)[m + i] = e[i]
  <2>1. \A i \in 1 .. n : m + i \in 1 .. m + n /\ ~ m + i <= m /\ (m + i) - m = i
    OBVIOUS
  <2> QED
    BY <1>4, <1>5, <2>1, Zenon
<1>9. m + n \in Nat /\ m + n >= m
  OBVIOUS
<1> QED
  BY <1>2, <1>3, <1>4, <1>5, <1>6, <1>7, <1>8, <1>9, Zenon DEF Grows

\* An answer to PING or REPLCONF.
LEMMA AnswerKeeps ==
    ASSUME TypeInv, BufferOK, CountersOK, Before \/ After, Served, Head(requests) # "PSYNC"
    PROVE  BufferOK' /\ CountersOK' /\ (Before \/ After)'
<1> DEFINE text == IF Head(requests) = "PING" THEN "PONG" ELSE "OK"
<1>1. Before /\ requests # <<>> /\ up
  BY Zenon DEF Served, After
<1>2. Resting /\ requests' = Tail(requests)
  BY Zenon DEF Served, Resting
<1>3. UNCHANGED <<type, output, up, replicas>>
  BY Zenon DEF Served, conn, rep
<1>4. <<Reply(text)>> \in Seq(Element) /\ Len(<<Reply(text)>>) = 1 /\ <<Reply(text)>>[1] = Reply(text)
  <2>1. Reply(text) \in Element
    BY Zenon DEF Reply, Element
  <2> QED
    BY <2>1
<1>5. PICK e \in Seq(Element) : e = <<Reply(text)>>
  BY <1>4, Zenon
<1>6. sent' = [sent EXCEPT ![Link] = sent[Link] \o e]
  <2>1. sent \in [Conns -> Seq(Element)] /\ Link \in Conns
    BY LinkAssumption, Zenon DEF TypeInv, BuffersOK
  <2>2. sent' = [sent EXCEPT ![Link] = Append(sent[Link], Reply(text))]
    BY Zenon DEF Served
  <2>3. Append(sent[Link], Reply(text)) = sent[Link] \o <<Reply(text)>>
    BY <2>1, <1>4
  <2> QED
    BY <1>5, <2>2, <2>3, Zenon
<1>7. Grows /\ came' = came + 1 /\ wire'[came + 1] = Reply(text)
  <2>1. Len(e) = 1 /\ e[1] = Reply(text) /\ 1 \in 1 .. Len(e)
    BY <1>4, <1>5
  <2> QED
    BY <1>6, <2>1, Writes, Zenon
<1>8. BufferOK' /\ CountersOK'
  BY <1>2, <1>7, ReplicaStill, Zenon
<1>9. \A i \in 1 .. came : wire'[i] = wire[i]
  BY <1>7, Zenon DEF Grows
<1>10. UNCHANGED <<taken, repl_client_state, input_buffer, tmp, applied, Streamed,
                   rdb_expected_bytes, rdb_written_bytes>>
  BY <1>2, Zenon DEF Resting, Streamed
<1>11. Handshaking' /\ Answers' /\ came' <= 3
  <2>1. CASE Stage(0, "CONNECTING", "SENT_PING", "PING")
    <3>1. requests = <<"PING">> /\ came = 0 /\ taken = 0 /\ repl_client_state = "SENT_PING"
      BY <1>1, <2>1, Zenon DEF Stage
    <3>2. text = "PONG" /\ requests' = <<>>
      BY <1>2, <3>1
    <3>3. came' = 1 /\ wire'[1] = Reply("PONG")
      BY <1>7, <3>1, <3>2
    <3> QED
      BY <1>10, <3>1, <3>2, <3>3 DEF Handshaking, Stage, Answers
  <2>2. CASE Stage(1, "RECEIVED_PONG", "SENT_REPLCONF_PORT", "REPLCONF")
    <3>1. requests = <<"REPLCONF">> /\ came = 1 /\ taken = 1
          /\ repl_client_state = "SENT_REPLCONF_PORT"
      BY <1>1, <2>2, Zenon DEF Stage
    <3>2. text = "OK" /\ requests' = <<>>
      BY <1>2, <3>1
    <3>3. came' = 2 /\ wire'[2] = Reply("OK") /\ wire'[1] = Reply("PONG")
      BY <1>1, <1>7, <1>9, <3>1, <3>2, SMTT(30) DEF Before, Answers
    <3> QED
      BY <1>10, <3>1, <3>2, <3>3 DEF Handshaking, Stage, Answers
  <2>3. CASE Stage(2, "RECEIVED_REPLCONF_PORT_OK", "SENT_REPLCONF_CAPA", "REPLCONF")
    <3>1. requests = <<"REPLCONF">> /\ came = 2 /\ taken = 2
          /\ repl_client_state = "SENT_REPLCONF_CAPA"
      BY <1>1, <2>3, Zenon DEF Stage
    <3>2. text = "OK" /\ requests' = <<>>
      BY <1>2, <3>1
    <3>3. came' = 3 /\ wire'[3] = Reply("OK") /\ wire'[2] = Reply("OK") /\ wire'[1] = Reply("PONG")
      BY <1>1, <1>7, <1>9, <3>1, <3>2 DEF Before, Answers
    <3> QED
      BY <1>10, <3>1, <3>2, <3>3 DEF Handshaking, Stage, Answers
  <2>4. CASE Stage(3, "RECEIVED_REPLCONF_CAPA_OK", "SENT_PSYNC", "PSYNC")
    BY <1>1, <2>4 DEF Stage
  <2> QED
    BY <1>1, <2>1, <2>2, <2>3, <2>4, Zenon DEF Before, Handshaking
<1> QED
  BY <1>1, <1>3, <1>8, <1>10, <1>11, Zenon DEF Before, Nothing, Served


\* PSYNC, which names no master, is answered with a snapshot.
LEMMA PsyncKeeps ==
    ASSUME TypeInv, BufferOK, CountersOK, Before \/ After, Served, Head(requests) = "PSYNC"
    PROVE  BufferOK' /\ CountersOK' /\ (Before \/ After)'
<1>1. Before /\ requests # <<>> /\ up /\ Enlist(Link, FALSE, -1)
  <2>1. Before /\ requests # <<>> /\ up /\ handle_psync(Link, FALSE, -1)
    BY Zenon DEF Served, After
  <2>2. Place
    BY <2>1, BacklogAssumption DEF Before, Place
  <2> QED
    BY <2>1, <2>2, Zenon DEF handle_psync, Overwrite
<1>2. Resting /\ requests' = Tail(requests)
  BY Zenon DEF Served, Resting
<1>3. came = 3 /\ taken = 3 /\ requests = <<"PSYNC">> /\ repl_client_state = "SENT_PSYNC"
  BY <1>1 DEF Before, Handshaking, Stage
<1>4. /\ type \in [Conns -> Types] /\ state \in [Conns -> States]
      /\ rdb_file_size \in [Conns -> {0} \cup RdbSizes] /\ rdb_file_offset \in [Conns -> Nat]
      /\ promised \in [Conns -> Nat] /\ Link \in Conns
      /\ master_repl_offset \in Nat /\ file.version \in Nat
  BY LinkAssumption DEF TypeInv, ArrayInv, OffsetInv, OffsetsOK, NumbersOK
<1>5. /\ UNCHANGED <<output, master_repl_offset, up>>
      /\ type'[Link] = "replica" /\ state'[Link] = "SENDING_RDB_DATA"
  BY <1>1, <1>4, Zenon DEF Enlist, add_replica, log
<1>6. Size' = file'.size /\ Parts' = 0 /\ promised'[Link] = file'.version
  BY <1>1, <1>4, Zenon DEF Enlist, Size, Parts
<1>7. file'.size \in Nat \ {0} /\ file'.version = file.version + 1
  BY <1>1, BacklogAssumption DEF Enlist, redis_db_save
<1> DEFINE f == Fullresync(master_repl_offset)
           h == Header(file'.size)
<1>8. f \in Element /\ h \in Element /\ HeaderEnd \in Element
  BY <1>4, <1>7, Zenon DEF Fullresync, Header, HeaderEnd, Element
<1>9. sent' = [sent EXCEPT ![Link] = sent[Link] \o <<f, h, HeaderEnd>>]
  BY <1>1, Zenon DEF Enlist
<1>10. f.kind = "fullresync" /\ f.offset = master_repl_offset
  BY Zenon DEF Fullresync
<1> HIDE DEF f, h
<1>11. PICK e \in Seq(Element) : e = <<f, h, HeaderEnd>>
  <2>1. <<f, h, HeaderEnd>> \in Seq(Element)
    BY <1>8
  <2> QED
    BY <2>1, Zenon
<1>12. Len(e) = 3 /\ e[1] = f /\ e[2] = h /\ e[3] = HeaderEnd
  BY <1>11, Zenon
<1>13. Grows /\ came' = 6 /\ wire'[4] = f /\ wire'[5] = h /\ wire'[6] = HeaderEnd
  <2>1. 1 \in 1 .. Len(e) /\ 2 \in 1 .. Len(e) /\ 3 \in 1 .. Len(e)
    BY <1>12
  <2>2. Grows /\ came' = came + Len(e) /\ \A i \in 1 .. Len(e) : wire'[came + i] = e[i]
    BY <1>9, <1>11, Writes, Zenon
  <2>3. wire'[3 + 1] = e[1] /\ wire'[3 + 2] = e[2] /\ wire'[3 + 3] = e[3] /\ came' = 3 + 3
    BY <1>3, <1>12, <2>1, <2>2, Zenon
  <2> QED
    BY <1>12, <2>2, <2>3
<1>14. BufferOK' /\ CountersOK'
  BY <1>2, <1>13, ReplicaStill, Zenon
<1>15. \A i \in 1 .. 3 : wire'[i].kind = "reply"
  <2>1. wire[1].kind = "reply" /\ wire[2].kind = "reply" /\ wire[3].kind = "reply"
    BY <1>1, <1>3 DEF Before, Answers, Reply
  <2>2. wire'[1] = wire[1] /\ wire'[2] = wire[2] /\ wire'[3] = wire[3]
    BY <1>3, <1>13 DEF Grows
  <2> QED
    BY <2>1, <2>2
<1>16. output'[Link] = <<>> /\ outs' = 0
  BY <1>1, <1>5, Zenon DEF Before, outs
<1>17. Written'
  <2>1. /\ \A i \in 7 .. 6 + 0 : FALSE
        /\ \A i \in 7 + 0 .. 6 : FALSE
        /\ \A i \in 1 .. 0 : FALSE
        /\ 6 >= 6 + 0 /\ 6 + 0 = 6
    OBVIOUS
  <2> QED
    BY <1>5, <1>6, <1>10, <1>13, <1>15, <1>16, <2>1, Zenon DEF Written, h
<1>18. Counted'
  <2>1. wire'[4].offset = master_repl_offset /\ master_repl_offset' = master_repl_offset
    BY <1>5, <1>10, <1>13, Zenon
  <2>2. master_repl_offset + 6 + 0 <= master_repl_offset + 6 + 0
    BY <1>4
  <2> QED
    BY <1>4, <1>6, <1>13, <1>16, <2>1, <2>2, Zenon DEF Counted
<1>19. OneVersion'
  BY <1>4, <1>6, <1>7 DEF OneVersion, OtherSave
<1>20. Mastering'
  <2>1. requests' = <<>>
    BY <1>2, <1>3
  <2> QED
    BY <1>5, <1>6, <1>7, <1>17, <1>18, <1>19, <2>1, Zenon DEF Mastering
<1>21. Replicated'
  <2>1. UNCHANGED <<taken, repl_client_state, input_buffer, tmp, applied, Streamed,
                    rdb_expected_bytes, rdb_written_bytes>>
    BY <1>2, Zenon DEF Resting, Streamed
  <2> QED
    BY <1>1, <1>3, <2>1, Zenon DEF Before, Nothing, Replicated, Waiting
<1> QED
  BY <1>5, <1>14, <1>20, <1>21, Zenon DEF After

\* Parts of the snapshot.
LEMMA SnapshotKeeps ==
    ASSUME TypeInv, BufferOK, CountersOK, Before \/ After, UNCHANGED replica,
           master_send_rdb_snapshot(Link)
    PROVE  BufferOK' /\ CountersOK' /\ (Before \/ After)'
<1>1. After /\ up
  BY Zenon DEF master_send_rdb_snapshot, Writable, Before
<1>2. PICK k \in 1 .. file.size - rdb_file_offset[Link] :
          /\ sent' = [sent EXCEPT ![Link] = sent[Link] \o [i \in 1 .. k |-> Part(file.version, rdb_file_offset[Link] + i)]]
          /\ rdb_file_offset' = [rdb_file_offset EXCEPT ![Link] = rdb_file_offset[Link] + k]
          /\ IF rdb_file_offset[Link] + k = rdb_file_size[Link]
             THEN state' = [state EXCEPT ![Link] = "PROPAGATE"] ELSE UNCHANGED state
  BY Zenon DEF master_send_rdb_snapshot
<1>3. /\ UNCHANGED <<type, output, rdb_file_size, promised, file, up, outs, Size>>
      /\ master_repl_offset' = master_repl_offset
  BY Zenon DEF master_send_rdb_snapshot, conn, log, Size, outs
<1>4. /\ state \in [Conns -> States] /\ rdb_file_offset \in [Conns -> Nat]
      /\ promised \in [Conns -> Nat] /\ Link \in Conns /\ Parts \in Nat
      /\ master_repl_offset \in Nat /\ file.version \in Nat
  BY LinkAssumption DEF TypeInv, OffsetInv, OffsetsOK, NumbersOK, Parts
<1>5. k \in Nat /\ k >= 1 /\ Parts + k <= file.size /\ file.size \in Nat
  <2>1. file.size \in {0} \cup RdbSizes
    BY Zenon DEF TypeInv, NumbersOK
  <2>2. \A n \in {0} \cup RdbSizes : n \in Nat
    BY BacklogAssumption
  <2>3. file.size \in Nat
    BY <2>1, <2>2, Zenon
  <2> QED
    BY <1>2, <1>4, <2>3 DEF Parts
<1>6. Parts' = Parts + k
  BY <1>2, <1>4, Zenon DEF Parts
<1>7. PICK e \in Seq(Element) : e = [i \in 1 .. k |-> Part(file.version, Parts + i)]
  BY <1>4, PartsTyped, Zenon DEF Parts
<1>8. Len(e) = k /\ \A i \in 1 .. k : e[i] = Part(file.version, Parts + i)
  BY <1>5, <1>7
<1>9. Grows /\ came' = came + k /\ \A i \in 1 .. k : wire'[came + i] = Part(file.version, Parts + i)
  <2>1. sent' = [sent EXCEPT ![Link] = sent[Link] \o e]
    BY <1>2, <1>7, Zenon DEF Parts
  <2> QED
    BY <1>8, <2>1, Writes, Zenon
<1>10. BufferOK' /\ CountersOK' /\ Resting
  <2>1. Resting
    BY Zenon DEF Resting, replica
  <2> QED
    BY <1>9, <2>1, ReplicaStill, Zenon
<1>11. state[Link] = "SENDING_RDB_DATA"
  BY Zenon DEF master_send_rdb_snapshot
<1>12. state'[Link] = IF Parts + k = Size THEN "PROPAGATE" ELSE "SENDING_RDB_DATA"
  <2>1. rdb_file_offset[Link] + k = rdb_file_size[Link] => state'[Link] = "PROPAGATE"
    BY <1>2, <1>4, Zenon
  <2>2. rdb_file_offset[Link] + k # rdb_file_size[Link] => state'[Link] = "SENDING_RDB_DATA"
    BY <1>2, <1>11, Zenon
  <2> QED
    BY <2>1, <2>2, Zenon DEF Parts, Size
<1>13. came = 6 + Parts /\ Size \in Nat \ {0}
  BY <1>1, <1>11, Zenon DEF After, Mastering, Written
<1>14. PICK p \in Nat : p = Parts
  BY <1>4, Zenon
<1>15. came = 6 + p /\ came' = 6 + p + k /\ Parts' = p + k
  BY <1>6, <1>9, <1>13, <1>14, Zenon
<1>16. \A i \in 1 .. 6 + p : wire'[i] = wire[i]
  BY <1>9, <1>15, Zenon DEF Grows
<1>17. \A i \in 7 + p .. 6 + p + k : wire'[i] = Part(file.version, i - 6)
  <2> TAKE i \in 7 + p .. 6 + p + k
  <2>1. i - (6 + p) \in 1 .. k /\ (6 + p) + (i - (6 + p)) = i /\ p + (i - (6 + p)) = i - 6
    BY <1>5
  <2>2. wire'[(6 + p) + (i - (6 + p))] = Part(file.version, p + (i - (6 + p)))
    BY <1>9, <1>14, <1>15, <2>1, Zenon
  <2> QED
    BY <2>1, <2>2, Zenon
<1>18. \A i \in 7 .. 6 + p + k : i \in 7 .. 6 + p \/ i \in 7 + p .. 6 + p + k
  BY <1>5
<1>19. \A i \in 1 .. 3 : i \in 1 .. 6 + p
  OBVIOUS
<1>20. \A i \in 7 .. 6 + p : i \in 1 .. 6 + p
  OBVIOUS
<1>21. 4 \in 1 .. 6 + p /\ 5 \in 1 .. 6 + p /\ 6 \in 1 .. 6 + p
  OBVIOUS
<1>22. Written
  BY <1>1, Zenon DEF After, Mastering
<1>23. Written'
  <2>1. \A i : Part(file.version, i).kind = "rdb"
    BY Zenon DEF Part
  <2>2. \A i \in 7 .. 6 + p + k : wire'[i].kind = "rdb"
    <3>1. \A i \in 7 .. 6 + p : wire'[i].kind = "rdb"
      BY <1>14, <1>16, <1>20, <1>22, Zenon DEF Written
    <3>2. \A i \in 7 + p .. 6 + p + k : wire'[i].kind = "rdb"
      BY <1>17, <2>1, Zenon
    <3> QED
      BY <1>18, <3>1, <3>2, Zenon
  <2>3. \A i \in 7 + (p + k) .. 6 + p + k : FALSE
    BY <1>5
  <2>4. \A i \in 1 .. 3 : wire'[i].kind = "reply"
    BY <1>16, <1>19, <1>22, Zenon DEF Written
  <2>5. wire'[4].kind = "fullresync" /\ wire'[5] = Header(Size') /\ wire'[6] = HeaderEnd
    BY <1>3, <1>16, <1>21, <1>22, Zenon DEF Written
  <2>6. \A i \in 1 .. outs' : output'[Link][i] \in Command
    BY <1>3, <1>22, Zenon DEF Written
  <2>7. 6 + p + k >= 6 + (p + k) /\ 6 + (p + k) = 6 + p + k
    BY <1>5
  <2>8. state'[Link] = "PROPAGATE" => Parts' = Size'
    BY <1>3, <1>6, <1>12, Zenon
  <2> QED
    BY <1>15, <2>2, <2>3, <2>4, <2>5, <2>6, <2>7, <2>8, Zenon DEF Written
<1>24. Counted'
  <2>1. PICK f \in Nat, o \in Nat, q \in Nat :
            f = wire[4].offset /\ o = outs /\ q = master_repl_offset
    <3>1. outs \in Nat
      BY LinkAssumption, LenNat, Zenon DEF TypeInv, BuffersOK, outs
    <3> QED
      BY <1>1, <1>4, <3>1, Zenon DEF After, Mastering, Counted
  <2>2. f + (6 + p) + o <= q + 6 + p
    BY <1>1, <1>14, <1>15, <2>1, Zenon DEF After, Mastering, Counted
  <2>3. f + (6 + p + k) + o <= q + 6 + (p + k)
    BY <1>5, <2>2
  <2>4. wire'[4].offset = f /\ outs' = o /\ master_repl_offset' = q
    BY <1>3, <1>16, <1>21, <2>1, Zenon
  <2> QED
    BY <1>15, <2>3, <2>4, Zenon DEF Counted
<1>25. OneVersion'
  <2>1. OneVersion /\ OtherSave' = OtherSave
    BY <1>1, <1>3, Zenon DEF After, Mastering, OtherSave
  <2>2. ASSUME ~ OtherSave
        PROVE  Parts' <= Size' /\ \A i \in 7 .. 6 + p + k : wire'[i] = Part(promised[Link], i - 6)
    <3>1. file.version = promised[Link] /\ file.size = Size
      BY <2>1, <2>2, Zenon DEF OneVersion, OtherSave
    <3>2. \A i \in 7 .. 6 + p : wire[i] = Part(promised[Link], i - 6)
      BY <1>14, <2>1, <2>2, Zenon DEF OneVersion
    <3>3. Parts' <= Size'
      BY <1>3, <1>5, <1>6, <3>1, Zenon
    <3>4. \A i \in 7 .. 6 + p : wire'[i] = Part(promised[Link], i - 6)
      BY <1>16, <1>20, <3>2, Zenon
    <3>5. \A i \in 7 + p .. 6 + p + k : wire'[i] = Part(promised[Link], i - 6)
      BY <1>17, <3>1, Zenon
    <3> QED
      BY <1>18, <3>3, <3>4, <3>5, Zenon
  <2>3. 6 + (p + k) = 6 + p + k
    BY <1>5
  <2> QED
    BY <1>3, <1>15, <2>1, <2>2, <2>3, Zenon DEF OneVersion
<1>26. Mastering'
  BY <1>1, <1>3, <1>12, <1>13, <1>23, <1>24, <1>25, ZenonT(30) DEF After, Mastering, replica
<1>27. Replicated'
  BY <1>1, <1>3, <1>9, <1>10, <1>13, ReplicaStill, Zenon DEF After
<1> QED
  BY <1>1, <1>3, <1>10, <1>26, <1>27, Zenon DEF After


\* Commands.
LEMMA FlushKeeps ==
    ASSUME TypeInv, BufferOK, CountersOK, Before \/ After, UNCHANGED replica,
           flush_client_output(Link)
    PROVE  BufferOK' /\ CountersOK' /\ (Before \/ After)'
<1>1. After /\ up /\ state[Link] = "PROPAGATE"
  BY Zenon DEF flush_client_output, Writable, Before
<1>2. PICK k \in 1 .. Len(output[Link]) :
          /\ sent' = [sent EXCEPT ![Link] = sent[Link] \o SubSeq(output[Link], 1, k)]
          /\ output' = [output EXCEPT ![Link] = SubSeq(output[Link], k + 1, Len(output[Link]))]
  BY Zenon DEF flush_client_output
<1>3. /\ UNCHANGED <<type, state, rdb_file_size, rdb_file_offset, promised, file, up, Size, Parts>>
      /\ master_repl_offset' = master_repl_offset
  BY Zenon DEF flush_client_output, conn, log, rdb, Size, Parts
<1>4. /\ output \in [Conns -> Seq(Element)] /\ Link \in Conns /\ Parts \in Nat
      /\ master_repl_offset \in Nat /\ came \in Nat
  BY LinkAssumption, UnreadFacts, Zenon DEF TypeInv, OffsetInv, OffsetsOK, NumbersOK, BuffersOK, Parts
<1>5. PICK o \in Seq(Element) : o = output[Link]
  BY <1>4, Zenon
<1>6. PICK n \in Nat : n = outs /\ n = Len(o)
  BY <1>5 DEF outs
<1>7. k \in Nat /\ k >= 1 /\ k <= n /\ k \in 0 .. Len(o)
  BY <1>2, <1>5, <1>6
<1>8. /\ SubSeq(o, 1, k) \in Seq(Element) /\ Len(SubSeq(o, 1, k)) = k
      /\ \A i \in 1 .. k : SubSeq(o, 1, k)[i] = o[i]
  BY <1>7, PrefixFacts, Zenon
<1>9. PICK e \in Seq(Element) : e = SubSeq(o, 1, k)
  BY <1>8, Zenon
<1>10. PICK r \in Nat : r + k = n
  <2>1. n - k \in Nat /\ (n - k) + k = n
    BY <1>7
  <2> QED
    BY <2>1, Zenon
<1>11. outs' = r /\ \A i \in 1 .. r : output'[Link][i] = o[k + i]
  <2>1. output'[Link] = SubSeq(o, k + 1, Len(o))
    BY <1>2, <1>4, <1>5, Zenon
  <2>2. /\ Len(SubSeq(o, k + 1, Len(o))) = Len(o) - k
        /\ \A i \in 1 .. Len(o) - k : SubSeq(o, k + 1, Len(o))[i] = o[k + i]
    BY <1>7, SuffixFacts, Zenon
  <2>3. Len(o) - k = r
    BY <1>6, <1>7, <1>10
  <2> QED
    BY <2>1, <2>2, <2>3, Zenon DEF outs
<1>12. Grows /\ came' = came + k /\ \A i \in 1 .. k : wire'[came + i] = o[i]
  BY <1>2, <1>5, <1>8, <1>9, Writes, ZenonT(30)
<1>13. BufferOK' /\ CountersOK' /\ Resting
  <2>1. Resting
    BY Zenon DEF Resting, replica
  <2> QED
    BY <1>12, <2>1, ReplicaStill, Zenon
<1>14. Written /\ Size \in Nat \ {0}
  BY <1>1, Zenon DEF After, Mastering
<1>15. PICK p \in Nat, m \in Nat : p = Parts /\ m = came
  BY <1>4, Zenon
<1>16. m >= 6 + p /\ came' = m + k /\ \A i \in 1 .. m : wire'[i] = wire[i]
  BY <1>12, <1>14, <1>15, Zenon DEF Written, Grows
<1>17. \A i \in 1 .. n : o[i] \in Command
  BY <1>5, <1>6, <1>14, Zenon DEF Written
<1>18. \A i \in m + 1 .. m + k : wire'[i] \in Command
  <2> TAKE i \in m + 1 .. m + k
  <2>1. i - m \in 1 .. k /\ m + (i - m) = i /\ i - m \in 1 .. n
    BY <1>7
  <2> QED
    BY <1>12, <1>15, <1>17, <2>1, Zenon
<1>19. \A i \in 7 .. 6 + p : i \in 1 .. m
  BY <1>16
<1>20. Written'
  <2>1. \A i \in 1 .. r : k + i \in 1 .. n
    BY <1>7, <1>10
  <2>2. \A i \in 1 .. outs' : output'[Link][i] \in Command
    BY <1>11, <1>17, <2>1, Zenon
  <2>3. \A i \in 7 + p .. m + k : wire'[i] \in Command
    <3> TAKE i \in 7 + p .. m + k
    <3>1. (i \in 7 + p .. m /\ i \in 1 .. m) \/ i \in m + 1 .. m + k
      BY <1>7
    <3>2. CASE i \in 7 + p .. m /\ i \in 1 .. m
      BY <1>14, <1>15, <1>16, <3>2, Zenon DEF Written
    <3>3. CASE i \in m + 1 .. m + k
      BY <1>18, <3>3, Zenon
    <3> QED
      BY <3>1, <3>2, <3>3, Zenon
  <2>4. \A i \in 7 .. 6 + p : wire'[i].kind = "rdb"
    BY <1>14, <1>15, <1>16, <1>19, Zenon DEF Written
  <2>5. 1 \in 1 .. m /\ 2 \in 1 .. m /\ 3 \in 1 .. m /\ 4 \in 1 .. m /\ 5 \in 1 .. m /\ 6 \in 1 .. m
    BY <1>16
  <2>6. \A i \in 1 .. 3 : i \in 1 .. m
    BY <1>16
  <2>7. \A i \in 1 .. 3 : wire'[i].kind = "reply"
    BY <1>14, <1>16, <2>6, Zenon DEF Written
  <2>8. wire'[4].kind = "fullresync" /\ wire'[5] = Header(Size') /\ wire'[6] = HeaderEnd
    BY <1>3, <1>14, <1>16, <2>5, Zenon DEF Written
  <2>9. m + k >= 6 + p
    BY <1>7, <1>16
  <2>10. state'[Link] = "PROPAGATE" /\ Parts' = Size' /\ Parts' = p
    BY <1>1, <1>3, <1>14, <1>15, Zenon DEF Written
  <2> QED
    BY <1>16, <2>2, <2>3, <2>4, <2>7, <2>8, <2>9, <2>10, Zenon DEF Written
<1>21. Counted'
  <2>1. PICK f \in Nat, q \in Nat : f = wire[4].offset /\ q = master_repl_offset
    BY <1>1, <1>4, Zenon DEF After, Mastering, Counted
  <2>2. f + m + n <= q + 6 + p
    BY <1>1, <1>6, <1>15, <2>1, Zenon DEF After, Mastering, Counted
  <2>3. f + (m + k) + r <= q + 6 + p
    BY <1>7, <1>10, <2>2
  <2>4. 4 \in 1 .. m
    BY <1>16
  <2>5. wire'[4].offset = f /\ master_repl_offset' = q /\ Parts' = p
    BY <1>3, <1>15, <1>16, <2>1, <2>4, Zenon
  <2> QED
    BY <1>11, <1>16, <2>3, <2>5, Zenon DEF Counted
<1>22. OneVersion'
  <2>1. OneVersion /\ OtherSave' = OtherSave
    BY <1>1, <1>3, Zenon DEF After, Mastering, OtherSave
  <2>2. ~ OtherSave => \A i \in 7 .. 6 + p : wire'[i] = Part(promised[Link], i - 6)
    BY <1>15, <1>16, <1>19, <2>1, Zenon DEF OneVersion
  <2> QED
    BY <1>3, <1>15, <2>1, <2>2, Zenon DEF OneVersion
<1>23. Mastering'
  BY <1>1, <1>3, <1>14, <1>20, <1>21, <1>22, Zenon DEF After, Mastering, replica
<1>24. Replicated'
  BY <1>1, <1>3, <1>12, <1>13, <1>14, ReplicaStill, Zenon DEF After
<1> QED
  BY <1>1, <1>3, <1>13, <1>23, <1>24, Zenon DEF After

------------------------------------------------------------------------------
(* The invariant *)

LEMMA SyncStart == InitSync => SyncInv /\ StreamInv
<1> SUFFICES ASSUME InitSync PROVE SyncInv /\ StreamInv
  BY Zenon
<1>1. Init /\ InitReplica
  BY Zenon DEF InitSync
<1>2. TypeInv /\ StreamInv
  BY <1>1, TypeStart, StreamStart, Zenon
<1>3. wire = <<>> /\ came = 0 /\ output[Link] = <<>> /\ type[Link] = "closed"
      /\ replicas = <<>>
  BY <1>1, LinkAssumption, Zenon DEF Init, wire, came
<1>4. BufferOK /\ CountersOK /\ lost # "over" /\ Streamed = 0
  BY <1>1, <1>3, LinkAssumption, SMTT(30)
     DEF InitReplica, BufferOK, CountersOK, held, Used, Streamed
<1>5. Before
  BY <1>1, <1>3, <1>4 DEF InitReplica, Before, Nothing, Answers, Handshaking, Stage
<1> QED
  BY <1>2, <1>4, <1>5, Zenon DEF SyncInv

\* What the other clients do.
Others ==
    \E c \in Conns \ {Link} :
        Accept(c) \/ (\E chunk \in Chunks : process_client_input(c, chunk)) \/ handle_save(c)

LEMMA OthersQuiet ==
    ASSUME TypeInv, Others
    PROVE  Quiet
  BY ClientsQuiet, Zenon DEF Others

\* The steps of a replica in whose buffer every read has found room.
LEMMA SoundStep ==
    ASSUME TypeInv, TypeInv', BufferOK, CountersOK, Before \/ After,
           Served \/ Clients \/ Sending
             \/ (UNCHANGED vars
                   /\ (send_command \/ ReadReply \/ ReadHeader \/ ReadCommands \/ MasterGone))
    PROVE  BufferOK' /\ CountersOK' /\ (Before \/ After)'
<1>1. CASE Served
  BY <1>1, AnswerKeeps, PsyncKeeps, Zenon
<1>2. CASE Clients
  <2>1. UNCHANGED replica /\ (Accept(Link) \/ Others)
    BY <1>2, Zenon DEF Clients, Others
  <2>2. CASE Accept(Link)
    BY <2>1, <2>2, AcceptKeeps, Zenon
  <2>3. CASE Others
    BY <2>1, <2>3, OthersQuiet, QuietKeeps, Zenon
  <2> QED
    BY <2>1, <2>2, <2>3, Zenon
<1>3. CASE Sending
  <2>1. UNCHANGED replica /\ master_handle_replica_out(Link)
    BY <1>3, Zenon DEF Sending
  <2>2. CASE flush_client_output(Link)
    BY <2>1, <2>2, FlushKeeps, Zenon
  <2>3. CASE master_send_rdb_snapshot(Link)
    BY <2>1, <2>3, SnapshotKeeps, Zenon
  <2>4. ~ continue_psync(Link)
    BY Zenon DEF continue_psync, Writable, Before, After, Mastering
  <2> QED
    BY <2>1, <2>2, <2>3, <2>4, Zenon DEF master_handle_replica_out
<1>4. CASE UNCHANGED vars
             /\ (send_command \/ ReadReply \/ ReadHeader \/ ReadCommands \/ MasterGone)
  BY <1>4, SendStep, ReplyStep, HeaderStep, CommandsStep, GoneStep, Zenon
<1> QED
  BY <1>1, <1>2, <1>3, <1>4, Zenon

\* After a read past the end of the buffer.
LEMMA AstrayStep ==
    ASSUME TypeInv, CountersOK, lost = "over", Overrun,
           Served \/ Clients \/ Sending
             \/ (UNCHANGED vars
                   /\ (send_command \/ ReadReply \/ ReadHeader \/ ReadCommands \/ MasterGone))
    PROVE  CountersOK' /\ Overrun' /\ lost' = "over"
<1>0. type \in [Conns -> Types] /\ state \in [Conns -> States] /\ Link \in Conns /\ came \in Nat
      /\ taken \in 0 .. came /\ output \in [Conns -> Seq(Element)]
  <2>1. sent[Link] \in Seq(Element)
    BY LinkAssumption, Zenon DEF TypeInv, BuffersOK
  <2> QED
    BY <2>1, LinkAssumption, LenNat, Zenon
       DEF TypeInv, BuffersOK, ArrayInv, OffsetInv, OffsetsOK, Overrun, came, wire
<1>1. ~ Served
  BY Zenon DEF Served, Overrun
<1>2. ASSUME UNCHANGED replica, came' \in Nat, came' >= came, type'[Link] = "replica",
             state'[Link] \in {"SENDING_RDB_DATA", "PROPAGATE"}
      PROVE  CountersOK' /\ Overrun' /\ lost' = "over"
  <2>1. UNCHANGED <<taken, repl_client_state, input_buffer, held, tmp, loaded, applied, offset,
                    own, early, lost, Streamed, rdb_expected_bytes, rdb_received_bytes,
                    rdb_written_bytes>>
    BY <1>2, Zenon DEF replica, held, Streamed
  <2>2. taken' \in 0 .. came'
    BY <1>0, <1>2, <2>1
  <2> QED
    BY <1>2, <2>1, <2>2, Zenon DEF CountersOK, Overrun
<1>3. CASE Clients
  <2>1. UNCHANGED replica /\ Others
    BY <1>3, Zenon DEF Clients, Others, Accept, Overrun
  <2>2. Quiet
    BY <2>1, OthersQuiet, Zenon
  <2>3. came' = came /\ type'[Link] = "replica" /\ state'[Link] = state[Link]
    BY <2>2, Zenon DEF Quiet, came, wire, Overrun
  <2>4. came' >= came
    BY <1>0, <2>3
  <2> QED
    BY <1>0, <1>2, <2>1, <2>3, <2>4, Zenon DEF Overrun
<1>4. CASE Sending
  <2>1. UNCHANGED replica /\ master_handle_replica_out(Link)
    BY <1>4, Zenon DEF Sending
  <2>2. CASE flush_client_output(Link)
    <3>1. PICK k \in 1 .. Len(output[Link]) :
              sent' = [sent EXCEPT ![Link] = sent[Link] \o SubSeq(output[Link], 1, k)]
      BY <2>2, Zenon DEF flush_client_output
    <3>2. PICK o \in Seq(Element) : o = output[Link]
      BY <1>0, Zenon
    <3>3. SubSeq(o, 1, k) \in Seq(Element)
      BY <3>1, <3>2
    <3>4. Grows
      BY <3>1, <3>2, <3>3, Writes, Zenon
    <3>5. UNCHANGED <<type, state>>
      BY <2>2, Zenon DEF flush_client_output, conn
    <3> QED
      BY <1>2, <2>1, <3>4, <3>5, Zenon DEF Grows, Overrun
  <2>3. CASE master_send_rdb_snapshot(Link)
    <3>1. PICK k \in 1 .. file.size - rdb_file_offset[Link] :
            /\ sent' = [sent EXCEPT ![Link] =
                           sent[Link] \o [i \in 1 .. k |-> Part(file.version, rdb_file_offset[Link] + i)]]
            /\ state' = [state EXCEPT ![Link] = "PROPAGATE"] \/ state' = state
      BY <2>3, Zenon DEF master_send_rdb_snapshot
    <3>2. PICK e \in Seq(Element) : e = [i \in 1 .. k |-> Part(file.version, rdb_file_offset[Link] + i)]
      BY <1>0, PartsTyped, Zenon
    <3>3. Grows
      BY <3>1, <3>2, Writes, Zenon
    <3>4. type' = type /\ state'[Link] \in {"SENDING_RDB_DATA", "PROPAGATE"}
      BY <1>0, <2>3, <3>1, Zenon DEF master_send_rdb_snapshot, conn, Overrun
    <3> QED
      BY <1>2, <2>1, <3>3, <3>4, Zenon DEF Grows, Overrun
  <2>4. ~ continue_psync(Link)
    BY Zenon DEF continue_psync, Overrun
  <2> QED
    BY <2>1, <2>2, <2>3, <2>4, Zenon DEF master_handle_replica_out
<1>5. CASE UNCHANGED vars
             /\ (send_command \/ ReadReply \/ ReadHeader \/ ReadCommands \/ MasterGone)
  <2>1. MasterGone
    BY <1>5, SendsFacts, ExpectsFacts, Zenon
       DEF send_command, ReadReply, ReadHeader, ReadCommands, Overrun
  <2>2. UNCHANGED <<taken, requests, input_buffer, held, tmp, loaded, applied, offset, own, early,
                    lost, Streamed, rdb_expected_bytes, rdb_received_bytes, rdb_written_bytes>>
    BY <2>1, Zenon DEF MasterGone, sync, counters, data, held, Streamed
  <2>3. UNCHANGED <<type, state, came>>
    BY <1>5, <2>2, MasterStill, Zenon
  <2>4. repl_client_state' = "freed"
    BY <2>1, Zenon DEF MasterGone
  <2> QED
    BY <2>2, <2>3, <2>4, Zenon DEF CountersOK, Overrun
<1> QED
  BY <1>1, <1>3, <1>4, <1>5, Zenon

LEMMA SyncStep == SyncInv /\ [NextSync]_all => SyncInv'
<1> SUFFICES ASSUME SyncInv, [NextSync]_all PROVE SyncInv'
  BY Zenon
<1>1. TypeInv /\ CountersOK /\ IF lost = "over" THEN Overrun ELSE BufferOK /\ (Before \/ After)
  BY Zenon DEF SyncInv
<1>2. TypeInv'
  BY <1>1, MasterTyped, Zenon
<1> SUFFICES CountersOK' /\ IF lost' = "over" THEN Overrun' ELSE BufferOK' /\ (Before \/ After)'
  BY <1>2, Zenon DEF SyncInv
<1>3. CASE Served \/ Clients \/ Sending
             \/ (UNCHANGED vars
                   /\ (send_command \/ ReadReply \/ ReadHeader \/ ReadCommands \/ MasterGone))
  <2>1. CASE lost = "over"
    BY <1>1, <1>3, <2>1, AstrayStep, Zenon
  <2>2. CASE lost # "over"
    <3>1. BufferOK' /\ CountersOK' /\ (Before \/ After)'
      BY <1>1, <1>2, <1>3, <2>2, SoundStep, Zenon
    <3>2. lost' # "over"
      BY <1>3, <2>2, Zenon
         DEF Served, Clients, Sending, replica, send_command, ReadReply, ReadHeader, ReadCommands,
             MasterGone
    <3> QED
      BY <3>1, <3>2, Zenon
  <2> QED
    BY <2>1, <2>2, Zenon
<1>4. CASE UNCHANGED vars /\ replica_receive_rdb_snapshot
  <2>1. CASE lost' = "over"
    BY <1>1, <1>4, <2>1, OverStep, Zenon
  <2>2. CASE lost' # "over"
    <3>1. lost # "over"
      BY <1>4, <2>2, Zenon DEF replica_receive_rdb_snapshot
    <3>2. taken \in 0 .. came /\ input_buffer \in Seq(Element) /\ held <= InSize
      BY <1>1, <3>1, Zenon DEF BufferOK
    <3>3. CountersOK'
      BY <1>1, <1>4, <3>2, ReceiveTyped, Zenon
    <3>4. BufferOK' /\ (Before \/ After)'
      BY <1>1, <1>4, <2>2, <3>1, ReceiveStep, Zenon
    <3> QED
      BY <2>2, <3>3, <3>4, Zenon
  <2> QED
    BY <2>1, <2>2, Zenon
<1>5. CASE (UNCHANGED vars /\ ReadAstray) \/ UNCHANGED all
  <2>1. UNCHANGED vars /\ UNCHANGED <<offset, own>>
        /\ UNCHANGED <<taken, requests, repl_client_state, input_buffer, rdb_expected_bytes,
                       rdb_received_bytes, rdb_written_bytes, tmp, loaded, applied, early,
                       Streamed>>
        /\ (lost' = "over" <=> lost = "over")
    BY <1>5, Zenon DEF ReadAstray, all, replica, sync, counters, data, Streamed
  <2>2. offset' \in Nat /\ own' \in Nat
    BY <1>1, <2>1, Zenon DEF CountersOK
  <2> QED
    BY <2>1, <2>2, StillStep, Zenon
<1>6. CASE Own
  <2>1. UNCHANGED vars /\ ClientSet
    BY <1>6, Zenon DEF Own
  <2>2. offset \in Nat /\ own \in Nat
    BY <1>1, Zenon DEF CountersOK
  <2>3. PICK n \in 1 .. MaxOwn - own : offset' = offset + n /\ own' = own + n
    BY <2>1, Zenon DEF ClientSet
  <2>4. offset' \in Nat /\ own' \in Nat /\ Streamed' = Streamed
    BY <2>2, <2>3, LinkAssumption DEF Streamed
  <2>5. UNCHANGED <<taken, requests, repl_client_state, input_buffer, rdb_expected_bytes,
                    rdb_received_bytes, rdb_written_bytes, tmp, loaded, applied, early, lost>>
    BY <2>1, Zenon DEF ClientSet, sync, counters
  <2> QED
    BY <2>1, <2>4, <2>5, StillStep, Zenon
<1> QED
  BY <1>3, <1>4, <1>5, <1>6, Zenon DEF NextSync, Replicating, NextReplica


\* Of the stream, the replica counts bytes only once the master sends commands.
Counting ==
    \/ lost = "over" \/ Streamed = 0
    \/ type[Link] = "replica" /\ state[Link] = "PROPAGATE"

LEMMA CountingStep == SyncInv /\ Counting /\ [NextSync]_all => Counting'
<1> SUFFICES ASSUME SyncInv, Counting, [NextSync]_all PROVE Counting'
  BY Zenon
<1>1. TypeInv /\ CountersOK /\ (lost # "over" => BufferOK /\ (Before \/ After))
  BY Zenon DEF SyncInv
<1>2. ASSUME UNCHANGED Streamed, lost = "over" => lost' = "over",
             type[Link] # "replica" \/ state[Link] # "PROPAGATE"
               \/ (type'[Link] = type[Link] /\ state'[Link] = state[Link])
      PROVE  Counting'
  BY <1>2, Zenon DEF Counting
<1>3. CASE Served
  <2>1. UNCHANGED <<Streamed, lost>> /\ type[Link] # "replica"
    BY <1>3, Zenon DEF Served, Streamed
  <2> QED
    BY <1>2, <2>1, Zenon
<1>4. CASE Clients
  <2>1. UNCHANGED <<Streamed, lost>> /\ (Accept(Link) \/ Others)
    BY <1>4, Zenon DEF Clients, replica, Streamed, Others
  <2>2. CASE Accept(Link)
    <3>1. type[Link] # "replica"
      BY <2>2, Zenon DEF Accept
    <3> QED
      BY <1>2, <2>1, <3>1, Zenon
  <2>3. CASE Others
    <3>1. Quiet
      BY <1>1, <2>3, OthersQuiet, Zenon
    <3> QED
      BY <1>2, <2>1, <3>1, Zenon DEF Quiet
  <2> QED
    BY <2>1, <2>2, <2>3, Zenon
<1>5. CASE Sending
  <2>1. UNCHANGED <<Streamed, lost>>
    BY <1>5, Zenon DEF Sending, replica, Streamed
  <2>2. CASE flush_client_output(Link)
    <3>1. UNCHANGED <<type, state>>
      BY <2>2, Zenon DEF flush_client_output, conn
    <3> QED
      BY <1>2, <2>1, <3>1, Zenon
  <2>3. CASE master_send_rdb_snapshot(Link) \/ continue_psync(Link)
    <3>1. state[Link] # "PROPAGATE"
      BY <2>3, Zenon DEF master_send_rdb_snapshot, continue_psync
    <3> QED
      BY <1>2, <2>1, <3>1, Zenon
  <2> QED
    BY <1>5, <2>2, <2>3, Zenon DEF Sending, master_handle_replica_out
<1>6. CASE Replicating /\ ~ ReadCommands
  <2>1. UNCHANGED Streamed /\ (lost = "over" => lost' = "over")
    BY <1>6, Zenon DEF Replicating, NextReplica, send_command, ReadReply, ReadHeader,
                replica_receive_rdb_snapshot, ReadAstray, MasterGone, data, Streamed
  <2>2. UNCHANGED <<type, state>>
    BY <1>6, Zenon DEF Replicating, vars, conn, rep
  <2> QED
    BY <1>2, <2>1, <2>2, Zenon
<1>7. CASE Replicating /\ ReadCommands
  <2>1. UNCHANGED <<type, state>> /\ repl_client_state = "READY" /\ lost = "no"
    BY <1>7, Zenon DEF Replicating, ReadCommands, vars, conn, rep
  <2> SUFFICES ASSUME ~ (type[Link] = "replica" /\ state[Link] = "PROPAGATE")
               PROVE  Streamed' = 0
    BY <2>1, Zenon DEF Counting
  <2>2. BufferOK /\ After /\ Streamed = 0
    BY <1>1, <2>1, InAfter, Zenon DEF Counting
  <2>3. Used >= 6 + Size /\ Size \in Nat /\ Written /\ came = 6 + Parts
    <3>1. Mastering /\ Replicated
      BY <2>2, Zenon DEF After
    <3>2. Ready
      BY <2>1, <3>1, Zenon DEF Replicated, Waiting, Replied, Receiving
    <3>3. Written /\ Size \in Nat /\ state[Link] = "SENDING_RDB_DATA"
      BY <2>2, <3>1, Zenon DEF Mastering, After
    <3> QED
      BY <3>2, <3>3, Zenon DEF Ready, Written
  <2>4. PICK k \in 0 .. Len(Unread) :
            /\ InStep(Readable(k)) /\ own' = own
            /\ offset' = offset + Len(Readable(k)) \/ offset' = offset + 0
    BY <1>7, Zenon DEF ReadCommands, Advance
  <2>5. k \in Nat /\ taken + k <= came
    BY <1>1, <2>2, UnreadFacts, Zenon
  <2>6. PICK b \in Seq(Element) : /\ b = Readable(k) /\ Len(b) = held + k
                                  /\ \A i \in 1 .. held + k : b[i] = wire[Used + i]
    BY <1>1, <2>2, <2>5, Reads, Zenon
  <2>7. came \in Nat /\ taken \in Nat /\ held \in Nat /\ Used + held = taken /\ Used \in Nat
    BY <1>1, <2>2, UnreadFacts, Zenon
  <2>8. Len(b) = 0
    <3> SUFFICES ASSUME Len(b) # 0 PROVE FALSE
      BY Zenon
    <3>1. 1 \in 1 .. held + k /\ Used + 1 \in 7 .. 6 + Parts
      BY <2>3, <2>5, <2>6, <2>7, SMTT(30)
    <3>2. b[1].kind = "rdb"
      BY <2>3, <2>6, <3>1, Zenon DEF Written
    <3>3. b[1].kind = "command"
      BY <2>4, <2>6, <3>1, Zenon DEF InStep
    <3> QED
      BY <3>2, <3>3
  <2>9. offset' = offset + 0
    BY <2>4, <2>6, <2>8, Zenon
  <2>10. offset' = offset
    BY <1>1, <2>9 DEF CountersOK
  <2> QED
    BY <2>2, <2>4, <2>10, Zenon DEF Streamed
<1>8. CASE Own
  <2>1. offset \in Nat /\ own \in Nat
    BY <1>1, Zenon DEF CountersOK
  <2>2. PICK n \in 1 .. MaxOwn - own : offset' = offset + n /\ own' = own + n
    BY <1>8, Zenon DEF Own, ClientSet
  <2>3. UNCHANGED Streamed
    BY <2>1, <2>2, LinkAssumption DEF Streamed
  <2>4. UNCHANGED <<lost, type, state>>
    BY <1>8, Zenon DEF Own, ClientSet, vars, conn, rep
  <2> QED
    BY <1>2, <2>3, <2>4, Zenon
<1>9. CASE UNCHANGED all
  <2>1. UNCHANGED <<Streamed, lost, type, state>>
    BY <1>9, Zenon DEF all, vars, replica, conn, rep, Streamed
  <2> QED
    BY <1>2, <2>1, Zenon
<1> QED
  BY <1>3, <1>4, <1>5, <1>6, <1>7, <1>8, <1>9, Zenon DEF NextSync

\* The invariant holds of every behaviour; and so do the master's own, as each
\* step is a step of the master, an answer, or leaves it alone.
LEMMA SyncInvariant == SyncSpec => [](SyncInv /\ Counting)
<1>1. InitSync => Counting
  BY DEF InitSync, InitReplica, Counting, Streamed
<1> QED
  BY <1>1, SyncStart, SyncStep, CountingStep, PTL DEF SyncSpec

\* The input buffer never holds more than its size, whatever the reads of
\* replica_receive_rdb_snapshot do to it; never more is received or written to
\* the temporary file than the snapshot's header announced, the two counters of replica_receive_rdb_snapshot agree,
\* and the handshake never ends in its ERROR state.
THEOREM SyncTypeCorrect == SyncSpec => []SyncTypeOK
<1>1. SyncInv => SyncTypeOK
  <2> SUFFICES ASSUME SyncInv PROVE SyncTypeOK
    BY Zenon
  <2>1. TypeOK
    BY Zenon DEF SyncInv, TypeInv, TypeOK, ClientsOK, NumbersOK, BuffersOK, ArrayInv, OffsetInv,
           OffsetsOK, Types, States
  <2>2. repl_client_state \in
           DOMAIN Sends \cup DOMAIN Expects
             \cup {"SENT_PSYNC", "RECEIVED_FULLRESYNC_RESPONSE", "RECEIVING_RDB_DATA",
                   "READY", "freed"}
    BY SendsFacts, ExpectsFacts, Zenon
       DEF SyncInv, Overrun, Before, After, Handshaking, Stage, Replicated, Waiting, Replied,
           Receiving, Ready
  <2>3. taken \in 0 .. Len(sent[Link]) /\ input_buffer \in Seq(Element)
        /\ Len(input_buffer) <= InSize
    BY Zenon DEF SyncInv, BufferOK, Overrun, came, wire, held
  <2> QED
    BY <2>1, <2>2, <2>3, Zenon DEF SyncInv, SyncTypeOK, CountersOK
<1> QED
  BY <1>1, SyncInvariant, PTL

\* What replica_receive_rdb_snapshot loads is the file that was promised, whole
\* and in its order, however its bytes were cut and however many of them came
\* with the header, unless the file was saved again or a read ran past the end
\* of the input buffer; and none does in a buffer with room for the file and for
\* what came with its header.
THEOREM SnapshotIntactCorrect == SyncSpec => []SnapshotIntact
<1>1. SyncInv => SnapshotIntact
  <2>0. SyncInv /\ lost = "over" => early + rdb_expected_bytes > InSize
    BY Zenon DEF SyncInv, Overrun
  <2> SUFFICES ASSUME SyncInv, repl_client_state = "READY", ~ OtherSave, lost # "over"
               PROVE  loaded = [i \in 1 .. rdb_file_size[Link] |-> Part(promised[Link], i)]
    BY <2>0, Zenon DEF SnapshotIntact
  <2>1. After /\ Ready
    BY InAfter, Zenon DEF SyncInv, After, Replicated, Waiting, Replied, Receiving
  <2>2. Size \in Nat /\ Parts \in Nat /\ came \in Nat /\ Used \in Nat /\ Used <= came
    <3>1. TypeInv /\ BufferOK
      BY Zenon DEF SyncInv
    <3>2. came \in Nat /\ taken \in Nat /\ taken <= came /\ held \in Nat /\ Used \in Nat
          /\ Used + held = taken
      BY <3>1, UnreadFacts, Zenon
    <3> QED
      BY <2>1, <3>1, <3>2, LinkAssumption, SMTT(30) DEF After, Mastering, TypeInv, NumbersOK, Parts
  <2>3. Parts = Size
    BY <2>1, <2>2 DEF After, Mastering, Written, OneVersion, Ready
  <2>4. \A i \in 1 .. Size : 6 + i \in 7 .. 6 + Parts /\ (6 + i) - 6 = i
    BY <2>2, <2>3
  <2>5. \A i \in 1 .. Size : loaded[i] = Part(promised[Link], i)
    BY <2>1, <2>4, Zenon DEF After, Mastering, OneVersion, Ready
  <2>6. loaded \in Seq(Element) /\ DOMAIN loaded = 1 .. Size
    BY <2>1, Zenon DEF SyncInv, CountersOK, Ready
  <2>7. loaded = [i \in 1 .. Size |-> loaded[i]]
    BY <2>6
  <2> QED
    BY <2>5, <2>7, Zenon DEF Size
<1> QED
  BY <1>1, SyncInvariant, PTL

\* What a replica counts of the stream, which process_client_input advances only
\* by reads that end with a SET, never says more than the master_repl_offset of
\* its master, as long as the replica is in step with what it receives; the same
\* counter also has the bytes of the replica's own clients.
THEOREM NeverOverstatesCorrect == SyncSpec => []NeverOverstates
<1>1. SyncInv /\ Counting => NeverOverstates
  <2> SUFFICES ASSUME SyncInv, Counting, lost = "no",
                      NEW i \in DOMAIN wire, wire[i].kind = "fullresync"
               PROVE  wire[i].offset + Streamed <= master_repl_offset
    BY Zenon DEF NeverOverstates, wire, Streamed
  <2>1. TypeInv /\ BufferOK /\ CountersOK /\ (Before \/ After)
    BY Zenon DEF SyncInv
  <2>2. came \in Nat /\ taken \in Nat /\ taken <= came /\ held \in Nat /\ Used \in Nat
        /\ Used + held = taken /\ wire \in Seq(Element)
    BY <2>1, UnreadFacts, Zenon
  <2>3. i \in 1 .. came
    BY <2>2 DEF came
  <2>4. ~ Before
    <3> SUFFICES ASSUME Before PROVE FALSE
      BY Zenon
    <3>1. i \in {1, 2, 3} /\ came \in Nat /\ i <= came
      BY <2>2, <2>3 DEF Before
    <3>2. wire[i] \in {Reply("PONG"), Reply("OK")}
      BY <3>1, Zenon DEF Before, Answers
    <3> QED
      BY <3>2 DEF Reply
  <2>5. After
    BY <2>1, <2>4, Zenon
  <2>6. Parts \in Nat /\ Size \in Nat /\ master_repl_offset \in Nat /\ outs \in Nat
        /\ Streamed \in Nat
    BY <2>1, <2>5, LinkAssumption
       DEF After, Mastering, TypeInv, NumbersOK, BuffersOK, OffsetInv, OffsetsOK, CountersOK, outs,
           Parts
  <2>7. i = 4
    <3>1. Written
      BY <2>5, Zenon DEF After, Mastering
    <3>2. i \notin 1 .. 3
      BY <3>1, Zenon DEF Written
    <3>3. i # 5 /\ i # 6
      BY <3>1 DEF Written, Header, HeaderEnd
    <3>4. i \notin 7 .. 6 + Parts
      BY <3>1, Zenon DEF Written
    <3>5. i \notin 7 + Parts .. came
      <4>1. \A e \in Command : e.kind = "command"
        BY Zenon DEF Command
      <4> QED
        BY <3>1, <4>1, Zenon DEF Written
    <3> QED
      BY <2>2, <2>3, <2>6, <3>2, <3>3, <3>4, <3>5, SMTT(30)
  <2>8. PICK f \in Nat, c \in Nat, o \in Nat, p \in Nat, q \in Nat, u \in Nat, n \in Nat :
            f = wire[4].offset /\ c = came /\ o = outs /\ p = Parts /\ q = master_repl_offset
              /\ u = Used /\ n = Streamed
    BY <2>2, <2>5, <2>6, Zenon DEF After, Mastering, Counted
  <2>9. f + c + o <= q + 6 + p /\ c >= 6 + p /\ u <= c
    BY <2>2, <2>5, <2>8 DEF After, Mastering, Counted, Written
  <2>10. n = 0 \/ n + 6 + p <= u
    <3>1. CASE Streamed = 0
      BY <2>8, <3>1, Zenon
    <3>2. CASE state[Link] = "PROPAGATE"
      BY <2>2, <2>5, <2>6, <2>8, <3>2, SMTT(30) DEF After, Mastering, Written, Replicated
    <3> QED
      BY <3>1, <3>2, ZenonT(30), Zenon DEF Counting
  <2>11. f + n <= q
    BY <2>9, <2>10
  <2> QED
    BY <2>7, <2>8, <2>11, Zenon
<1> QED
  BY <1>1, SyncInvariant, PTL


\* A filter that keeps the SETs leaves the writers.
LEMMA WritersFilter ==
    ASSUME NEW s \in Seq(Element), NEW T, SetEnds \subseteq T
    PROVE  Writers(Filter(s, T)) = Writers(s)
<1>1. Filter(Filter(s, T), SetEnds) = Filter(s, SetEnds)
  BY FilterTwice
<1> QED
  BY <1>1, Zenon DEF Writers

\* Where every read of a client is of whole commands and a read that has a SET
\* ends with one, a replica that is ready has executed, after its snapshot, a
\* prefix of the SETs the master executed since it took it: none is lost,
\* repeated, reordered or taken from the snapshot's bytes, as long as none of its
\* reads has ended inside an argument or run past the end of its buffer, and
\* nothing but commands has followed the snapshot.
THEOREM AppliedPrefixCorrect ==
    ASSUME WholeReads
    PROVE  SyncSpec => []AppliedPrefix
<1>1. SyncInv /\ StreamInv /\ [NextSync]_all => StreamInv'
  BY MasterTyped, Zenon DEF SyncInv
<1>2. SyncInv /\ StreamInv => AppliedPrefix
  <2> SUFFICES ASSUME SyncInv, StreamInv, repl_client_state = "READY", Link \notin missed,
                      lost = "no"
               PROVE  \E n \in snap[Link] .. Len(sets) :
                          Writers(applied) = SubSeq(sets, snap[Link] + 1, n)
    BY Zenon DEF AppliedPrefix
  <2>1. After /\ Ready
    BY InAfter, Zenon DEF SyncInv, After, Replicated, Waiting, Replied, Receiving
  <2>2. StreamOK(Link)
    BY <2>1, LinkAssumption, Zenon DEF StreamInv, ClientStream, Followed, After, Mastering
  <2>3. TypeInv /\ BufferOK
    BY Zenon DEF SyncInv
  <2>4. came \in Nat /\ taken \in Nat /\ taken <= came /\ held \in Nat /\ Used \in Nat
        /\ Used + held = taken /\ wire \in Seq(Element)
    BY <2>3, UnreadFacts, Zenon
  <2>5. PICK w \in Seq(Element) : w = wire
    BY <2>4, Zenon
  <2>6. PICK o \in Seq(Element) : o = output[Link]
    BY <2>3, LinkAssumption, Zenon DEF TypeInv, BuffersOK
  <2>7. PICK k \in Nat : k = Used /\ k \in 0 .. Len(w)
    BY <2>4, <2>5 DEF came
  <2>8. /\ SubSeq(w, 1, k) \in Seq(Element) /\ SubSeq(w, k + 1, Len(w)) \in Seq(Element)
        /\ SubSeq(w, 1, k) \o SubSeq(w, k + 1, Len(w)) = w
    BY <2>7, SplitAt, Zenon
  <2>9. PICK u \in Seq(Element), v \in Seq(Element) : u = SubSeq(w, 1, k) /\ u \o v = w
    BY <2>8, Zenon
  <2>10. PICK t \in Seq(Element) : t = v \o o
    BY ElementsJoin, Zenon
  <2>11. w \o o = u \o t
    <3>1. (u \o v) \o o = u \o (v \o o)
      BY ElementsAssociate, ZenonT(30)
    <3> QED
      BY <2>9, <2>10, <3>1, Zenon
  <2>12. SetEnds \subseteq Command /\ SetEnds \subseteq SetEnds
    BY Zenon DEF SetEnds
  <2>13. Writers(applied) = Writers(u)
    BY <2>1, <2>5, <2>7, <2>9, <2>12, WritersFilter, Zenon DEF Ready
  <2>14. Writers(Stream(Link)) = Writers(u \o t)
    <3>1. u \o t \in Seq(Element)
      BY ElementsJoin, Zenon
    <3>2. Stream(Link) = Filter(u \o t, Command)
      BY <2>5, <2>6, <2>11, Zenon DEF Stream, wire
    <3> QED
      BY <2>12, <3>1, <3>2, WritersFilter, Zenon
  <2>15. Writers(u \o t) = Writers(u) \o Writers(t)
    BY WritersConcat, Zenon
  <2>16. Writers(u) \in Seq(Conns) /\ Writers(t) \in Seq(Conns)
    BY WritersType, Zenon
  <2>17. PICK a \in Seq(Conns), b \in Seq(Conns) : a = Writers(u) /\ b = Writers(t)
    BY <2>16, Zenon
  <2>18. PICK q \in Seq(Conns), m \in Nat : q = sets /\ m = snap[Link]
    BY <2>3, LinkAssumption, Zenon DEF TypeInv, NumbersOK
  <2>19. EndsWith(q, m, a \o b)
    BY <2>2, <2>14, <2>15, <2>17, <2>18, Zenon DEF StreamOK, EndsWith
  <2>20. Comes(q, m, a)
    BY <2>19, HeadOfEnd, Zenon
  <2> QED
    BY <2>13, <2>17, <2>18, <2>20, Zenon DEF Comes
<1> QED
  BY <1>1, <1>2, SyncStart, SyncInvariant, PTL DEF SyncSpec
==============================================================================
