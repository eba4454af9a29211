-------------------------- MODULE ReplicationProofs --------------------------
(***************************************************************************)
(* The backlog's window, the offsets of the replicas to be continued, the  *)
(* array of replicas and the types, for every set of connections, every    *)
(* set of chunks and every size.                                           *)
(***************************************************************************)
EXTENDS Replication, SequenceLemmas, TLAPS

\* A step that changes nothing, or ends the model: one replica too many.
Idle ==
    /\ UNCHANGED <<conn, replicas, rep, log, file, sets, input, hist>>
    /\ up' \in {up, FALSE}

Steps ==
    \E c \in Conns :
        \/ Accept(c)
        \/ Hangup(c)
        \/ \E chunk \in Chunks : process_client_input(c, chunk)
        \/ handle_save(c)
        \/ \E known \in BOOLEAN, off \in -1 .. master_repl_offset + 1 : Enlist(c, known, off)
        \/ master_handle_replica_out(c)

LEMMA NextSteps == [Next]_vars => Steps \/ Idle
<1>1. ASSUME NEW c \in Conns, Overwrite(c)
      PROVE  Idle
  BY <1>1, Zenon DEF Overwrite, Idle
<1>2. UNCHANGED vars => Idle
  BY Zenon DEF vars, Idle
<1>. QED
  BY <1>1, <1>2, Zenon DEF Next, Steps, handle_psync

States == {None, "PSYNC", "SENDING_RDB_DATA", "PROPAGATE", "corrupt"}

\* The part of the type invariant that the offsets need.
OffsetsOK ==
    /\ master_repl_offset \in Nat /\ repl_backlog_base_offset \in Nat
    /\ repl_backlog \in Seq({Junk})
    /\ repl_offset \in [Conns -> Int]
    /\ state \in [Conns -> States]

\* The inductive invariant.  NeverAhead needs the offset to grow only, which
\* the type of the chunks gives, and BacklogWindow the length of a chunk.
OffsetInv == OffsetsOK /\ BacklogWindow /\ NeverAhead

\* What is written to the backlog moves its end and, when it is full, its
\* start, by the same number of bytes as the offsets.
LEMMA BackloggedKeeps ==
    ASSUME OffsetsOK, BacklogWindow, NEW n \in 1 .. BacklogSize, Backlogged(n)
    PROVE  /\ master_repl_offset' \in Nat /\ repl_backlog_base_offset' \in Nat
           /\ repl_backlog' \in Seq({Junk})
           /\ BacklogWindow'
           /\ master_repl_offset' >= master_repl_offset
<1> DEFINE new == repl_backlog \o [i \in 1 .. n |-> Junk]
           over == Len(repl_backlog) + n - BacklogSize
<1>1. new \in Seq({Junk}) /\ Len(new) = Len(repl_backlog) + n
  BY BacklogAssumption DEF OffsetsOK
<1>2. Len(repl_backlog) \in Nat /\ over \in Int /\ BacklogSize \in Nat
  BY BacklogAssumption DEF OffsetsOK
<1>3. /\ master_repl_offset' = master_repl_offset + n /\ n \in Nat \ {0} /\ n <= BacklogSize
      /\ master_repl_offset \in Nat /\ repl_backlog_base_offset \in Nat
      /\ repl_backlog_base_offset + Len(repl_backlog) = master_repl_offset
      /\ Len(repl_backlog) <= BacklogSize
  BY <1>2 DEF Backlogged, BacklogWindow, OffsetsOK
<1>4. CASE over <= 0
  <2>1. repl_backlog' = new /\ repl_backlog_base_offset' = repl_backlog_base_offset
    BY <1>4, Zenon DEF Backlogged
  <2>2. repl_backlog' \in Seq({Junk}) /\ Len(repl_backlog') = Len(repl_backlog) + n
    BY <1>1, <2>1, Zenon
  <2> HIDE DEF new
  <2>. QED
    BY <1>2, <1>3, <1>4, <2>1, <2>2 DEF BacklogWindow
<1>5. CASE over > 0
  <2>1. /\ repl_backlog' = SubSeq(new, over + 1, Len(new))
        /\ repl_backlog_base_offset' = repl_backlog_base_offset + over
    BY <1>2, <1>5 DEF Backlogged
  <2>2. over + 1 \in 1 .. Len(new) + 1
    BY <1>1, <1>2, <1>5 DEF BacklogWindow
  <2>3. repl_backlog' \in Seq({Junk}) /\ Len(repl_backlog') = Len(new) - over
    <3> HIDE DEF new, over
    <3>. QED
      BY <1>1, <1>2, <1>5, <2>1, <2>2
  <2>4. Len(repl_backlog') = BacklogSize
    BY <1>1, <1>2, <1>3, <2>3
  <2>5. repl_backlog_base_offset' = repl_backlog_base_offset + over
    BY <2>1, Zenon
  <2>6. /\ repl_backlog_base_offset' \in Nat
        /\ repl_backlog_base_offset' + BacklogSize = master_repl_offset'
    BY <1>2, <1>3, <1>5, <2>5
  <2>7. BacklogWindow'
    BY <1>2, <2>4, <2>6 DEF BacklogWindow
  <2>. QED
    BY <1>3, <2>3, <2>6, <2>7
<1>. QED
  BY <1>2, <1>4, <1>5

LEMMA OffsetInvInductive == OffsetInv /\ [Next]_vars => OffsetInv'
<1> SUFFICES ASSUME OffsetInv, [Next]_vars
             PROVE  OffsetInv'
  BY Zenon
<1> USE DEF OffsetInv
<1>1. ASSUME NEW c \in Conns, Accept(c)
      PROVE  OffsetInv'
  BY <1>1, Zenon DEF Accept, OffsetsOK, BacklogWindow, NeverAhead, log, States, None
<1>2. ASSUME NEW c \in Conns, Hangup(c)
      PROVE  OffsetInv'
  BY <1>2, Zenon DEF Hangup, OffsetsOK, BacklogWindow, NeverAhead, log, rep
<1>3. ASSUME NEW c \in Conns, NEW chunk \in Chunks, process_client_input(c, chunk)
      PROVE  OffsetInv'
  <2>1. UNCHANGED <<state, repl_offset>>
    BY <1>3, Zenon DEF process_client_input
  <2>2. CASE Flag(c, chunk)
    <3>1. Backlogged(Len(chunk)) /\ Len(chunk) \in 1 .. BacklogSize
      BY <1>3, <2>2, ChunksAssumption, Zenon DEF process_client_input, Propagate
    <3>2. /\ master_repl_offset' \in Nat /\ repl_backlog_base_offset' \in Nat
          /\ repl_backlog' \in Seq({Junk})
          /\ BacklogWindow'
          /\ master_repl_offset' >= master_repl_offset
      BY <3>1, BackloggedKeeps, Zenon
    <3>. QED
      BY <2>1, <3>2 DEF OffsetsOK, NeverAhead
  <2>3. CASE ~ Flag(c, chunk)
    BY <1>3, <2>1, <2>3, Zenon DEF process_client_input, log, OffsetsOK, BacklogWindow, NeverAhead
  <2>. QED
    BY <2>2, <2>3, Zenon
<1>4. ASSUME NEW c \in Conns, handle_save(c)
      PROVE  OffsetInv'
  BY <1>4, Zenon DEF handle_save, OffsetsOK, BacklogWindow, NeverAhead, log, rep
<1>5. ASSUME NEW c \in Conns, NEW known \in BOOLEAN,
             NEW off \in -1 .. master_repl_offset + 1, Enlist(c, known, off)
      PROVE  OffsetInv'
  <2>1. UNCHANGED log
    BY <1>5, Zenon DEF Enlist
  <2>2. CASE known /\ InWindow(off)
    <3>1. /\ repl_offset' = [repl_offset EXCEPT ![c] = off]
          /\ state' = [state EXCEPT ![c] = "PSYNC"]
      BY <1>5, <2>2, Zenon DEF Enlist
    <3>2. off \in Int /\ off <= master_repl_offset
      BY <2>2 DEF InWindow, OffsetsOK
    <3>. QED
      BY <2>1, <3>1, <3>2, Zenon DEF OffsetsOK, BacklogWindow, NeverAhead, log, States
  <2>3. CASE ~ (known /\ InWindow(off))
    BY <1>5, <2>1, <2>3, ZenonT(30)
       DEF Enlist, OffsetsOK, BacklogWindow, NeverAhead, log, States
  <2>. QED
    BY <2>2, <2>3, Zenon
<1>6. ASSUME NEW c \in Conns, master_handle_replica_out(c)
      PROVE  OffsetInv'
  <2>1. CASE flush_client_output(c)
    BY <2>1, Zenon DEF flush_client_output, OffsetsOK, BacklogWindow, NeverAhead, log
  <2>2. CASE master_send_rdb_snapshot(c)
    BY <2>2, Zenon DEF master_send_rdb_snapshot, OffsetsOK, BacklogWindow, NeverAhead, log, States
  <2>3. CASE continue_psync(c)
    BY <2>3, Zenon DEF continue_psync, OffsetsOK, BacklogWindow, NeverAhead, log, States, None
  <2>. QED
    BY <1>6, <2>1, <2>2, <2>3, Zenon DEF master_handle_replica_out
<1>7. CASE Idle
  BY <1>7, Zenon DEF Idle, OffsetsOK, BacklogWindow, NeverAhead, log, rep
<1>. QED
  BY <1>1, <1>2, <1>3, <1>4, <1>5, <1>6, <1>7, NextSteps, Zenon DEF Steps

LEMMA OffsetInvCorrect == Spec => []OffsetInv
<1>1. Init => OffsetInv
  BY BacklogAssumption
     DEF Init, OffsetInv, OffsetsOK, BacklogWindow, NeverAhead, States, None
<1>. QED
  BY <1>1, OffsetInvInductive, PTL DEF Spec

\* However the chunks of the clients interleave with the events of replicas,
\* the backlog ends at the master's offset and starts at the base offset, so
\* the window PSYNC compares an offset with is the one the buffer holds.
THEOREM BacklogWindowCorrect == Spec => []BacklogWindow
BY OffsetInvCorrect, PTL DEF OffsetInv

\* The branch of continue_psync for a replica that is ahead of the master is
\* dead: the offset was at most the master's when PSYNC was accepted, and that
\* one only grows.
THEOREM NeverAheadCorrect == Spec => []NeverAhead
BY OffsetInvCorrect, PTL DEF OffsetInv

------------------------------------------------------------------------------
Types == {"closed", "regular", "replica"}

\* The inductive invariant for the array of replicas.
ArrayInv ==
    /\ type \in [Conns -> Types]
    /\ replicas \in Seq(Conns)
    /\ ReplicasOnce

\* Appending a connection that is not in the array.
LEMMA AddKeeps ==
    ASSUME ArrayInv, NEW c \in Conns, type[c] # "replica", Place, add_replica(c)
    PROVE  ArrayInv'
<1> DEFINE n == Len(replicas)
<1>1. n \in Nat /\ replicas \in Seq(Conns) /\ DOMAIN replicas = 1 .. n
  BY DEF ArrayInv
<1>2. /\ replicas' \in Seq(Conns) /\ Len(replicas') = n + 1
      /\ DOMAIN replicas' = 1 .. n + 1
      /\ replicas'[n + 1] = c
      /\ \A i \in 1 .. n : replicas'[i] = replicas[i]
  BY <1>1 DEF add_replica
<1>3. \A i \in 1 .. n : replicas[i] # c
  BY <1>1 DEF ArrayInv, ReplicasOnce, Registered
<1>4. Registered' = Registered \cup {c}
  BY <1>1, <1>2 DEF Registered
<1>5. type' = [type EXCEPT ![c] = "replica"] /\ type' \in [Conns -> Types]
  BY Zenon DEF add_replica, ArrayInv, Types
<1>6. \A x \in Conns : type'[x] = "replica" <=> x \in Registered'
  BY <1>4, <1>5, Zenon DEF ArrayInv, ReplicasOnce
<1>7. \A i, j \in DOMAIN replicas' : replicas'[i] = replicas'[j] => i = j
  BY <1>1, <1>2, <1>3 DEF ArrayInv, ReplicasOnce
<1>8. Len(replicas') <= MaxReplicas
  BY <1>1, <1>2, BacklogAssumption DEF Place
<1>. QED
  BY <1>2, <1>5, <1>6, <1>7, <1>8, Zenon DEF ArrayInv, ReplicasOnce

\* The last one takes the place of the one removed, which may be itself.
LEMMA RemoveKeeps ==
    ASSUME ArrayInv, NEW c \in Conns, type[c] = "replica",
           remove_replica(c), type' = [type EXCEPT ![c] = "closed"]
    PROVE  ArrayInv'
<1> DEFINE n == Len(replicas)
           pos == CHOOSE i \in DOMAIN replicas : replicas[i] = c
           moved == [replicas EXCEPT ![pos] = Last(replicas)]
<1>1. n \in Nat /\ replicas \in Seq(Conns) /\ DOMAIN replicas = 1 .. n
  BY DEF ArrayInv
<1>2. \E i \in DOMAIN replicas : replicas[i] = c
  BY <1>1 DEF ArrayInv, ReplicasOnce, Registered
<1>3. pos \in 1 .. n /\ replicas[pos] = c
  BY <1>1, <1>2, Zenon
<1>4. \A i \in 1 .. n : replicas[i] = c => i = pos
  BY <1>1, <1>3, Zenon DEF ArrayInv, ReplicasOnce
<1>5. replicas' = SubSeq(moved, 1, n - 1)
  BY Zenon DEF remove_replica
<1> HIDE DEF pos
<1>6. /\ moved \in Seq(Conns) /\ Len(moved) = n
      /\ \A i \in 1 .. n : moved[i] = IF i = pos THEN replicas[n] ELSE replicas[i]
  BY <1>1, <1>3 DEF Last
<1> HIDE DEF moved
<1>7. /\ replicas' \in Seq(Conns) /\ DOMAIN replicas' = 1 .. n - 1
      /\ Len(replicas') = n - 1
      /\ \A i \in 1 .. n - 1 : replicas'[i] = moved[i]
  BY <1>1, <1>3, <1>5, <1>6
<1>8. \A i \in 1 .. n - 1 : replicas'[i] = IF i = pos THEN replicas[n] ELSE replicas[i]
  BY <1>1, <1>6, <1>7
<1>9. \A i, j \in DOMAIN replicas' : replicas'[i] = replicas'[j] => i = j
  <2>1. \A i, j \in 1 .. n : replicas[i] = replicas[j] => i = j
    BY <1>1, Zenon DEF ArrayInv, ReplicasOnce
  <2>. QED
    BY <1>1, <1>3, <1>7, <1>8, <2>1, SMTT(30)
<1>10. Registered' = Registered \ {c}
  <2>1. ASSUME NEW i \in 1 .. n - 1
        PROVE  replicas'[i] \in Registered \ {c}
    BY <1>1, <1>3, <1>4, <1>8 DEF Registered
  <2>2. ASSUME NEW x \in Registered \ {c}
        PROVE  x \in Registered'
    <3>1. PICK i \in 1 .. n : replicas[i] = x
      BY Zenon DEF Registered
    <3>2. i # pos
      BY <1>3, <3>1, Zenon
    <3>3. CASE i = n
      <4>1. pos \in 1 .. n - 1
        BY <1>1, <1>3, <3>2, <3>3
      <4>2. replicas'[pos] = x
        BY <1>8, <3>1, <3>3, <4>1, Zenon
      <4>. QED
        BY <1>7, <4>1, <4>2, Zenon DEF Registered
    <3>4. CASE i # n
      <4>1. i \in 1 .. n - 1
        <5>1. \A a \in Nat : \A b \in 1 .. a : b # a => b \in 1 .. a - 1
          OBVIOUS
        <5>. QED
          BY <1>1, <3>4, <5>1, Zenon
      <4>2. replicas'[i] = x
        BY <1>8, <3>1, <3>2, <4>1, Zenon
      <4>. QED
        BY <1>7, <4>1, <4>2, Zenon DEF Registered
    <3>. QED
      BY <3>3, <3>4, Zenon
  <2>. QED
    BY <1>7, <2>1, <2>2, ZenonT(30) DEF Registered
<1>11. type' \in [Conns -> Types]
  BY Zenon DEF ArrayInv, Types
<1>12. \A x \in Conns : type'[x] = "replica" <=> x \in Registered'
  BY <1>10, Zenon DEF ArrayInv, ReplicasOnce
<1>13. Len(replicas') <= MaxReplicas
  <2>1. n <= MaxReplicas
    BY Zenon DEF ArrayInv, ReplicasOnce
  <2>. QED
    BY <1>1, <1>7, <2>1, BacklogAssumption
<1>. QED
  BY <1>7, <1>9, <1>11, <1>12, <1>13, Zenon DEF ArrayInv, ReplicasOnce

\* A step that leaves the array alone and neither makes nor unmakes a replica.
LEMMA OthersKeep ==
    ASSUME ArrayInv, UNCHANGED replicas, type' \in [Conns -> Types],
           \A x \in Conns : type'[x] = "replica" <=> type[x] = "replica"
    PROVE  ArrayInv'
BY Zenon DEF ArrayInv, ReplicasOnce, Registered

LEMMA ArrayInvInductive == ArrayInv /\ [Next]_vars => ArrayInv'
<1> SUFFICES ASSUME ArrayInv, [Next]_vars
             PROVE  ArrayInv'
  BY Zenon
<1>0. type \in [Conns -> Types]
  BY Zenon DEF ArrayInv
<1>1. ASSUME NEW c \in Conns, Accept(c) \/ Hangup(c)
      PROVE  ArrayInv'
  BY <1>0, <1>1, OthersKeep, Zenon DEF Accept, Hangup, Types
<1>2. ASSUME NEW c \in Conns, NEW chunk \in Chunks, process_client_input(c, chunk)
      PROVE  ArrayInv'
  <2>1. /\ UNCHANGED replicas /\ type[c] = "regular"
        /\ type' = type \/ type' = [type EXCEPT ![c] = "closed"]
    <3>1. CASE Flag(c, chunk)
      BY <1>0, <1>2, <3>1, Zenon DEF process_client_input, Propagate
    <3>2. CASE ~ Flag(c, chunk)
      BY <1>2, <3>2, Zenon DEF process_client_input
    <3>. QED
      BY <3>1, <3>2, Zenon
  <2>. QED
    BY <1>0, <2>1, OthersKeep, Zenon DEF Types
<1>3. ASSUME NEW c \in Conns, handle_save(c)
      PROVE  ArrayInv'
  BY <1>0, <1>3, OthersKeep, Zenon DEF handle_save
<1>4. ASSUME NEW c \in Conns, NEW known, NEW off, Enlist(c, known, off)
      PROVE  ArrayInv'
  BY <1>4, AddKeeps, Zenon DEF Enlist
<1>5. ASSUME NEW c \in Conns, master_handle_replica_out(c)
      PROVE  ArrayInv'
  <2>1. CASE flush_client_output(c) \/ master_send_rdb_snapshot(c)
    BY <1>0, <2>1, OthersKeep, Zenon DEF flush_client_output, master_send_rdb_snapshot, conn
  <2>2. CASE continue_psync(c)
    <3>1. \/ UNCHANGED <<type, replicas>>
          \/ /\ type[c] = "replica" /\ remove_replica(c)
             /\ type' = [type EXCEPT ![c] = "closed"]
      BY <2>2, Zenon DEF continue_psync, Writable
    <3>. QED
      BY <1>0, <3>1, OthersKeep, RemoveKeeps, Zenon
  <2>. QED
    BY <1>5, <2>1, <2>2, Zenon DEF master_handle_replica_out
<1>6. CASE Idle
  BY <1>0, <1>6, OthersKeep, Zenon DEF Idle, conn
<1>. QED
  BY <1>1, <1>2, <1>3, <1>4, <1>5, <1>6, NextSteps, Zenon DEF Steps

\* Whatever the order in which replicas come and are removed, the array holds
\* each connection that is a replica once, and no other; and as long as no
\* replica was one too many for it, it holds at most MAX_REPLICAS.
THEOREM ReplicasOnceCorrect == Spec => []ReplicasOnce
<1>1. Init => ArrayInv
  BY BacklogAssumption DEF Init, ArrayInv, ReplicasOnce, Registered, Types
<1>2. ArrayInv => ReplicasOnce
  BY Zenon DEF ArrayInv
<1>. QED
  BY <1>1, <1>2, ArrayInvInductive, PTL DEF Spec

------------------------------------------------------------------------------
(* Type correctness.  The array and the backlog are those of the invariants  *)
(* above; what is left is the other fields, in three groups.                 *)

ClientsOK ==
    /\ half \in [Conns -> {None, "SET", "GET"}]
    /\ should_propogate_command \in [Conns -> BOOLEAN]
    /\ epollout \in [Conns -> BOOLEAN]
    /\ up \in BOOLEAN /\ missed \subseteq Conns

NumbersOK ==
    /\ rdb_file_size \in [Conns -> {0} \cup RdbSizes]
    /\ rdb_file_offset \in [Conns -> Nat]
    /\ promised \in [Conns -> Nat]
    /\ repl_offset \in [Conns -> Nat]
    /\ snap \in [Conns -> Nat]
    /\ file \in [version : 0 .. MaxSaves, size : {0} \cup RdbSizes]
    /\ sets \in Seq(Conns) /\ input \in 0 .. MaxInput

BuffersOK ==
    /\ output \in [Conns -> Seq(Element)] /\ sent \in [Conns -> Seq(Element)]
    /\ \A c \in Conns : Len(output[c]) <= OutSize

TypeInv == ClientsOK /\ NumbersOK /\ BuffersOK /\ ArrayInv /\ OffsetInv

LEMMA ClientsStep == TypeInv /\ [Next]_vars => ClientsOK'
<1> SUFFICES ASSUME TypeInv, [Next]_vars
             PROVE  ClientsOK'
  BY Zenon
<1>0. ClientsOK
  BY Zenon DEF TypeInv
<1> USE DEF ClientsOK
<1>1. ASSUME NEW c \in Conns, Accept(c)
      PROVE  ClientsOK'
  BY <1>0, <1>1, Zenon DEF Accept
<1>2. ASSUME NEW c \in Conns, Hangup(c)
      PROVE  ClientsOK'
  BY <1>0, <1>2, Zenon DEF Hangup, rep, hist
<1>3. ASSUME NEW c \in Conns, NEW chunk \in Chunks, process_client_input(c, chunk)
      PROVE  ClientsOK'
  <2>1. Flag(c, chunk) \in BOOLEAN
    BY <1>0, Zenon DEF Flag
  <2>2. should_propogate_command' \in [Conns -> BOOLEAN]
    BY <1>0, <1>3, <2>1, Zenon DEF process_client_input
  <2>3. chunk[Len(chunk)].cmd \in {"SET", "GET"}
    <3>1. chunk \in Seq(Fragment) /\ Len(chunk) \in 1 .. BacklogSize /\ BacklogSize \in Nat
      BY ChunksAssumption, BacklogAssumption, Zenon
    <3>2. chunk[Len(chunk)] \in Fragment
      BY <3>1
    <3>. QED
      BY <3>2, Zenon DEF Fragment
  <2>4. half' \in [Conns -> {None, "SET", "GET"}]
    BY <1>0, <1>3, <2>3, Zenon DEF process_client_input, Last
  <2>5. epollout' \in [Conns -> BOOLEAN] /\ up' \in BOOLEAN /\ missed' \subseteq Conns
    <3>1. CASE Flag(c, chunk)
      <4>1. Receivers \subseteq Conns
        BY DEF Receivers, Registered, TypeInv, ArrayInv
      <4>. QED
        BY <1>0, <1>3, <3>1, <4>1, Zenon DEF process_client_input, Propagate
    <3>2. CASE ~ Flag(c, chunk)
      BY <1>0, <1>3, <3>2, Zenon DEF process_client_input
    <3>. QED
      BY <3>1, <3>2, Zenon
  <2>. QED
    BY <2>2, <2>4, <2>5, Zenon
<1>4. ASSUME NEW c \in Conns, handle_save(c)
      PROVE  ClientsOK'
  BY <1>0, <1>4, Zenon DEF handle_save, rep, hist
<1>5. ASSUME NEW c \in Conns, NEW known, NEW off, Enlist(c, known, off)
      PROVE  ClientsOK'
  BY <1>0, <1>5, Zenon DEF Enlist
<1>6. ASSUME NEW c \in Conns, master_handle_replica_out(c)
      PROVE  ClientsOK'
  <2>1. CASE flush_client_output(c)
    BY <1>0, <2>1, Zenon DEF flush_client_output, conn
  <2>2. CASE master_send_rdb_snapshot(c)
    BY <1>0, <2>2, Zenon DEF master_send_rdb_snapshot, conn
  <2>3. CASE continue_psync(c)
    BY <1>0, <2>3, Zenon DEF continue_psync, hist
  <2>. QED
    BY <1>6, <2>1, <2>2, <2>3, Zenon DEF master_handle_replica_out
<1>7. CASE Idle
  BY <1>0, <1>7, Zenon DEF Idle, conn, rep, hist
<1>. QED
  BY <1>1, <1>2, <1>3, <1>4, <1>5, <1>6, <1>7, NextSteps, Zenon DEF Steps

LEMMA NumbersStep == TypeInv /\ [Next]_vars => NumbersOK'
<1> SUFFICES ASSUME TypeInv, [Next]_vars
             PROVE  NumbersOK'
  BY Zenon
<1>0. NumbersOK /\ Len(sets) \in Nat
  BY DEF TypeInv, NumbersOK
<1>1. ASSUME NEW c \in Conns, Accept(c) \/ Hangup(c)
      PROVE  NumbersOK'
  BY <1>0, <1>1, Zenon DEF NumbersOK, Accept, Hangup, rdb, rep, hist
<1>2. ASSUME NEW c \in Conns, NEW chunk \in Chunks, process_client_input(c, chunk)
      PROVE  NumbersOK'
  <2> DEFINE n == Len(SetsIn(chunk))
             more == [i \in 1 .. n |-> c]
  <2>1. Len(chunk) \in Nat
    BY ChunksAssumption, BacklogAssumption
  <2>2. n \in Nat
    <3>1. chunk \in Seq(Fragment)
      BY ChunksAssumption, Zenon
    <3>2. SetsIn(chunk) \in Seq(Fragment)
      BY <3>1, FilterType, Zenon DEF SetsIn
    <3>. QED
      BY <3>2
  <2>3. more \in Seq(Conns)
    <3> HIDE DEF n
    <3>. QED
      BY <2>2
  <2>4. sets' = sets \o more
    BY <1>2, Zenon DEF process_client_input
  <2>5. sets' \in Seq(Conns)
    <3> HIDE DEF more
    <3>. QED
      BY <1>0, <2>3, <2>4 DEF NumbersOK
  <2>6. input' \in 0 .. MaxInput
    BY <1>0, <1>2, <2>1, BacklogAssumption DEF NumbersOK, process_client_input
  <2>7. UNCHANGED <<rdb_file_size, rdb_file_offset, promised, repl_offset, snap, file>>
    BY <1>2, Zenon DEF process_client_input, rdb
  <2>. QED
    BY <1>0, <2>5, <2>6, <2>7, Zenon DEF NumbersOK
<1>3. ASSUME redis_db_save
      PROVE  /\ file' \in [version : 0 .. MaxSaves, size : {0} \cup RdbSizes]
             /\ file'.version \in Nat /\ file'.size \in {0} \cup RdbSizes
  BY <1>0, <1>3, BacklogAssumption DEF NumbersOK, redis_db_save
<1>4. ASSUME NEW c \in Conns, handle_save(c)
      PROVE  NumbersOK'
  <2>1. redis_db_save
    BY <1>4, Zenon DEF handle_save
  <2>. QED
    BY <1>0, <1>3, <1>4, <2>1, Zenon DEF NumbersOK, handle_save, rep, rdb, hist
<1>5. ASSUME NEW c \in Conns, NEW known \in BOOLEAN,
             NEW off \in -1 .. master_repl_offset + 1, Enlist(c, known, off)
      PROVE  NumbersOK'
  <2>1. UNCHANGED <<sets, input>> /\ snap' \in [Conns -> Nat]
    BY <1>0, <1>5, Zenon DEF NumbersOK, Enlist
  <2>2. CASE known /\ InWindow(off)
    <3>1. off \in Nat
      BY <2>2 DEF InWindow, TypeInv, OffsetInv, OffsetsOK
    <3>2. /\ repl_offset' = [repl_offset EXCEPT ![c] = off]
          /\ UNCHANGED <<file, rdb_file_size, rdb_file_offset, promised>>
      BY <1>5, <2>2, Zenon DEF Enlist, rdb
    <3>. QED
      BY <1>0, <2>1, <3>1, <3>2, Zenon DEF NumbersOK
  <2>3. CASE ~ (known /\ InWindow(off))
    <3>1. redis_db_save
      BY <1>5, <2>3, Zenon DEF Enlist
    <3>2. /\ rdb_file_size' = [rdb_file_size EXCEPT ![c] = file'.size]
          /\ rdb_file_offset' = [rdb_file_offset EXCEPT ![c] = 0]
          /\ promised' = [promised EXCEPT ![c] = file'.version]
          /\ UNCHANGED repl_offset
      BY <1>5, <2>3, Zenon DEF Enlist
    <3>3. /\ file' \in [version : 0 .. MaxSaves, size : {0} \cup RdbSizes]
          /\ file'.version \in Nat /\ file'.size \in {0} \cup RdbSizes
      BY <1>3, <3>1, Zenon
    <3>. QED
      BY <1>0, <2>1, <3>2, <3>3, Zenon DEF NumbersOK
  <2>. QED
    BY <2>2, <2>3, Zenon
<1>6. ASSUME NEW c \in Conns, master_handle_replica_out(c)
      PROVE  NumbersOK'
  <2>1. CASE flush_client_output(c) \/ continue_psync(c)
    BY <1>0, <2>1, Zenon DEF NumbersOK, flush_client_output, continue_psync, rdb, hist
  <2>2. CASE master_send_rdb_snapshot(c)
    BY <1>0, <2>2 DEF NumbersOK, master_send_rdb_snapshot
  <2>. QED
    BY <1>6, <2>1, <2>2, Zenon DEF master_handle_replica_out
<1>7. CASE Idle
  BY <1>0, <1>7, Zenon DEF NumbersOK, Idle, rep, rdb, hist
<1>. QED
  BY <1>1, <1>2, <1>4, <1>5, <1>6, <1>7, NextSteps, Zenon DEF Steps

\* What PSYNC answers is no command.
LEMMA PsyncSends ==
    ASSUME TypeInv, NEW c \in Conns, NEW known \in BOOLEAN,
           NEW off \in -1 .. master_repl_offset + 1, Enlist(c, known, off)
    PROVE  \E e \in Seq(Element) : /\ \A i \in 1 .. Len(e) : e[i] \notin Command
                                  /\ sent' = [sent EXCEPT ![c] = sent[c] \o e]
<1>1. sent[c] \in Seq(Element)
  BY Zenon DEF TypeInv, BuffersOK
<1>2. CASE known /\ InWindow(off)
  <2>1. sent' = [sent EXCEPT ![c] = Append(sent[c], Reply("CONTINUE"))]
    BY <1>2, Zenon DEF Enlist
  <2>2. Reply("CONTINUE") \in Element /\ Reply("CONTINUE") \notin Command
    BY Zenon DEF Reply, Element, Command
  <2> DEFINE e == <<Reply("CONTINUE")>>
  <2>3. e \in Seq(Element) /\ \A i \in 1 .. Len(e) : e[i] \notin Command
    BY <2>2
  <2>4. Append(sent[c], Reply("CONTINUE")) = sent[c] \o e
    BY <1>1, <2>2, SMTT(30)
  <2> HIDE DEF e
  <2>. QED
    BY <2>1, <2>3, <2>4, Zenon
<1>3. CASE ~ (known /\ InWindow(off))
  <2> DEFINE f == Fullresync(master_repl_offset)
             h == Header(file'.size)
  <2>1. sent' = [sent EXCEPT ![c] = sent[c] \o <<f, h, HeaderEnd>>]
    BY <1>3, Zenon DEF Enlist
  <2>2. file'.size \in Nat
    BY <1>3, BacklogAssumption DEF Enlist, redis_db_save
  <2>3. f \in Element /\ f \notin Command
    BY Zenon DEF Fullresync, Element, Command, TypeInv, OffsetInv, OffsetsOK
  <2>4. h \in Element /\ h \notin Command
    BY <2>2, Zenon DEF Header, Element, Command
  <2>5. HeaderEnd \in Element /\ HeaderEnd \notin Command
    BY Zenon DEF HeaderEnd, Element, Command
  <2> HIDE DEF f, h
  <2>6. <<f, h, HeaderEnd>> \in Seq(Element)
        /\ \A i \in 1 .. Len(<<f, h, HeaderEnd>>) : <<f, h, HeaderEnd>>[i] \notin Command
    BY <2>3, <2>4, <2>5
  <2>. QED
    BY <2>1, <2>6, Zenon
<1>. QED
  BY <1>2, <1>3, Zenon

\* The parts of the snapshot that one write sends are no commands.
LEMMA PartsTyped ==
    ASSUME TypeInv, NEW c \in Conns, NEW k \in 1 .. file.size - rdb_file_offset[c]
    PROVE  \E e \in Seq(Element) :
              /\ e = [i \in 1 .. k |-> Part(file.version, rdb_file_offset[c] + i)]
              /\ \A i \in 1 .. Len(e) : e[i] \notin Command
<1>1. NumbersOK
  BY Zenon DEF TypeInv
<1>2. file.version \in 0 .. MaxSaves /\ file.size \in {0} \cup RdbSizes
  BY <1>1, Zenon DEF NumbersOK
<1>3. PICK o \in Nat : o = rdb_file_offset[c]
  BY <1>1, Zenon DEF NumbersOK
<1>4. PICK v \in Nat : v = file.version
  BY <1>2, BacklogAssumption
<1>5. \A n \in {0} \cup RdbSizes : n \in Nat
  BY BacklogAssumption
<1>6. file.size \in Nat
  BY <1>2, <1>5, Zenon
<1>7. k \in Nat
  BY <1>3, <1>6
<1>8. \A i \in 1 .. k : o + i \in Nat
  BY <1>3, <1>7
<1>9. \A i \in 1 .. k : Part(v, o + i) \in Element /\ Part(v, o + i) \notin Command
  BY <1>4, <1>8, Zenon DEF Part, Element, Command
<1> DEFINE e == [i \in 1 .. k |-> Part(v, o + i)]
<1>10. e \in Seq(Element) /\ Len(e) = k /\ \A i \in 1 .. k : e[i] \notin Command
  BY <1>7, <1>9
<1>. QED
  BY <1>3, <1>4, <1>10, Zenon

LEMMA BuffersStep == TypeInv /\ [Next]_vars => BuffersOK'
<1> SUFFICES ASSUME TypeInv, [Next]_vars
             PROVE  BuffersOK'
  BY Zenon
<1>0. BuffersOK /\ \A x \in Conns : Len(output[x]) \in Nat
  BY DEF TypeInv, BuffersOK
<1>1. ASSUME NEW c \in Conns, Accept(c)
      PROVE  BuffersOK'
  BY <1>0, <1>1, BacklogAssumption DEF BuffersOK, Accept
<1>2. ASSUME NEW c \in Conns, Hangup(c) \/ handle_save(c)
      PROVE  BuffersOK'
  BY <1>0, <1>2, Zenon DEF BuffersOK, Hangup, handle_save, rep, hist
<1>3. ASSUME NEW c \in Conns, NEW chunk \in Chunks, process_client_input(c, chunk)
      PROVE  BuffersOK'
  <2>1. UNCHANGED sent
    BY <1>3, Zenon DEF process_client_input
  <2>2. CASE ~ Flag(c, chunk)
    BY <1>0, <1>3, <2>1, <2>2, Zenon DEF BuffersOK, process_client_input
  <2>3. CASE Flag(c, chunk)
    <3> DEFINE n == Len(chunk)
               bytes == [i \in 1 .. n |-> Frag(c, chunk[i])]
               got == {r \in Receivers : Fits(r, n)}
    <3>1. output' = [r \in Conns |-> IF r \in got THEN output[r] \o bytes ELSE output[r]]
      BY <1>3, <2>3, Zenon DEF process_client_input, Propagate
    <3>2. n \in Nat
      BY ChunksAssumption, BacklogAssumption
    <3>3. \A i \in 1 .. n : Frag(c, chunk[i]) \in Element
      <4> SUFFICES ASSUME NEW i \in 1 .. n
                   PROVE  Frag(c, chunk[i]) \in Element
        BY Zenon
      <4>1. chunk \in Seq(Fragment)
        BY ChunksAssumption, Zenon
      <4>2. chunk[i] \in Fragment
        BY <4>1
      <4>. QED
        BY <4>2, Zenon DEF Frag, Element, Command, Fragment
    <3>4. bytes \in Seq(Element) /\ Len(bytes) = n
      BY <3>2, <3>3
    <3> HIDE DEF bytes
    <3>5. ASSUME NEW r \in Conns
          PROVE  output'[r] \in Seq(Element) /\ Len(output'[r]) <= OutSize
      <4>1. output[r] \in Seq(Element) /\ Len(output[r]) <= OutSize
        BY <1>0, Zenon DEF BuffersOK
      <4>2. CASE r \in got
        <5>1. output'[r] = output[r] \o bytes /\ Len(output[r]) + n <= OutSize
          BY <3>1, <4>2, Zenon DEF Fits
        <5>2. output[r] \o bytes \in Seq(Element)
              /\ Len(output[r] \o bytes) = Len(output[r]) + Len(bytes)
          BY <3>4, <4>1, SMTT(30)
        <5>. QED
          BY <3>4, <5>1, <5>2, Zenon
      <4>3. CASE r \notin got
        BY <3>1, <4>1, <4>3, Zenon
      <4>. QED
        BY <4>2, <4>3, Zenon
    <3>6. output' \in [Conns -> Seq(Element)]
      BY <3>1, <3>5, Zenon
    <3>. QED
      BY <1>0, <2>1, <3>5, <3>6, Zenon DEF BuffersOK
  <2>. QED
    BY <2>2, <2>3, Zenon
<1>4. ASSUME NEW c \in Conns, NEW known \in BOOLEAN,
             NEW off \in -1 .. master_repl_offset + 1, Enlist(c, known, off)
      PROVE  BuffersOK'
  <2>1. UNCHANGED output /\ sent \in [Conns -> Seq(Element)] /\ sent[c] \in Seq(Element)
    BY <1>0, <1>4, Zenon DEF Enlist, BuffersOK
  <2>3. PICK e \in Seq(Element) : sent' = [sent EXCEPT ![c] = sent[c] \o e]
    BY <1>4, PsyncSends, Zenon
  <2>4. sent[c] \o e \in Seq(Element)
    BY <2>1
  <2>5. sent' \in [Conns -> Seq(Element)]
    BY <2>1, <2>3, <2>4, Zenon
  <2>. QED
    BY <1>0, <2>1, <2>5, Zenon DEF BuffersOK
<1>5. ASSUME NEW c \in Conns, flush_client_output(c)
      PROVE  BuffersOK'
  <2>1. PICK k \in 1 .. Len(output[c]) :
            /\ sent' = [sent EXCEPT ![c] = sent[c] \o SubSeq(output[c], 1, k)]
            /\ output' = [output EXCEPT ![c] = SubSeq(output[c], k + 1, Len(output[c]))]
    BY <1>5, Zenon DEF flush_client_output
  <2>2. output[c] \in Seq(Element) /\ sent[c] \in Seq(Element) /\ Len(output[c]) <= OutSize
        /\ Len(output[c]) \in Nat /\ k \in Nat /\ k >= 1 /\ k <= Len(output[c])
        /\ OutSize \in Nat
    BY <1>0, BacklogAssumption DEF BuffersOK
  <2> DEFINE rest == SubSeq(output[c], k + 1, Len(output[c]))
             first == SubSeq(output[c], 1, k)
  <2>3. first \in Seq(Element)
    BY <2>2
  <2>4. rest \in Seq(Element) /\ Len(rest) = Len(output[c]) - k
    BY <2>2
  <2> HIDE DEF rest, first
  <2>5. sent[c] \o first \in Seq(Element)
    BY <2>2, <2>3
  <2>6. Len(rest) <= OutSize
    BY <2>2, <2>4
  <2>7. sent' = [sent EXCEPT ![c] = sent[c] \o first] /\ output' = [output EXCEPT ![c] = rest]
    BY <2>1, Zenon DEF rest, first
  <2>. QED
    BY <1>0, <2>4, <2>5, <2>6, <2>7, Zenon DEF BuffersOK
<1>6. ASSUME NEW c \in Conns, master_send_rdb_snapshot(c)
      PROVE  BuffersOK'
  <2>1. PICK k \in 1 .. file.size - rdb_file_offset[c] :
            sent' = [sent EXCEPT ![c] =
                       sent[c] \o [i \in 1 .. k |-> Part(file.version, rdb_file_offset[c] + i)]]
    BY <1>6, Zenon DEF master_send_rdb_snapshot
  <2>2. PICK e \in Seq(Element) : e = [i \in 1 .. k |-> Part(file.version, rdb_file_offset[c] + i)]
    BY PartsTyped, Zenon
  <2>5. sent[c] \o e \in Seq(Element)
    BY <1>0, <2>2 DEF BuffersOK
  <2>6. sent' = [sent EXCEPT ![c] = sent[c] \o e]
    BY <2>1, <2>2, Zenon
  <2>7. UNCHANGED output
    BY <1>6, Zenon DEF master_send_rdb_snapshot
  <2>. QED
    BY <1>0, <2>5, <2>6, <2>7, Zenon DEF BuffersOK
<1>7. ASSUME NEW c \in Conns, continue_psync(c)
      PROVE  BuffersOK'
  BY <1>0, <1>7, Zenon DEF BuffersOK, continue_psync, hist
<1>8. CASE Idle
  BY <1>0, <1>8, Zenon DEF BuffersOK, Idle, rep, hist
<1>. QED
  BY <1>1, <1>2, <1>3, <1>4, <1>5, <1>6, <1>7, <1>8, NextSteps, Zenon DEF Steps, master_handle_replica_out

LEMMA TypeStart == Init => TypeInv
<1> SUFFICES ASSUME Init
             PROVE  TypeInv
  BY Zenon
<1>1. ClientsOK
  BY Zenon DEF Init, ClientsOK
<1>2. NumbersOK
  BY BacklogAssumption DEF Init, NumbersOK
<1>3. BuffersOK
  BY BacklogAssumption DEF Init, BuffersOK
<1>4. ArrayInv
  BY BacklogAssumption DEF Init, ArrayInv, ReplicasOnce, Registered, Types
<1>5. OffsetInv
  BY BacklogAssumption
     DEF Init, OffsetInv, OffsetsOK, BacklogWindow, NeverAhead, States, None
<1>. QED
  BY <1>1, <1>2, <1>3, <1>4, <1>5, Zenon DEF TypeInv

LEMMA TypeInvariant == Spec => []TypeInv
<1>1. TypeInv /\ [Next]_vars => TypeInv'
  BY ClientsStep, NumbersStep, BuffersStep, ArrayInvInductive, OffsetInvInductive, Zenon DEF TypeInv
<1>. QED
  BY <1>1, TypeStart, PTL DEF Spec

\* Every field keeps its type, and in particular no replica's output buffer
\* gets more than its size, for every set of connections and every chunk.
THEOREM TypeCorrect == Spec => []TypeOK
<1>1. TypeInv => TypeOK
  BY Zenon DEF TypeInv, TypeOK, ClientsOK, NumbersOK, BuffersOK, ArrayInv, OffsetInv,
         OffsetsOK, Types, States
<1>. QED
  BY <1>1, TypeInvariant, PTL

------------------------------------------------------------------------------
(* The stream of a replica.  A client that has not become one has been sent  *)
(* no command; a replica that is sent the stream, from PSYNC on, has in what  *)
(* was written and in its output buffer the SETs since its snapshot.          *)

StreamOK(c) ==
    /\ snap[c] <= Len(sets)
    /\ Whole(Stream(c))
    /\ Writers(Stream(c)) = SubSeq(sets, snap[c] + 1, Len(sets))

Followed(c) == type[c] = "replica" /\ c \notin missed /\ state[c] # "corrupt"

ClientStream(c) ==
    /\ type[c] = "regular" => output[c] = <<>> /\ Filter(sent[c], Command) = <<>>
    /\ Followed(c) => StreamOK(c)

StreamInv == \A c \in Conns : ClientStream(c)

WholeReads == \A chunk \in Chunks : WholeRead(chunk)

LEMMA WritersType ==
    ASSUME NEW s \in Seq(Element)
    PROVE  Writers(s) \in Seq(Conns) /\ Len(Writers(s)) = Len(Filter(s, SetEnds))
<1>1. PICK d \in Seq(Element \cap SetEnds) : d = Filter(s, SetEnds)
  BY FilterType, Zenon
<1>2. \A e \in Element \cap SetEnds : e.from \in Conns
  BY Zenon DEF SetEnds, Command
<1>3. \A i \in 1 .. Len(d) : d[i].from \in Conns
  <2> TAKE i \in 1 .. Len(d)
  <2>1. d[i] \in Element \cap SetEnds
    BY ElementOfSeq, Zenon
  <2> QED
    BY <1>2, <2>1, Zenon
<1>4. [i \in 1 .. Len(d) |-> d[i].from] \in Seq(Conns)
  BY <1>3
<1> QED
  BY <1>1, <1>4 DEF Writers

LEMMA WritersConcat ==
    ASSUME NEW s \in Seq(Element), NEW t \in Seq(Element)
    PROVE  Writers(s \o t) = Writers(s) \o Writers(t)
<1>1. PICK d \in Seq(Element) : d = Filter(s, SetEnds)
  BY FilterType, Zenon
<1>2. PICK e \in Seq(Element) : e = Filter(t, SetEnds)
  BY FilterType, Zenon
<1>3. Filter(s \o t, SetEnds) = d \o e
  <2>1. Joins(s, t)
    BY FilterJoin, Zenon
  <2>2. Filter(s \o t, SetEnds) = Filter(s, SetEnds) \o Filter(t, SetEnds)
    BY <2>1, Zenon DEF Joins
  <2> QED
    BY <1>1, <1>2, <2>2, Zenon
<1> DEFINE v == [i \in 1 .. Len(d) |-> d[i].from]
           w == [i \in 1 .. Len(e) |-> e[i].from]
           u == [i \in 1 .. Len(d \o e) |-> (d \o e)[i].from]
<1>4. Writers(s) = v /\ Writers(t) = w /\ Writers(s \o t) = u
  BY <1>1, <1>2, <1>3, Zenon DEF Writers
<1>5. v \in Seq(Conns) /\ Len(v) = Len(d) /\ w \in Seq(Conns) /\ Len(w) = Len(e)
  BY <1>1, <1>2, <1>4, WritersType, Zenon
<1>6. Len(d \o e) = Len(d) + Len(e)
      /\ \A i \in 1 .. Len(d) + Len(e) : (d \o e)[i] = IF i <= Len(d) THEN d[i] ELSE e[i - Len(d)]
  BY ConcatProperties, Zenon
<1>7. s \o t \in Seq(Element)
  BY ConcatProperties, Zenon
<1>8. u \in Seq(Conns) /\ Len(u) = Len(d) + Len(e)
  BY <1>3, <1>4, <1>6, <1>7, WritersType, Zenon
<1>9. v \o w \in Seq(Conns) /\ Len(v \o w) = Len(d) + Len(e)
      /\ \A i \in 1 .. Len(d) + Len(e) : (v \o w)[i] = IF i <= Len(d) THEN v[i] ELSE w[i - Len(d)]
  <2>1. v \o w \in Seq(Conns) /\ Len(v \o w) = Len(v) + Len(w)
        /\ \A i \in 1 .. Len(v) + Len(w) : (v \o w)[i] = IF i <= Len(v) THEN v[i] ELSE w[i - Len(v)]
    <3> HIDE DEF v, w
    <3> QED
      BY <1>5, ConcatProperties, Zenon
  <2> HIDE DEF v, w
  <2> QED
    BY <1>5, <2>1, Zenon
<1>10. ASSUME NEW i \in 1 .. Len(d) + Len(e) PROVE u[i] = (v \o w)[i]
  <2>1. u[i] = (d \o e)[i].from
    BY <1>6, Zenon
  <2>2. CASE i <= Len(d)
    <3>1. i \in 1 .. Len(d) /\ (d \o e)[i] = d[i] /\ (v \o w)[i] = v[i]
      BY <1>6, <1>9, <2>2
    <3> QED
      BY <2>1, <3>1, Zenon
  <2>3. CASE ~ (i <= Len(d))
    <3>1. i - Len(d) \in 1 .. Len(e)
      BY <2>3
    <3>2. (d \o e)[i] = e[i - Len(d)] /\ (v \o w)[i] = w[i - Len(d)]
      BY <1>6, <1>9, <2>3, Zenon
    <3> QED
      BY <2>1, <3>1, <3>2, Zenon
  <2> QED
    BY <2>2, <2>3, Zenon
<1> HIDE DEF u, v, w
<1>11. u = v \o w
  BY <1>8, <1>9, <1>10, SeqEqual, Zenon
<1> QED
  BY <1>4, <1>11, Zenon

\* Whole commands after whole commands.
LEMMA WholeConcat ==
    ASSUME NEW S, NEW s \in Seq(S), NEW t \in Seq(S), Whole(s), Whole(t)
    PROVE  Whole(s \o t)
<1> DEFINE m == Len(s)
           n == Len(t)
           u == s \o t
<1>1. /\ m \in Nat /\ n \in Nat /\ u \in Seq(S) /\ Len(u) = m + n
      /\ DOMAIN s = 1 .. m /\ DOMAIN t = 1 .. n /\ DOMAIN u = 1 .. m + n
      /\ \A i \in 1 .. m : u[i] = s[i]
      /\ \A i \in 1 .. n : u[m + i] = t[i]
  OBVIOUS
<1>2. ASSUME NEW i \in DOMAIN u
      PROVE  IF u[i].part = 1 THEN i < Len(u) => Halves(u[i], u[i + 1])
             ELSE i > 1 /\ Halves(u[i - 1], u[i])
  <2>1. CASE i < m
    <3>1. i \in DOMAIN s /\ i + 1 \in 1 .. m /\ i \in 1 .. m /\ u[i] = s[i] /\ u[i + 1] = s[i + 1]
      BY <1>1, <2>1
    <3>2. i > 1 => i - 1 \in 1 .. m /\ u[i - 1] = s[i - 1] /\ (i - 1) + 1 = i
      BY <1>1, <2>1
    <3> HIDE DEF u
    <3> QED
      BY <1>1, <2>1, <3>1, <3>2, Zenon DEF Whole, WellFormed
  <2>2. CASE i = m
    <3>1. i \in DOMAIN s /\ i \in 1 .. m /\ u[i] = s[i] /\ s # <<>> /\ s[m].part = 2
      BY <1>1, <2>2 DEF Whole, Last
    <3>2. i > 1 => i - 1 \in 1 .. m /\ u[i - 1] = s[i - 1] /\ (i - 1) + 1 = i
      BY <1>1, <2>2
    <3> HIDE DEF u
    <3> QED
      <4>1. ~ (s[i].part = 1)
        BY <2>2, <3>1
      <4>2. i > 1 /\ Halves(s[i - 1], s[i])
        BY <3>1, <4>1, Zenon DEF Whole, WellFormed
      <4> QED
        BY <3>1, <3>2, <4>1, <4>2, Zenon
  <2>3. CASE i > m
    <3>1. PICK j \in 1 .. n : i = m + j
      <4>1. i - m \in 1 .. n /\ i = m + (i - m)
        BY <1>1, <2>3
      <4> QED
        BY <4>1, Zenon
    <3>2. /\ u[i] = t[j] /\ j \in DOMAIN t /\ (i < Len(u) <=> j < n) /\ (i - 1) + 1 = i
      BY <1>1, <3>1
    <3>3. j < n => u[i + 1] = t[j + 1]
      <4> HAVE j < n
      <4>1. j + 1 \in 1 .. n /\ i + 1 = m + (j + 1)
        BY <1>1, <3>1
      <4> QED
        BY <1>1, <4>1
    <3>4. j > 1 => i > 1 /\ u[i - 1] = t[j - 1] /\ (j - 1) + 1 = j
      <4> HAVE j > 1
      <4>1. j - 1 \in 1 .. n /\ i - 1 = m + (j - 1) /\ i > 1 /\ (j - 1) + 1 = j
        BY <1>1, <3>1
      <4> QED
        BY <1>1, <4>1, Zenon
    <3> HIDE DEF u
    <3> QED
      BY <1>1, <3>2, <3>3, <3>4, Zenon DEF Whole, WellFormed
  <2> QED
    BY <1>1, <2>1, <2>2, <2>3
<1>3. WellFormed(u)
  BY <1>2, Zenon DEF WellFormed
<1>4. u # <<>> => Last(u).part = 2
  <2>1. CASE n = 0
    BY <1>1, <2>1 DEF Whole, Last
  <2>2. CASE n > 0
    <3>1. u[m + n] = t[n] /\ t # <<>>
      BY <1>1, <2>2
    <3> HIDE DEF u
    <3> QED
      BY <1>1, <3>1, Zenon DEF Whole, Last
  <2> QED
    BY <1>1, <2>1, <2>2
<1> QED
  BY <1>3, <1>4, Zenon DEF Whole

OnlyCommands(b) == Filter(b, Command) = b

\* The bytes that a chunk of whole commands adds to a stream.
Bytes(c, chunk) == [i \in 1 .. Len(chunk) |-> Frag(c, chunk[i])]

LEMMA BytesWhole ==
    ASSUME NEW c \in Conns, NEW chunk \in Chunks, WholeRead(chunk)
    PROVE  /\ Bytes(c, chunk) \in Seq(Element) /\ OnlyCommands(Bytes(c, chunk))
           /\ Whole(Bytes(c, chunk))
           /\ Writers(Bytes(c, chunk)) = [i \in 1 .. Len(SetsIn(chunk)) |-> c]
<1> DEFINE n == Len(chunk)
           b == Bytes(c, chunk)
<1>1. chunk \in Seq(Fragment) /\ n \in Nat /\ n > 0 /\ DOMAIN chunk = 1 .. n
  BY ChunksAssumption, BacklogAssumption
<1>2. \A i \in 1 .. n : chunk[i] \in Fragment
  BY <1>1
<1>3. \A f \in Fragment : /\ Frag(c, f) \in Command /\ Frag(c, f).part = f.part
                          /\ Frag(c, f).from = c
                          /\ Frag(c, f) \in SetEnds <=> EndsSet(f)
  BY Zenon DEF Fragment, Frag, Command, SetEnds, EndsSet
<1>4. \A f, g \in Fragment : Halves(f, g) => Halves(Frag(c, f), Frag(c, g))
  BY DEF Fragment, Frag, Halves
<1>5. b \in Seq(Command) /\ Len(b) = n /\ DOMAIN b = 1 .. n
      /\ \A i \in 1 .. n : b[i] = Frag(c, chunk[i])
  BY <1>1, <1>2, <1>3 DEF Bytes
<1> HIDE DEF b
<1>6. b \in Seq(Element)
  <2>1. Command \subseteq Element
    BY Zenon DEF Element
  <2> QED
    BY <1>5, <2>1, SeqMonotonic, Zenon
<1>10. OnlyCommands(b)
  <2>1. \A i \in 1 .. Len(b) : b[i] \in Command
    BY <1>2, <1>3, <1>5
  <2> QED
    BY <1>6, <2>1, FilterAll, Zenon DEF OnlyCommands
<1>7. WellFormed(b)
  <2> SUFFICES ASSUME NEW i \in 1 .. n
               PROVE  IF b[i].part = 1 THEN i < Len(b) => Halves(b[i], b[i + 1])
                      ELSE i > 1 /\ Halves(b[i - 1], b[i])
    BY <1>5, Zenon DEF WellFormed
  <2>1. IF chunk[i].part = 1 THEN i < n => Halves(chunk[i], chunk[i + 1])
        ELSE i > 1 /\ Halves(chunk[i - 1], chunk[i])
    BY <1>1, Zenon DEF WholeRead, Whole, WellFormed
  <2>2. b[i].part = chunk[i].part
    BY <1>2, <1>3, <1>5, Zenon
  <2>3. CASE chunk[i].part = 1
    <3> SUFFICES ASSUME i < n PROVE Halves(b[i], b[i + 1])
      BY <1>5, <2>2, <2>3, Zenon
    <3>1. i + 1 \in 1 .. n
      BY <1>1
    <3> QED
      BY <1>2, <1>4, <1>5, <2>1, <2>3, <3>1, Zenon
  <2>4. CASE chunk[i].part # 1
    <3>1. i > 1 /\ Halves(chunk[i - 1], chunk[i])
      BY <2>1, <2>4, Zenon
    <3>2. i - 1 \in 1 .. n
      BY <1>1, <3>1
    <3>3. Halves(b[i - 1], b[i])
      BY <1>2, <1>4, <1>5, <3>1, <3>2, Zenon
    <3> QED
      BY <2>2, <2>4, <3>1, <3>3, Zenon
  <2> QED
    BY <2>3, <2>4, Zenon
<1>8. Last(b).part = 2
  <2>1. chunk[n].part = 2
    BY <1>1 DEF WholeRead, Whole, Last
  <2> QED
    BY <1>1, <1>2, <1>3, <1>5, <2>1 DEF Last
<1>9. Writers(b) = [i \in 1 .. Len(SetsIn(chunk)) |-> c]
  <2> DEFINE T == {f \in Fragment : EndsSet(f)}
  <2>1. PICK d \in Seq(Command \cap SetEnds) : d = Filter(b, SetEnds)
    BY <1>5, FilterType, Zenon
  <2>2. \A i \in 1 .. n : b[i] \in SetEnds <=> chunk[i] \in T
    BY <1>2, <1>3, <1>5, Zenon
  <2>3. Len(Filter(b, SetEnds)) = Len(Filter(chunk, T))
    <3> HIDE DEF T
    <3> QED
      BY <1>1, <1>5, <2>2, FilterSameLen
  <2>4. Len(d) = Len(SetsIn(chunk))
    BY <2>1, <2>3, Zenon DEF SetsIn
  <2>5. Members(d) \subseteq Members(b)
    BY <1>5, <2>1, FilterMembers, Zenon
  <2>6. \A i \in 1 .. Len(d) : d[i].from = c
    <3> TAKE i \in 1 .. Len(d)
    <3>1. d[i] \in Members(b)
      BY <2>5, Zenon DEF Members
    <3>2. PICK j \in 1 .. n : d[i] = b[j]
      BY <1>5, <3>1, Zenon DEF Members
    <3> QED
      BY <1>2, <1>3, <1>5, <3>2, Zenon
  <2>7. Writers(b) = [i \in 1 .. Len(d) |-> d[i].from]
    BY <2>1, Zenon DEF Writers
  <2>8. [i \in 1 .. Len(d) |-> d[i].from] = [i \in 1 .. Len(d) |-> c]
    BY <2>6, Zenon
  <2> QED
    BY <2>4, <2>7, <2>8, Zenon
<1> QED
  BY <1>6, <1>7, <1>8, <1>9, <1>10, Zenon DEF Whole, b

\* Reads that are whole set the flag if they have a SET, and only then.
LEMMA FlagWhole ==
    ASSUME NEW c \in Conns, NEW chunk \in Chunks, WholeRead(chunk), ~ Flag(c, chunk)
    PROVE  SetsIn(chunk) = <<>>
<1> DEFINE T == {f \in Fragment : f.part = 2}
<1>1. chunk \in Seq(Fragment) /\ Len(chunk) \in Nat /\ chunk # <<>>
      /\ chunk[Len(chunk)] \in Fragment
  BY ChunksAssumption, BacklogAssumption
<1>2. chunk[Len(chunk)] \in T
  BY <1>1, Zenon DEF WholeRead, Whole, Last
<1>3. Filter(chunk, T) # <<>> /\ Filter(chunk, T)[Len(Filter(chunk, T))] = chunk[Len(chunk)]
  <2> HIDE DEF T
  <2> QED
    BY <1>1, <1>2, FilterLast, Zenon
<1>4. Completed(chunk) # <<>> /\ Last(Completed(chunk)) = Last(chunk)
  BY <1>3, Zenon DEF Completed, Last
<1> QED
  BY <1>4, Zenon DEF Flag, WholeRead

\* Sequences of elements, cut and joined.
LEMMA ElementsJoin ==
    \A s, t \in Seq(Element) :
        /\ s \o t \in Seq(Element)
        /\ Filter(s \o t, Command) = Filter(s, Command) \o Filter(t, Command)
<1> TAKE s, t \in Seq(Element)
<1>1. s \o t \in Seq(Element)
  BY ConcatProperties, Zenon
<1>2. Joins(s, t)
  BY FilterJoin, Zenon
<1>3. Filter(s \o t, Command) = Filter(s, Command) \o Filter(t, Command)
  BY <1>2, Zenon DEF Joins
<1> QED
  BY <1>1, <1>3, Zenon

LEMMA ElementsAssociate ==
    \A s, t, u \in Seq(Element) : (s \o t) \o u = s \o (t \o u)
BY ConcatAssociative, SMTT(30)

LEMMA LongerFilter ==
    ASSUME NEW s \in Seq(Element), NEW t \in Seq(Element), NEW u \in Seq(Element)
    PROVE  Filter(s \o (t \o u), Command) = Filter(s \o t, Command) \o Filter(u, Command)
<1>1. (s \o t) \o u = s \o (t \o u)
  BY ElementsAssociate, Zenon
<1>2. PICK v \in Seq(Element) : v = s \o t
  BY ElementsJoin, Zenon
<1>3. Filter(v \o u, Command) = Filter(v, Command) \o Filter(u, Command)
  BY ElementsJoin, Zenon
<1> QED
  BY <1>1, <1>2, <1>3, Zenon

LEMMA ElementsCut ==
    \A s \in Seq(Element) : \A k \in 1 .. Len(s) :
        \E a, b \in Seq(Element) :
            a = SubSeq(s, 1, k) /\ b = SubSeq(s, k + 1, Len(s)) /\ a \o b = s
<1> TAKE s \in Seq(Element)
<1> TAKE k \in 1 .. Len(s)
<1>1. k \in 0 .. Len(s)
  OBVIOUS
<1>2. SubSeq(s, 1, k) \in Seq(Element) /\ SubSeq(s, k + 1, Len(s)) \in Seq(Element)
      /\ SubSeq(s, 1, k) \o SubSeq(s, k + 1, Len(s)) = s
  BY <1>1, SplitAt, Zenon
<1> QED
  BY <1>2, Zenon

\* A step that changes neither the SETs nor the stream of x, and does not make
\* x a client that is watched.
LEMMA SameStream ==
    ASSUME NEW x \in Conns, ClientStream(x), UNCHANGED sets,
           sent'[x] = sent[x], output'[x] = output[x], snap'[x] = snap[x],
           type'[x] = "regular" => type[x] = "regular", Followed(x)' => Followed(x)
    PROVE  ClientStream(x)'
BY Zenon DEF ClientStream, StreamOK, Stream

LEMMA NoStream ==
    /\ \A T : Filter(<<>>, T) = <<>>
    /\ Whole(<<>>) /\ Writers(<<>>) = <<>>
<1>1. \A T : Filter(<<>>, T) = <<>>
  <2> TAKE T
  <2>1. <<>> \in Seq({})
    OBVIOUS
  <2> DEFINE s == <<>>
  <2>2. s \in Seq({}) /\ Len(s) = 0 /\ \A i \in 1 .. Len(s) : s[i] \notin T
    BY <2>1
  <2> HIDE DEF s
  <2>3. Filter(s, T) = <<>>
    BY <2>2, FilterNone, Zenon
  <2> QED
    BY <2>3, Zenon DEF s
<1>2. Whole(<<>>)
  BY DEF Whole, WellFormed
<1>3. Writers(<<>>) = <<>>
  BY <1>1 DEF Writers
<1> QED
  BY <1>1, <1>2, <1>3, Zenon

\* A chunk of which b are the bytes and more the senders of its SETs is
\* executed and goes to the output buffer of x.
Longer(x, b, more) ==
    /\ sets' = sets \o more
    /\ sent'[x] = sent[x] /\ output'[x] = output[x] \o b /\ snap'[x] = snap[x]

\* The stream of a replica that has room is longer by the chunk.
LEMMA LongerStream ==
    ASSUME TypeInv, NEW x \in Conns, StreamOK(x), NEW b \in Seq(Element),
           OnlyCommands(b), Whole(b), NEW more \in Seq(Conns), Writers(b) = more,
           Longer(x, b, more)
    PROVE  StreamOK(x)'
<1>1. PICK s \in Seq(Element) : s = sent[x]
  BY Zenon DEF TypeInv, BuffersOK
<1>2. PICK o \in Seq(Element) : o = output[x]
  BY Zenon DEF TypeInv, BuffersOK
<1>0. Filter(s \o (o \o b), Command) = Filter(s \o o, Command) \o Filter(b, Command)
  BY LongerFilter, ZenonT(30)
<1>3. PICK r \in Seq(Conns) : r = sets
  BY Zenon DEF TypeInv, NumbersOK
<1>4. PICK m \in 0 .. Len(r) : m = snap[x]
  <2>1. snap[x] \in Nat /\ Len(sets) \in Nat /\ snap[x] <= Len(sets)
    BY DEF TypeInv, NumbersOK, StreamOK
  <2> QED
    BY <1>3, <2>1
<1>5. PICK a \in Seq(Element) : a = s \o o
  BY ConcatProperties, Zenon
<1>6. PICK f \in Seq(Element) : f = Filter(a, Command)
  BY FilterType, Zenon
<1>7. Stream(x) = f /\ Whole(f) /\ Writers(f) = SubSeq(r, m + 1, Len(r))
  BY <1>1, <1>2, <1>3, <1>4, <1>5, <1>6, Zenon DEF StreamOK, Stream
<1>8. Stream(x)' = f \o b
  <2>4. Stream(x)' = Filter(s \o (o \o b), Command)
    BY <1>1, <1>2, Zenon DEF Stream, Longer
  <2> QED
    BY <1>0, <1>5, <1>6, <2>4, Zenon DEF OnlyCommands
<1>9. Whole(f \o b)
  BY <1>7, WholeConcat, Zenon
<1>10. Writers(f \o b) = Writers(f) \o Writers(b)
  BY WritersConcat, Zenon
<1>11. SubSeq(r \o more, m + 1, Len(r \o more)) = SubSeq(r, m + 1, Len(r)) \o more
  BY SuffixConcat, Zenon
<1>12. sets' = r \o more /\ snap'[x] = m
  BY <1>3, <1>4, Zenon DEF Longer
<1>13. m <= Len(r \o more)
  <2>1. Len(r \o more) = Len(r) + Len(more) /\ Len(r) \in Nat /\ Len(more) \in Nat
    BY ConcatProperties
  <2> QED
    BY <2>1
<1>14. Whole(Stream(x)') /\ Writers(Stream(x)') = SubSeq(r \o more, m + 1, Len(r \o more))
  BY <1>7, <1>8, <1>9, <1>10, <1>11, Zenon
<1> QED
  BY <1>12, <1>13, <1>14, Zenon DEF StreamOK

LEMMA InputStream ==
    ASSUME WholeReads, TypeInv, StreamInv, NEW c \in Conns, NEW chunk \in Chunks,
           process_client_input(c, chunk)
    PROVE  StreamInv'
<1> SUFFICES ASSUME NEW x \in Conns PROVE ClientStream(x)'
  BY Zenon DEF StreamInv
<1>1. ClientStream(x) /\ WholeRead(chunk)
  BY Zenon DEF StreamInv, WholeReads
<1>2. PICK r \in Seq(Conns) : r = sets
  BY Zenon DEF TypeInv, NumbersOK
<1>3. UNCHANGED <<sent, snap, state, replicas>> /\ type[c] = "regular"
      /\ sets' = r \o [i \in 1 .. Len(SetsIn(chunk)) |-> c]
  BY <1>2, Zenon DEF process_client_input
<1>4. CASE ~ Flag(c, chunk)
  <2>1. SetsIn(chunk) = <<>>
    BY <1>1, <1>4, FlagWhole, Zenon
  <2>2. sets' = r \o <<>>
    BY <1>3, <2>1
  <2>3. sets' = sets
    BY <1>2, <2>2, ConcatEmptySeq, Zenon
  <2>4. UNCHANGED <<type, output, missed>>
    BY <1>4, Zenon DEF process_client_input
  <2> QED
    BY <1>1, <1>3, <2>3, <2>4, SameStream, Zenon DEF Followed
<1>5. CASE Flag(c, chunk)
  <2> DEFINE n == Len(chunk)
             got == {y \in Receivers : Fits(y, n)}
             full == Receivers \ got
  <2>1. /\ output' = [y \in Conns |-> IF y \in got THEN output[y] \o Bytes(c, chunk) ELSE output[y]]
        /\ type' = type \/ type' = [type EXCEPT ![c] = "closed"]
        /\ missed' = missed \cup full
    <3>1. type \in [Conns -> Types]
      BY Zenon DEF TypeInv, ArrayInv
    <3> QED
      BY <1>5, <3>1, Zenon DEF process_client_input, Propagate, Bytes
  <2>2. \A y \in Conns : type[y] = "replica" <=> y \in Registered
    BY Zenon DEF TypeInv, ArrayInv, ReplicasOnce
  <2>3. type \in [Conns -> Types] /\ (type'[x] = "regular" => type[x] = "regular")
        /\ (type'[x] = "replica" => type[x] = "replica")
    BY <2>1, Zenon DEF TypeInv, ArrayInv
  <2>4. CASE type'[x] = "regular"
    <3>1. x \notin got
      BY <2>2, <2>3, <2>4, Zenon DEF Receivers
    <3>2. output'[x] = output[x]
      BY <2>1, <3>1, Zenon
    <3> QED
      BY <1>1, <1>3, <2>3, <2>4, <3>2, Zenon DEF ClientStream, Followed
  <2>5. CASE Followed(x)'
    <3>1. type[x] = "replica" /\ x \notin missed /\ x \notin full /\ state[x] # "corrupt"
      BY <1>3, <2>1, <2>3, <2>5, Zenon DEF Followed
    <3>2. x \in got
      BY <2>2, <3>1, Zenon DEF Receivers
    <3>3. StreamOK(x)
      BY <1>1, <3>1, Zenon DEF ClientStream, Followed
    <3>4. PICK b \in Seq(Element) : b = Bytes(c, chunk)
      BY <1>1, BytesWhole, Zenon
    <3>5. PICK more \in Seq(Conns) : more = [i \in 1 .. Len(SetsIn(chunk)) |-> c]
      <4>1. chunk \in Seq(Fragment)
        BY ChunksAssumption, Zenon
      <4>2. SetsIn(chunk) \in Seq(Fragment)
        BY <4>1, FilterType, Zenon DEF SetsIn
      <4>3. [i \in 1 .. Len(SetsIn(chunk)) |-> c] \in Seq(Conns)
        BY <4>2
      <4> QED
        BY <4>3, Zenon
    <3>6. OnlyCommands(b) /\ Whole(b) /\ Writers(b) = more
      BY <1>1, <3>4, <3>5, BytesWhole, Zenon
    <3>7. Longer(x, b, more)
      BY <1>2, <1>3, <2>1, <3>2, <3>4, <3>5, Zenon DEF Longer
    <3>8. StreamOK(x)'
      BY <3>3, <3>6, <3>7, LongerStream, Zenon
    <3>9. type'[x] # "regular"
      BY <2>5, Zenon DEF Followed
    <3> QED
      BY <3>8, <3>9, Zenon DEF ClientStream
  <2>6. CASE type'[x] # "regular" /\ ~ Followed(x)'
    BY <2>6, Zenon DEF ClientStream
  <2> QED
    BY <2>4, <2>5, <2>6, Zenon
<1> QED
  BY <1>4, <1>5, Zenon

LEMMA PsyncStream ==
    ASSUME TypeInv, StreamInv, NEW c \in Conns, NEW known \in BOOLEAN,
           NEW off \in -1 .. master_repl_offset + 1, Enlist(c, known, off)
    PROVE  StreamInv'
<1> SUFFICES ASSUME NEW x \in Conns PROVE ClientStream(x)'
  BY Zenon DEF StreamInv
<1>1. PICK e \in Seq(Element) : /\ \A i \in 1 .. Len(e) : e[i] \notin Command
                               /\ sent' = [sent EXCEPT ![c] = sent[c] \o e]
  BY PsyncSends, Zenon
<1>2. /\ type[c] = "regular" /\ type' = [type EXCEPT ![c] = "replica"]
      /\ snap' = [snap EXCEPT ![c] = Len(sets)]
      /\ UNCHANGED <<output, sets, missed>>
      /\ \A y \in Conns \ {c} : state'[y] = state[y]
  <2>1. state \in [Conns -> States]
    BY Zenon DEF TypeInv, OffsetInv, OffsetsOK
  <2> QED
    BY <2>1, Zenon DEF Enlist, add_replica
<1>3. type \in [Conns -> Types] /\ sent \in [Conns -> Seq(Element)] /\ snap \in [Conns -> Nat]
  BY Zenon DEF TypeInv, ArrayInv, BuffersOK, NumbersOK
<1>4. CASE x # c
  <2>1. ClientStream(x)
    BY Zenon DEF StreamInv
  <2>2. sent'[x] = sent[x] /\ snap'[x] = snap[x] /\ type'[x] = type[x] /\ state'[x] = state[x]
    BY <1>1, <1>2, <1>3, <1>4, Zenon
  <2> QED
    BY <1>2, <2>1, <2>2, SameStream, Zenon DEF Followed
<1>5. CASE x = c
  <2>1. output[c] = <<>> /\ Filter(sent[c], Command) = <<>>
    BY <1>2, Zenon DEF StreamInv, ClientStream
  <2>2. PICK s \in Seq(Element) : s = sent[c]
    BY <1>3, Zenon
  <2>3. Filter(s \o e, Command) = <<>>
    <3>1. Filter(s \o e, Command) = Filter(s, Command) \o Filter(e, Command)
      BY ElementsJoin, Zenon
    <3>2. Filter(e, Command) = <<>>
      BY <1>1, FilterNone, Zenon
    <3> QED
      BY <2>1, <2>2, <3>1, <3>2
  <2>4. (s \o e) \o <<>> = s \o e
    BY ConcatProperties, ConcatEmptySeq
  <2>5. sent'[x] = s \o e /\ output'[x] = <<>> /\ type'[x] = "replica" /\ snap'[x] = Len(sets)
    BY <1>1, <1>2, <1>3, <1>5, <2>1, <2>2, Zenon
  <2>6. Stream(x)' = <<>>
    BY <2>3, <2>4, <2>5, Zenon DEF Stream
  <2>7. SubSeq(sets, Len(sets) + 1, Len(sets)) = <<>> /\ Len(sets) \in Nat
    BY DEF TypeInv, NumbersOK
  <2>8. StreamOK(x)'
    <3>1. sets' = sets /\ snap'[x] <= Len(sets)
      BY <1>2, <2>5, <2>7
    <3>2. SubSeq(sets', snap'[x] + 1, Len(sets')) = <<>>
      BY <2>5, <2>7, <3>1, Zenon
    <3>3. Whole(Stream(x)') /\ Writers(Stream(x)') = <<>>
      BY <2>6, NoStream, Zenon
    <3> QED
      BY <3>1, <3>2, <3>3, Zenon DEF StreamOK
  <2> QED
    BY <2>5, <2>8, Zenon DEF ClientStream
<1> QED
  BY <1>4, <1>5, Zenon

\* What goes out to the socket of a replica, whichever state it is in, leaves
\* its stream as it is.
LEMMA OutStream ==
    ASSUME TypeInv, StreamInv, NEW c \in Conns, master_handle_replica_out(c)
    PROVE  StreamInv'
<1> SUFFICES ASSUME NEW x \in Conns PROVE ClientStream(x)'
  BY Zenon DEF StreamInv
<1>0. ClientStream(x) /\ sent \in [Conns -> Seq(Element)] /\ output \in [Conns -> Seq(Element)]
      /\ state \in [Conns -> States] /\ type \in [Conns -> Types]
  BY Zenon DEF StreamInv, TypeInv, BuffersOK, OffsetInv, OffsetsOK, ArrayInv
<1>1. ASSUME UNCHANGED <<sets, snap, missed, type>>, type[c] = "replica",
             \A y \in Conns \ {c} :
                sent'[y] = sent[y] /\ output'[y] = output[y] /\ state'[y] = state[y],
             state[c] # "corrupt", Stream(c)' = Stream(c)
      PROVE  ClientStream(x)'
  BY <1>0, <1>1, Zenon DEF ClientStream, StreamOK, Stream, Followed
<1>2. PICK s \in Seq(Element) : s = sent[c]
  BY <1>0, Zenon
<1>3. PICK o \in Seq(Element) : o = output[c]
  BY <1>0, Zenon
<1>4. CASE flush_client_output(c)
  <2>1. PICK k \in 1 .. Len(o) :
            /\ sent' = [sent EXCEPT ![c] = s \o SubSeq(o, 1, k)]
            /\ output' = [output EXCEPT ![c] = SubSeq(o, k + 1, Len(o))]
    BY <1>2, <1>3, <1>4, Zenon DEF flush_client_output
  <2>2. PICK a, b \in Seq(Element) : a = SubSeq(o, 1, k) /\ b = SubSeq(o, k + 1, Len(o)) /\ a \o b = o
    BY ElementsCut, Zenon
  <2>5. (s \o a) \o b = s \o (a \o b)
    BY ElementsAssociate, ZenonT(30)
  <2>6. sent'[c] = s \o a /\ output'[c] = b
    BY <1>0, <2>1, <2>2, Zenon
  <2>7. Stream(c)' = Stream(c)
    BY <1>2, <1>3, <2>2, <2>5, <2>6, Zenon DEF Stream
  <2> QED
    BY <1>0, <1>1, <1>4, <2>1, <2>7, Zenon DEF flush_client_output, Writable, conn
<1>5. CASE master_send_rdb_snapshot(c)
  <2>1. PICK k \in 1 .. file.size - rdb_file_offset[c] :
            sent' = [sent EXCEPT ![c] =
                       s \o [i \in 1 .. k |-> Part(file.version, rdb_file_offset[c] + i)]]
    BY <1>2, <1>5, Zenon DEF master_send_rdb_snapshot
  <2>2. PICK e \in Seq(Element) :
            /\ e = [i \in 1 .. k |-> Part(file.version, rdb_file_offset[c] + i)]
            /\ \A i \in 1 .. Len(e) : e[i] \notin Command
    BY PartsTyped, Zenon
  <2>3. Filter(e, Command) = <<>>
    BY <2>2, FilterNone, Zenon
  <2>4. PICK f \in Seq(Element) : f = Filter(s, Command)
    BY FilterType, Zenon
  <2>5. Filter((s \o e) \o o, Command) = Filter(s \o o, Command)
    <3>1. PICK d \in Seq(Element) : d = s \o e
      BY ElementsJoin, Zenon
    <3>2. Filter(d \o o, Command) = Filter(d, Command) \o Filter(o, Command)
      BY ElementsJoin, Zenon
    <3>3. Filter(s \o e, Command) = Filter(s, Command) \o Filter(e, Command)
      BY ElementsJoin, Zenon
    <3>4. Filter(s \o o, Command) = Filter(s, Command) \o Filter(o, Command)
      BY ElementsJoin, Zenon
    <3>5. f \o <<>> = f
      BY ConcatEmptySeq, Zenon
    <3> QED
      BY <2>3, <2>4, <3>1, <3>2, <3>3, <3>4, <3>5, Zenon
  <2>6. sent'[c] = s \o e /\ UNCHANGED output
    BY <1>0, <1>5, <2>1, <2>2, Zenon DEF master_send_rdb_snapshot
  <2>7. Stream(c)' = Stream(c)
    BY <1>2, <1>3, <2>5, <2>6, Zenon DEF Stream
  <2>8. \A y \in Conns \ {c} : sent'[y] = sent[y] /\ state'[y] = state[y]
    BY <1>0, <1>5, <2>1, Zenon DEF master_send_rdb_snapshot
  <2> QED
    BY <1>1, <1>5, <2>6, <2>7, <2>8, Zenon DEF master_send_rdb_snapshot, Writable, conn
<1>6. CASE continue_psync(c)
  <2>1. UNCHANGED <<sets, snap, sent, output, missed>> /\ state[c] = "PSYNC"
        /\ type[c] = "replica"
        /\ (type' = type \/ type' = [type EXCEPT ![c] = "closed"])
        /\ \A y \in Conns \ {c} : state'[y] = state[y]
    BY <1>0, <1>6, Zenon DEF continue_psync, hist, Writable
  <2> QED
    BY <1>0, <2>1, SameStream, Zenon DEF Followed
<1> QED
  BY <1>4, <1>5, <1>6, Zenon DEF master_handle_replica_out

LEMMA StreamStart == Init => StreamInv
<1> SUFFICES ASSUME Init, NEW x \in Conns PROVE ClientStream(x)
  BY Zenon DEF StreamInv
<1>1. type[x] = "closed"
  BY Zenon DEF Init
<1> QED
  BY <1>1, Zenon DEF ClientStream, Followed

LEMMA StreamStep == WholeReads /\ TypeInv /\ StreamInv /\ [Next]_vars => StreamInv'
<1> SUFFICES ASSUME WholeReads, TypeInv, StreamInv, [Next]_vars PROVE StreamInv'
  BY Zenon
<1>1. ASSUME NEW c \in Conns, Accept(c) PROVE StreamInv'
  <2> SUFFICES ASSUME NEW x \in Conns PROVE ClientStream(x)'
    BY Zenon DEF StreamInv
  <2>1. ClientStream(x) /\ sent \in [Conns -> Seq(Element)] /\ output \in [Conns -> Seq(Element)]
        /\ state \in [Conns -> States] /\ type \in [Conns -> Types]
    BY Zenon DEF StreamInv, TypeInv, BuffersOK, OffsetInv, OffsetsOK, ArrayInv
  <2>2. CASE x = c
    BY <1>1, <2>1, <2>2, NoStream, Zenon DEF Accept, ClientStream, Followed
  <2>3. CASE x # c
    BY <1>1, <2>1, <2>3, SameStream, Zenon DEF Accept, Followed
  <2> QED
    BY <2>2, <2>3, Zenon
<1>2. ASSUME NEW c \in Conns, Hangup(c) \/ handle_save(c) PROVE StreamInv'
  <2> SUFFICES ASSUME NEW x \in Conns PROVE ClientStream(x)'
    BY Zenon DEF StreamInv
  <2>1. ClientStream(x) /\ type \in [Conns -> Types]
    BY Zenon DEF StreamInv, TypeInv, ArrayInv
  <2>2. UNCHANGED <<sets, snap, sent, output, missed, state>>
        /\ (type' = type \/ type' = [type EXCEPT ![c] = "closed"])
    BY <1>2, Zenon DEF Hangup, handle_save, rep, hist
  <2> QED
    BY <2>1, <2>2, SameStream, Zenon DEF Followed
<1>3. ASSUME NEW c \in Conns, NEW chunk \in Chunks, process_client_input(c, chunk)
      PROVE  StreamInv'
  BY <1>3, InputStream, Zenon
<1>4. ASSUME NEW c \in Conns, NEW known \in BOOLEAN,
             NEW off \in -1 .. master_repl_offset + 1, Enlist(c, known, off)
      PROVE  StreamInv'
  BY <1>4, PsyncStream, Zenon
<1>5. ASSUME NEW c \in Conns, master_handle_replica_out(c)
      PROVE  StreamInv'
  BY <1>5, OutStream, Zenon
<1>6. CASE Idle
  BY <1>6, Zenon DEF Idle, conn, rep, hist, StreamInv, ClientStream, Followed, StreamOK, Stream
<1> QED
  BY <1>1, <1>2, <1>3, <1>4, <1>5, <1>6, NextSteps, Zenon DEF Steps

\* If the reads of the clients are whole, a replica is sent, after its
\* snapshot, whole commands that make it execute the SETs executed since, each
\* once and in order, for every number of clients and replicas, however the
\* socket cuts the stream and however the snapshot is sent.
THEOREM StreamCompleteCorrect ==
    ASSUME WholeReads
    PROVE  Spec => []StreamComplete
<1>1. TypeInv /\ StreamInv /\ [Next]_vars => StreamInv'
  BY StreamStep, Zenon
<1>2. TypeInv /\ StreamInv => StreamComplete
  <2> SUFFICES ASSUME TypeInv, StreamInv, NEW c \in Registered \ missed,
                      state[c] \in {"SENDING_RDB_DATA", "PROPAGATE"}
               PROVE  /\ WellFormed(Stream(c))
                      /\ Writers(Stream(c)) = SubSeq(sets, snap[c] + 1, Len(sets))
    BY Zenon DEF StreamComplete
  <2>1. c \in Conns /\ type[c] = "replica"
    BY DEF TypeInv, ArrayInv, ReplicasOnce, Registered
  <2>2. StreamOK(c)
    BY <2>1, Zenon DEF StreamInv, ClientStream, Followed
  <2>. QED
    BY <2>2, Zenon DEF StreamOK, Whole
<1>. QED
  BY <1>1, <1>2, StreamStart, TypeInvariant, PTL DEF Spec
==============================================================================
