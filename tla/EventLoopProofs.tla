--------------------------- MODULE EventLoopProofs ---------------------------
(***************************************************************************)
(* EventLoop for every number of connections, every size of a batch and    *)
(* every number of requests: no event of a batch is dispatched to a client *)
(* that was freed.                                                         *)
(***************************************************************************)
EXTENDS EventLoop, SequenceLemmas, TLAPS

\* The connections that wait are not yet clients, and each waits once.
QueueOK ==
    /\ Distinct(queue)
    /\ \A c \in Members(queue) : peer[c] # "none" /\ type[c] = "none"
    /\ \A c \in Conns : peer[c] = "none" => type[c] = "none"

\* What is registered with epoll is alive, and registered once.
OrderOK == Distinct(order) /\ \A f \in Members(order) : f = Listen \/ Live(f)

\* The events that are left point to different descriptors, all alive.  That
\* they are different is why the handler of one can free its own client.
BatchOK ==
    /\ \A i, j \in 1 .. Len(events) : events[i].ptr = events[j].ptr => i = j
    /\ \A i \in 1 .. Len(events) : events[i].ptr = Listen \/ Live(events[i].ptr)
    /\ \A i \in 1 .. Len(events) : events[i].ptr = Listen => queue # <<>>

LoopInv == FieldsOK /\ QueueOK /\ OrderOK /\ BatchOK

------------------------------------------------------------------------------
(* What the handlers have in common *)

\* A handler lets no client die but those in G, and takes these from epoll.
Frees(G) ==
    /\ \A c \in Conns : Live(c) /\ c \notin G => Live(c)'
    /\ order' = Filter(order, Fds \ G)

\* It makes and unmakes no connection.
SamePeers ==
    /\ queue' = queue
    /\ \A c \in Conns : peer'[c] = "none" <=> peer[c] = "none"
    /\ \A c \in Conns : type'[c] = "none" <=> type[c] = "none"

LEMMA NoneFreed ==
    ASSUME order \in Seq(Fds), order' = order, \A c \in Conns : Live(c) => Live(c)'
    PROVE  Frees({})
<1>1. \A i \in 1 .. Len(order) : order[i] \in Fds \ {}
  OBVIOUS
<1>2. Filter(order, Fds \ {}) = order
  BY <1>1, FilterAll, Zenon
<1> QED
  BY <1>2, Zenon DEF Frees

LEMMA QueueKept ==
    ASSUME QueueOK, queue \in Seq(Conns), SamePeers
    PROVE  QueueOK'
BY DEF QueueOK, SamePeers, Members

LEMMA OrderKept ==
    ASSUME FieldsOK, OrderOK, NEW G \in SUBSET Conns, Frees(G)
    PROVE  OrderOK' /\ order' \in Seq(Fds)
<1>1. order \in Seq(Fds)
  BY Zenon DEF FieldsOK
<1>2. /\ Members(order') = Members(order) \cap (Fds \ G)
      /\ Distinct(order')
  BY <1>1, FilterMembers, Zenon DEF Frees, OrderOK
<1>3. order' \in Seq(Fds)
  BY <1>1, FilterType, Zenon DEF Frees
<1>4. ASSUME NEW f \in Members(order') PROVE f = Listen \/ Live(f)'
  <2>1. f \in Members(order) /\ f \in Fds /\ f \notin G
    BY <1>2, Zenon
  <2> QED
    BY <2>1, Zenon DEF OrderOK, Frees, Fds
<1> QED
  BY <1>2, <1>3, <1>4, Zenon DEF OrderOK

\* The first event is used up, and its handler frees its client at most.
LEMMA BatchKept ==
    ASSUME FieldsOK, BatchOK, events # <<>>, events' = Tail(events),
           NEW G, G \subseteq {Head(events).ptr}, Frees(G), queue' = queue
    PROVE  BatchOK'
<1> DEFINE E == [ptr : Fds, out : BOOLEAN]
<1>1. events \in Seq(E)
  BY Zenon DEF FieldsOK
<1> HIDE DEF E
<1>2. /\ Len(events) \in Nat /\ Len(events') = Len(events) - 1
      /\ Head(events) = events[1]
      /\ \A i \in 1 .. Len(events') : events'[i] = events[i + 1]
  BY <1>1, TailFacts
<1>3. \A i \in 1 .. Len(events') : i + 1 \in 1 .. Len(events) /\ i + 1 # 1
  BY <1>2
<1>4. 1 \in 1 .. Len(events)
  BY <1>1
<1>5. ASSUME NEW i \in 1 .. Len(events')
      PROVE  events'[i].ptr = Listen \/ Live(events[i].ptr)'
  <2>1. events[i + 1] \in E
    BY <1>1, <1>3
  <2>2. events[i + 1].ptr \in Fds /\ events[i + 1].ptr # events[1].ptr
    BY <1>3, <1>4, <2>1, Zenon DEF BatchOK, E
  <2>3. events[i + 1].ptr \notin G
    BY <1>2, <2>2, Zenon
  <2>4. events[i + 1].ptr = Listen \/ Live(events[i + 1].ptr)
    BY <1>3, Zenon DEF BatchOK
  <2>5. PICK f \in Fds : f = events[i + 1].ptr
    BY <2>2, Zenon
  <2>6. f = Listen \/ Live(f)'
    BY <2>3, <2>4, <2>5, Zenon DEF Frees, Fds
  <2> QED
    BY <1>2, <2>5, <2>6, Zenon DEF Live
<1>6. ASSUME NEW i \in 1 .. Len(events'), NEW j \in 1 .. Len(events'),
             events'[i].ptr = events'[j].ptr
      PROVE  i = j
  <2>1. i + 1 = j + 1
    BY <1>2, <1>3, <1>6 DEF BatchOK
  <2> QED
    BY <2>1
<1>7. ASSUME NEW i \in 1 .. Len(events'), events'[i].ptr = Listen PROVE queue' # <<>>
  BY <1>2, <1>3, <1>7, Zenon DEF BatchOK
<1> QED
  BY <1>5, <1>6, <1>7, Zenon DEF BatchOK

------------------------------------------------------------------------------
(* The handlers *)

\* The fields a handler changes.
HandledOK ==
    /\ peer \in [Conns -> {"none", "open", "closed", "reset"}]
    /\ unread \in [Conns -> Seq(Requests)]
    /\ type \in [Conns -> {"none", "regular", "replica", "freed"}]
    /\ epollout \in [Conns -> BOOLEAN] /\ filled \in [Conns -> BOOLEAN]
    /\ sending \in [Conns -> {"snapshot", "backlog", "nothing"}]
    /\ output \in [Conns -> 0 .. OutSize]
    /\ status \in {"running", "exited", "killed"}

\* What holds after the handler of an event of the client c.
Handled(c) ==
    /\ HandledOK' /\ SamePeers /\ asked' = asked
    /\ writes' \in Nat /\ writes' >= writes
    /\ \E G \in SUBSET {c} : Frees(G)

LEMMA WrittenKeeps ==
    ASSUME FieldsOK, NEW c \in Conns, NEW some, peer[c] # "none", Written(c, some)
    PROVE  /\ peer' \in [Conns -> {"none", "open", "closed", "reset"}]
           /\ status' \in {"running", "exited", "killed"}
           /\ \A x \in Conns : peer'[x] = "none" <=> peer[x] = "none"
<1>1. /\ peer \in [Conns -> {"none", "open", "closed", "reset"}]
      /\ status \in {"running", "exited", "killed"}
  BY Zenon DEF FieldsOK
<1>2. peer' = peer \/ peer' = [peer EXCEPT ![c] = "reset"]
  BY Zenon DEF Written
<1>3. status' = status \/ status' = "killed"
  BY Zenon DEF Written
<1> QED
  BY <1>1, <1>2, <1>3, Zenon

LEMMA Propagated ==
    ASSUME FieldsOK, NEW c \in Conns, peer[c] # "none", type[c] = "regular",
           NEW n \in Nat, Propagate(c, n)
    PROVE  /\ peer' \in [Conns -> {"none", "open", "closed", "reset"}]
           /\ status' \in {"running", "exited", "killed"}
           /\ \A x \in Conns : peer'[x] = "none" <=> peer[x] = "none"
           /\ type' \in [Conns -> {"none", "regular", "replica", "freed"}]
           /\ epollout' \in [Conns -> BOOLEAN] /\ filled' = filled /\ sending' = sending
           /\ output' \in [Conns -> 0 .. OutSize]
           /\ \A x \in Conns : type'[x] = "none" <=> type[x] = "none"
           /\ \E G \in SUBSET {c} : Frees(G)
<1> DEFINE full == {r \in Replicas : ~ Fits(r, n)}
           gone == Dropped(c, full)
<1>1. /\ type \in [Conns -> {"none", "regular", "replica", "freed"}]
      /\ epollout \in [Conns -> BOOLEAN] /\ output \in [Conns -> 0 .. OutSize]
      /\ peer \in [Conns -> {"none", "open", "closed", "reset"}]
      /\ status \in {"running", "exited", "killed"}
  BY Zenon DEF FieldsOK
<1>2. gone \in SUBSET {c}
  BY Zenon DEF Dropped
<1>3. /\ output' = [r \in Conns |-> IF r \in Replicas \ full THEN output[r] + n ELSE output[r]]
      /\ epollout' = [r \in Conns |-> epollout[r] \/ r \in Replicas \ full]
      /\ type' = [r \in Conns |-> IF r \in gone THEN "freed" ELSE type[r]]
      /\ order' = Filter(order, Fds \ gone)
      /\ filled' = filled /\ sending' = sending
      /\ \/ Written(c, TRUE)
         \/ status' \in {status, "killed"} /\ UNCHANGED peer
  BY Zenon DEF Propagate, client_enable_write_events
<1>4. \A r \in Replicas \ full : output[r] + n <= OutSize
  BY Zenon DEF Fits
<1> HIDE DEF full, gone
<1>5. output' \in [Conns -> 0 .. OutSize]
  BY <1>1, <1>3, <1>4, LoopAssumption
<1>6. epollout' \in [Conns -> BOOLEAN]
  BY <1>1, <1>3, Zenon
<1>7. type' \in [Conns -> {"none", "regular", "replica", "freed"}]
  BY <1>1, <1>3, Zenon
<1>8. \A x \in Conns : type'[x] = "none" <=> type[x] = "none"
  BY <1>1, <1>2, <1>3, Zenon
<1>9. Frees(gone)
  BY <1>1, <1>3, Zenon DEF Frees, Live
<1>10. /\ peer' \in [Conns -> {"none", "open", "closed", "reset"}]
       /\ status' \in {"running", "exited", "killed"}
       /\ \A x \in Conns : peer'[x] = "none" <=> peer[x] = "none"
  BY <1>1, <1>3, WrittenKeeps, Zenon
<1> QED
  BY <1>2, <1>3, <1>5, <1>6, <1>7, <1>8, <1>9, <1>10, Zenon

LEMMA InputHandled ==
    ASSUME LoopInv, NEW c \in Conns, type[c] = "regular", process_client_input(c)
    PROVE  Handled(c)
<1>1. HandledOK /\ FieldsOK /\ order \in Seq(Fds) /\ writes \in Nat
  BY Zenon DEF LoopInv, FieldsOK, HandledOK
<1>2. peer[c] # "none"
  BY Zenon DEF LoopInv, QueueOK
<1>3. unread[c] \in Seq(Requests) /\ Len(unread[c]) \in Nat
  BY <1>1 DEF HandledOK
<1>11. CASE Ignored
  <2>1. UNCHANGED <<peer, unread, asked, queue, type, epollout, filled, sending, output, order,
                    writes, status>>
    BY <1>11, Zenon DEF Ignored, net, clients
  <2>2. Frees({}) /\ {} \in SUBSET {c}
    BY <1>1, <2>1, NoneFreed, Zenon DEF Live
  <2>3. writes' \in Nat /\ writes' >= writes
    BY <1>1, <2>1
  <2> QED
    BY <1>1, <2>1, <2>2, <2>3, Zenon DEF Handled, HandledOK, SamePeers
<1> SUFFICES ASSUME ~ Ignored PROVE Handled(c)
  BY <1>11, Zenon
<1>4. asked' = asked /\ queue' = queue /\ unread' = [unread EXCEPT ![c] = <<>>]
      /\ writes' = writes + Len(Filter(unread[c], {"SET"}))
  BY Zenon DEF process_client_input
<1>5. unread' \in [Conns -> Seq(Requests)]
  BY <1>1, <1>4 DEF HandledOK
<1>6. writes' \in Nat /\ writes' >= writes
  <2>1. PICK s \in Seq(Requests) : s = unread[c]
    BY <1>3, Zenon
  <2>2. Filter(s, {"SET"}) \in Seq(Requests)
    BY FilterType, Zenon
  <2>3. Len(Filter(s, {"SET"})) \in Nat
    BY <2>2
  <2> QED
    BY <1>1, <1>4, <2>1, <2>3
<1>7. CASE Propagate(c, Len(unread[c]))
  <2>1. /\ peer' \in [Conns -> {"none", "open", "closed", "reset"}]
        /\ status' \in {"running", "exited", "killed"}
        /\ \A x \in Conns : peer'[x] = "none" <=> peer[x] = "none"
        /\ type' \in [Conns -> {"none", "regular", "replica", "freed"}]
        /\ epollout' \in [Conns -> BOOLEAN] /\ filled' = filled /\ sending' = sending
        /\ output' \in [Conns -> 0 .. OutSize]
        /\ \A x \in Conns : type'[x] = "none" <=> type[x] = "none"
        /\ \E G \in SUBSET {c} : Frees(G)
    BY <1>1, <1>2, <1>3, <1>7, Propagated, Zenon
  <2> QED
    BY <1>1, <1>4, <1>5, <1>6, <2>1, Zenon DEF Handled, HandledOK, SamePeers
<1>8. CASE Synchronise(c)
  <2>1. /\ peer' \in [Conns -> {"none", "open", "closed", "reset"}]
        /\ status' \in {"running", "exited", "killed"}
        /\ \A x \in Conns : peer'[x] = "none" <=> peer[x] = "none"
    BY <1>1, <1>2, <1>8, WrittenKeeps, Zenon DEF Synchronise
  <2>2. /\ type' \in [Conns -> {"none", "regular", "replica", "freed"}]
        /\ epollout' \in [Conns -> BOOLEAN] /\ filled' = filled
        /\ sending' \in [Conns -> {"snapshot", "backlog", "nothing"}]
        /\ output' = output /\ order' = order
        /\ \A x \in Conns : type'[x] = "none" <=> type[x] = "none"
    BY <1>1, <1>8, Zenon DEF Synchronise, HandledOK, client_enable_write_events
  <2>3. \A x \in Conns : Live(x) => Live(x)'
    BY <1>1, <1>8, Zenon DEF Synchronise, HandledOK, Live
  <2>4. Frees({}) /\ {} \in SUBSET {c}
    BY <1>1, <2>2, <2>3, NoneFreed, Zenon
  <2> QED
    BY <1>1, <1>4, <1>5, <1>6, <2>1, <2>2, <2>4, Zenon DEF Handled, HandledOK, SamePeers
<1>9. CASE handle_client_disconnection(c) /\ UNCHANGED <<peer, status>>
  <2>1. /\ type' \in [Conns -> {"none", "regular", "replica", "freed"}]
        /\ \A x \in Conns : type'[x] = "none" <=> type[x] = "none"
        /\ UNCHANGED <<epollout, filled, sending, output, peer, status>>
    BY <1>1, <1>9, Zenon DEF handle_client_disconnection, HandledOK
  <2>2. Frees({c})
    BY <1>1, <1>9, Zenon DEF handle_client_disconnection, HandledOK, Frees, Live
  <2> QED
    BY <1>1, <1>4, <1>5, <1>6, <2>1, <2>2, Zenon DEF Handled, HandledOK, SamePeers
<1>10. CASE peer' = [peer EXCEPT ![c] = "closed"] /\ UNCHANGED <<clients, order, status>>
  <2>1. UNCHANGED <<type, epollout, filled, sending, output>> /\ order' = order
    BY <1>10, Zenon DEF clients
  <2>2. Frees({}) /\ {} \in SUBSET {c}
    BY <1>1, <2>1, NoneFreed, Zenon DEF Live
  <2>3. /\ peer' \in [Conns -> {"none", "open", "closed", "reset"}]
        /\ \A x \in Conns : peer'[x] = "none" <=> peer[x] = "none"
    BY <1>1, <1>2, <1>10, Zenon DEF HandledOK
  <2> QED
    BY <1>1, <1>4, <1>5, <1>6, <1>10, <2>1, <2>2, <2>3, Zenon DEF Handled, HandledOK, SamePeers
<1>12. CASE Fill(c)
  <2>1. UNCHANGED <<peer, type, sending, output, order, status>>
    BY <1>12, Zenon DEF Fill
  <2>2. epollout' \in [Conns -> BOOLEAN] /\ filled' \in [Conns -> BOOLEAN]
    BY <1>1, <1>12, Zenon DEF Fill, HandledOK, client_enable_write_events
  <2>3. Frees({}) /\ {} \in SUBSET {c}
    BY <1>1, <2>1, NoneFreed, Zenon DEF Live
  <2> QED
    BY <1>1, <1>4, <1>5, <1>6, <2>1, <2>2, <2>3, Zenon DEF Handled, HandledOK, SamePeers
<1> QED
  BY <1>7, <1>8, <1>9, <1>10, <1>12, Zenon DEF process_client_input

\* A partial resynchronisation may free the replica whose event it is.
LEMMA PsyncHandled ==
    ASSUME LoopInv, NEW c \in Conns, type[c] = "replica", continue_psync(c),
           UNCHANGED <<unread, asked, queue, writes>>
    PROVE  Handled(c)
<1>1. HandledOK /\ FieldsOK /\ order \in Seq(Fds) /\ writes \in Nat
  BY Zenon DEF LoopInv, FieldsOK, HandledOK
<1>2. peer' = peer /\ status' \in {"running", "exited", "killed"}
  BY <1>1, Zenon DEF continue_psync, HandledOK
<1>3. writes' \in Nat /\ writes' >= writes
  BY <1>1
<1>4. CASE handle_client_disconnection(c) /\ UNCHANGED status
  <2>1. /\ type' \in [Conns -> {"none", "regular", "replica", "freed"}]
        /\ \A x \in Conns : type'[x] = "none" <=> type[x] = "none"
        /\ UNCHANGED <<epollout, filled, sending, output>>
    BY <1>1, <1>4, Zenon DEF handle_client_disconnection, HandledOK
  <2>2. Frees({c})
    BY <1>1, <1>4, Zenon DEF handle_client_disconnection, HandledOK, Frees, Live
  <2> QED
    BY <1>1, <1>2, <1>3, <2>1, <2>2, Zenon DEF Handled, HandledOK, SamePeers
<1>5. CASE UNCHANGED <<type, filled, output, order>>
  <2>1. epollout' \in [Conns -> BOOLEAN]
          /\ sending' \in [Conns -> {"snapshot", "backlog", "nothing"}]
    BY <1>1, Zenon DEF continue_psync, handle_client_disconnection, HandledOK, clients,
                client_disable_write_events
  <2>2. Frees({}) /\ {} \in SUBSET {c}
    BY <1>1, <1>5, NoneFreed, Zenon DEF Live
  <2> QED
    BY <1>1, <1>2, <1>3, <1>5, <2>1, <2>2, Zenon DEF Handled, HandledOK, SamePeers
<1> QED
  BY <1>4, <1>5, Zenon DEF continue_psync, clients

LEMMA OutHandled ==
    ASSUME LoopInv, NEW c \in Conns, type[c] = "replica",
           master_handle_replica_out(c) \/ Ignored
    PROVE  Handled(c)
<1>1. HandledOK /\ FieldsOK /\ order \in Seq(Fds) /\ writes \in Nat
  BY Zenon DEF LoopInv, FieldsOK, HandledOK
<1>2. peer[c] # "none"
  BY Zenon DEF LoopInv, QueueOK
<1>3. UNCHANGED <<unread, asked, queue, writes>>
  BY Zenon DEF master_handle_replica_out, Ignored, net
<1>4. CASE continue_psync(c)
  BY <1>3, <1>4, PsyncHandled, Zenon
<1> SUFFICES ASSUME ~ continue_psync(c) PROVE Handled(c)
  BY <1>4, Zenon
<1>5. UNCHANGED <<type, filled, order>>
  BY Zenon DEF master_handle_replica_out, Ignored, clients
<1>6. Frees({}) /\ {} \in SUBSET {c}
  BY <1>1, <1>5, NoneFreed, Zenon DEF Live
<1>7. /\ peer' \in [Conns -> {"none", "open", "closed", "reset"}]
      /\ status' \in {"running", "exited", "killed"}
      /\ \A x \in Conns : peer'[x] = "none" <=> peer[x] = "none"
  <2>1. CASE master_handle_replica_out(c)
    <3>1. Written(c, TRUE) \/ Written(c, output[c] > 0)
      BY <2>1, Zenon DEF master_handle_replica_out
    <3> QED
      BY <1>1, <1>2, <3>1, WrittenKeeps, Zenon
  <2>2. CASE Ignored
    BY <1>1, <2>2, Zenon DEF Ignored, HandledOK, net
  <2> QED
    BY <2>1, <2>2, Zenon
<1>8. epollout' \in [Conns -> BOOLEAN]
        /\ sending' \in [Conns -> {"snapshot", "backlog", "nothing"}]
  BY <1>1, Zenon DEF master_handle_replica_out, Ignored, HandledOK, clients,
              client_disable_write_events
<1>9. output' \in [Conns -> 0 .. OutSize]
  <2>1. output \in [Conns -> 0 .. OutSize] /\ output[c] \in 0 .. OutSize /\ OutSize \in Nat
    BY <1>1, LoopAssumption, Zenon DEF HandledOK
  <2>2. output' = output \/ \E k \in 0 .. output[c] : output' = [output EXCEPT ![c] = output[c] - k]
    BY Zenon DEF master_handle_replica_out, Ignored, clients
  <2> QED
    BY <2>1, <2>2
<1>10. writes' \in Nat /\ writes' >= writes
  BY <1>1, <1>3
<1> QED
  BY <1>1, <1>3, <1>5, <1>6, <1>7, <1>8, <1>9, <1>10, Zenon DEF Handled, HandledOK, SamePeers

\* A connection that waits becomes a client.
LEMMA AcceptKeeps ==
    ASSUME LoopInv, events # <<>>, events' = Tail(events), Head(events).ptr = Listen, accept,
           UNCHANGED <<pc, stop_server, late, saved>>
    PROVE  LoopInv'
<1> DEFINE E == [ptr : Fds, out : BOOLEAN]
<1>1. FieldsOK /\ events \in Seq(E) /\ queue \in Seq(Conns) /\ order \in Seq(Fds)
  BY Zenon DEF LoopInv, FieldsOK
<1> HIDE DEF E
<1>2. /\ Len(events) \in Nat /\ Len(events') = Len(events) - 1 /\ events' \in Seq(E)
      /\ Head(events) = events[1]
      /\ \A i \in 1 .. Len(events') : events'[i] = events[i + 1]
  BY <1>1, TailFacts
<1>3. 1 \in 1 .. Len(events)
  BY <1>1
<1>4. \A i \in 1 .. Len(events') : i + 1 \in 1 .. Len(events) /\ i + 1 # 1
  BY <1>2
<1>5. queue # <<>>
  BY <1>2, <1>3, Zenon DEF LoopInv, BatchOK
<1>6. PICK c \in Conns :
      /\ c = Head(queue) /\ c \in Members(queue) /\ queue' \in Seq(Conns)
      /\ Members(queue') \subseteq Members(queue) /\ Distinct(queue') /\ c \notin Members(queue')
  BY <1>1, <1>5, TailFacts, Zenon DEF accept, LoopInv, QueueOK
<1>7. peer[c] # "none" /\ type[c] = "none"
  BY <1>6, Zenon DEF LoopInv, QueueOK
<1>8. /\ type' = [type EXCEPT ![c] = "regular"] /\ order' = Append(order, c)
      /\ UNCHANGED <<peer, unread, asked, epollout, filled, sending, output, writes, status>>
  BY <1>6, Zenon DEF accept
<1>9. c \in Fds /\ c # Listen /\ c \notin Members(order)
  BY <1>6, <1>7, LoopAssumption, Zenon DEF LoopInv, OrderOK, Fds, Listen, Live
<1>10. /\ order' \in Seq(Fds) /\ Members(order') = Members(order) \cup {c} /\ Distinct(order')
  <2>1. Append(order, c) \in Seq(Fds)
    BY <1>1, <1>9
  <2>2. /\ Members(Append(order, c)) = Members(order) \cup {c}
        /\ Distinct(order) /\ c \notin Members(order) => Distinct(Append(order, c))
    BY <1>1, <1>9, AppendMembers, Zenon
  <2> QED
    BY <1>8, <1>9, <2>1, <2>2, Zenon DEF LoopInv, OrderOK
<1>11. type' \in [Conns -> {"none", "regular", "replica", "freed"}]
         /\ \A x \in Conns : type'[x] = IF x = c THEN "regular" ELSE type[x]
  BY <1>1, <1>6, <1>8, Zenon DEF FieldsOK
<1>12. \A x \in Conns : Live(x) => Live(x)'
  BY <1>7, <1>11, Zenon DEF Live
<1>13. FieldsOK'
  <2>1. Len(events') <= MaxEvents
    BY <1>1, <1>2, LoopAssumption DEF FieldsOK
  <2> QED
    BY <1>1, <1>2, <1>6, <1>8, <1>10, <1>11, <2>1, Zenon DEF FieldsOK, E
<1>14. QueueOK'
  <2>1. \A x \in Members(queue') : x \in Conns
    BY <1>6 DEF Members
  <2> QED
    BY <1>6, <1>7, <1>8, <1>11, <2>1, Zenon DEF LoopInv, QueueOK
<1>15. OrderOK'
  <2>1. \A f \in Members(order) : f \in Fds
    BY <1>1 DEF Members
  <2>2. Live(c)'
    BY <1>6, <1>11, Zenon DEF Live
  <2> QED
    BY <1>10, <1>12, <2>1, <2>2, Zenon DEF LoopInv, OrderOK, Fds
<1>16. BatchOK'
  <2>1. ASSUME NEW i \in 1 .. Len(events')
        PROVE  events'[i].ptr # Listen /\ Live(events[i].ptr)'
    <3>1. events[i + 1] \in E
      BY <1>1, <1>4
    <3>2. events[i + 1].ptr \in Fds /\ events[i + 1].ptr # events[1].ptr
      BY <1>3, <1>4, <3>1, Zenon DEF LoopInv, BatchOK, E
    <3>3. PICK f \in Fds : f = events[i + 1].ptr
      BY <3>2, Zenon
    <3>4. f # Listen /\ Live(f)
      BY <1>2, <1>4, <3>2, <3>3, Zenon DEF LoopInv, BatchOK
    <3>5. Live(f)'
      BY <1>12, <3>4, Zenon DEF Fds
    <3> QED
      BY <1>2, <3>3, <3>4, <3>5, Zenon DEF Live
  <2>2. ASSUME NEW i \in 1 .. Len(events'), NEW j \in 1 .. Len(events'),
               events'[i].ptr = events'[j].ptr
        PROVE  i = j
    <3>1. i + 1 = j + 1
      BY <1>2, <1>4, <2>2 DEF LoopInv, BatchOK
    <3> QED
      BY <3>1
  <2> QED
    BY <2>1, <2>2, Zenon DEF BatchOK
<1> QED
  BY <1>13, <1>14, <1>15, <1>16, Zenon DEF LoopInv

\* The handlers of the other events.
LEMMA DispatchKeeps ==
    ASSUME LoopInv, Dispatch
    PROVE  LoopInv'
<1> DEFINE E == [ptr : Fds, out : BOOLEAN]
           f == Head(events).ptr
<1>1. /\ events # <<>> /\ events' = Tail(events) /\ UNCHANGED <<pc, stop_server, late, saved>>
  BY Zenon DEF Dispatch, More
<1>2. FieldsOK /\ events \in Seq(E)
  BY Zenon DEF LoopInv, FieldsOK
<1>3. CASE f = Listen /\ accept
  BY <1>1, <1>3, AcceptKeeps, Zenon
<1>4. CASE f # Listen /\ ~ (f = Listen /\ accept)
  <2>1. f \in Conns
    <3> HIDE DEF E
    <3>1. Head(events) \in E
      BY <1>1, <1>2, TailFacts, Zenon
    <3> QED
      BY <1>4, <3>1, Zenon DEF E, Fds
  <2>2. Handled(f)
    BY <1>4, <2>1, InputHandled, OutHandled, Zenon DEF Dispatch
  <2>3. PICK G \in SUBSET {f} : Frees(G)
    BY <2>2, Zenon DEF Handled
  <2>4. QueueOK'
    BY <1>2, <2>2, QueueKept, Zenon DEF Handled, LoopInv, FieldsOK
  <2>5. OrderOK' /\ order' \in Seq(Fds)
    BY <1>2, <2>1, <2>3, OrderKept, Zenon DEF LoopInv
  <2>6. BatchOK'
    BY <1>1, <1>2, <2>2, <2>3, BatchKept, Zenon DEF Handled, SamePeers, LoopInv
  <2>7. events' \in Seq(E) /\ Len(events') <= MaxEvents
    <3> HIDE DEF E
    <3>1. Tail(events) \in Seq(E) /\ Len(Tail(events)) = Len(events) - 1 /\ Len(events) \in Nat
      BY <1>1, <1>2, TailFacts
    <3> QED
      BY <1>1, <1>2, <3>1, LoopAssumption DEF FieldsOK
  <2>8. saved' \in 0 .. writes' /\ writes' \in Nat
    BY <1>1, <1>2, <2>2 DEF Handled, FieldsOK
  <2>9. FieldsOK'
    BY <1>1, <1>2, <2>2, <2>5, <2>7, <2>8, Zenon DEF FieldsOK, Handled, HandledOK, SamePeers
  <2> QED
    BY <2>4, <2>5, <2>6, <2>9, Zenon DEF LoopInv
<1> QED
  BY <1>3, <1>4, Zenon DEF Dispatch

------------------------------------------------------------------------------
(* The batch *)

\* What is reported are different descriptors that are registered and ready.
LEMMA EpollKeeps ==
    ASSUME LoopInv, epoll_wait
    PROVE  LoopInv'
<1>1. /\ FieldsOK /\ order \in Seq(Fds) /\ OrderOK
      /\ UNCHANGED <<peer, unread, asked, queue, type, epollout, filled, sending, output,
                     stop_server, late, writes, saved, status>>
      /\ pc' = "dispatch"
  BY Zenon DEF LoopInv, FieldsOK, epoll_wait, net, clients
<1>2. PICK ready \in Seq(Fds) : ready = Filter(order, Awake)
  BY <1>1, FilterType, Zenon
<1>3. Members(ready) = Members(order) \cap Awake /\ Distinct(ready)
  BY <1>1, <1>2, FilterMembers, Zenon DEF OrderOK
<1>4. PICK n \in 1 .. MaxEvents :
        /\ n <= Len(ready)
        /\ events' = [i \in 1 .. n |-> [ptr |-> SubSeq(ready, 1, n)[i],
                                        out |-> Out(SubSeq(ready, 1, n)[i])]]
        /\ order' = Filter(order, Fds \ Members(SubSeq(ready, 1, n))) \o SubSeq(ready, 1, n)
  BY <1>2, Zenon DEF epoll_wait
<1>5. PICK hits \in Seq(Fds) :
        /\ hits = SubSeq(ready, 1, n) /\ Len(hits) = n
        /\ \A i \in 1 .. n : hits[i] = ready[i]
  <2>1. n \in Nat /\ 1 <= n
    BY LoopAssumption
  <2>2. /\ SubSeq(ready, 1, n) \in Seq(Fds) /\ Len(SubSeq(ready, 1, n)) = n
        /\ \A i \in 1 .. n : SubSeq(ready, 1, n)[i] = ready[i]
    BY <1>4, <2>1
  <2> QED
    BY <2>2, Zenon
<1>6. \A i \in 1 .. n : i \in 1 .. Len(ready)
  BY <1>4, LoopAssumption
<1>7. Distinct(hits) /\ Members(hits) \subseteq Members(ready)
  BY <1>3, <1>5, <1>6 DEF Distinct, Members
<1>8. ASSUME NEW i \in 1 .. n
      PROVE  /\ hits[i] \in Fds /\ hits[i] \in Awake /\ (hits[i] = Listen \/ Live(hits[i]))
             /\ events'[i].ptr = hits[i] /\ events'[i] \in [ptr : Fds, out : BOOLEAN]
  <2>1. hits[i] \in Fds /\ hits[i] \in Members(hits)
    BY <1>5 DEF Members
  <2>2. hits[i] \in Awake /\ (hits[i] = Listen \/ Live(hits[i]))
    BY <1>1, <1>3, <1>7, <2>1, Zenon DEF OrderOK
  <2>3. Out(hits[i]) \in BOOLEAN
    BY Zenon DEF Out
  <2>4. events'[i] = [ptr |-> hits[i], out |-> Out(hits[i])]
    BY <1>4, <1>5, Zenon
  <2> QED
    BY <2>1, <2>2, <2>3, <2>4
<1> DEFINE E == [ptr : Fds, out : BOOLEAN]
<1>9. events' \in Seq(E) /\ Len(events') = n
  <2>1. events' = [i \in 1 .. n |-> events'[i]] /\ n \in Nat
    BY <1>4, LoopAssumption
  <2>2. \A i \in 1 .. n : events'[i] \in E
    BY <1>8, Zenon
  <2> HIDE DEF E
  <2> QED
    BY <2>1, <2>2
<1>10. BatchOK'
  <2>1. ASSUME NEW i \in 1 .. n PROVE events'[i].ptr = Listen \/ Live(events[i].ptr)'
    BY <1>1, <1>8, Zenon DEF Live
  <2>2. ASSUME NEW i \in 1 .. n, NEW j \in 1 .. n, events'[i].ptr = events'[j].ptr
        PROVE  i = j
    BY <1>5, <1>7, <1>8, <2>2 DEF Distinct
  <2>3. ASSUME NEW i \in 1 .. n, events'[i].ptr = Listen PROVE queue' # <<>>
    BY <1>1, <1>8, <2>3, Zenon DEF Awake, Ready, In, Out
  <2> QED
    BY <1>9, <2>1, <2>2, <2>3, Zenon DEF BatchOK
<1>11. OrderOK' /\ order' \in Seq(Fds)
  <2>1. PICK rest \in Seq(Fds) : rest = Filter(order, Fds \ Members(hits))
    BY <1>1, FilterType, Zenon
  <2>2. Members(rest) = Members(order) \cap (Fds \ Members(hits)) /\ Distinct(rest)
    BY <1>1, <2>1, FilterMembers, Zenon DEF OrderOK
  <2>3. order' = rest \o hits
    BY <1>4, <1>5, <2>1, Zenon
  <2>4. order' \in Seq(Fds) /\ Members(order') = Members(rest) \cup Members(hits)
          /\ Distinct(order')
    <3>1. /\ Members(rest \o hits) = Members(rest) \cup Members(hits)
          /\ Distinct(rest) /\ Distinct(hits) /\ Members(rest) \cap Members(hits) = {}
                => Distinct(rest \o hits)
      BY ConcatMembers, Zenon
    <3>2. Members(rest) \cap Members(hits) = {}
      BY <2>2, Zenon
    <3>3. rest \o hits \in Seq(Fds)
      OBVIOUS
    <3> QED
      BY <1>7, <2>2, <2>3, <3>1, <3>2, <3>3, Zenon
  <2>5. Members(order') \subseteq Members(order)
    BY <1>3, <1>7, <2>2, <2>4, Zenon
  <2> QED
    BY <1>1, <2>4, <2>5, Zenon DEF OrderOK, Live
<1>12. QueueOK'
  BY <1>1, QueueKept, Zenon DEF LoopInv, SamePeers, FieldsOK
<1>13. FieldsOK'
  BY <1>1, <1>9, <1>11, LoopAssumption DEF FieldsOK
<1> QED
  BY <1>10, <1>11, <1>12, <1>13, Zenon DEF LoopInv

------------------------------------------------------------------------------
(* The peers *)

LEMMA ConnectKeeps ==
    ASSUME LoopInv, NEW c \in Conns, Connect(c)
    PROVE  LoopInv'
<1>1. /\ FieldsOK /\ queue \in Seq(Conns) /\ peer[c] = "none" /\ type[c] = "none"
      /\ peer' = [peer EXCEPT ![c] = "open"] /\ queue' = Append(queue, c)
      /\ UNCHANGED <<unread, asked, type, epollout, filled, sending, output, order, events, pc,
                     stop_server, late, writes, saved, status>>
  BY Zenon DEF LoopInv, FieldsOK, QueueOK, Connect, clients, control
<1>2. c \notin Members(queue)
  BY <1>1, Zenon DEF LoopInv, QueueOK
<1>3. Members(queue') = Members(queue) \cup {c} /\ Distinct(queue')
  BY <1>1, <1>2, AppendMembers DEF LoopInv, QueueOK
<1>4. queue' \in Seq(Conns) /\ queue' # <<>>
  BY <1>1
<1>5. peer' \in [Conns -> {"none", "open", "closed", "reset"}]
        /\ \A x \in Conns : peer'[x] = IF x = c THEN "open" ELSE peer[x]
  BY <1>1, Zenon DEF FieldsOK
<1>6. QueueOK'
  <2>1. \A x \in Members(queue) : x \in Conns
    BY <1>1 DEF Members
  <2> QED
    BY <1>1, <1>3, <1>5, <2>1, Zenon DEF LoopInv, QueueOK
<1>7. FieldsOK'
  BY <1>1, <1>4, <1>5, Zenon DEF FieldsOK
<1>8. OrderOK'
  BY <1>1, Zenon DEF LoopInv, OrderOK, Live
<1>9. BatchOK'
  BY <1>1, <1>4, Zenon DEF LoopInv, BatchOK, Live
<1> QED
  BY <1>6, <1>7, <1>8, <1>9, Zenon DEF LoopInv

\* A step that leaves the clients, the descriptors and the batch alone.
LEMMA OthersKeep ==
    ASSUME LoopInv, FieldsOK', SamePeers, UNCHANGED <<type, order>>,
           events' = events \/ events' = <<>>
    PROVE  LoopInv'
<1>1. QueueOK'
  BY QueueKept, Zenon DEF LoopInv, FieldsOK
<1>2. OrderOK'
  BY Zenon DEF LoopInv, OrderOK, Live
<1>3. BatchOK'
  <2>1. CASE events' = events
    BY <2>1, Zenon DEF LoopInv, BatchOK, Live, SamePeers
  <2>2. CASE events' = <<>>
    BY <2>2 DEF BatchOK
  <2> QED
    BY <2>1, <2>2, Zenon
<1> QED
  BY <1>1, <1>2, <1>3, Zenon DEF LoopInv

LEMMA PeersKeep ==
    ASSUME LoopInv, NEW c \in Conns, HangUp(c) \/ \E request \in Requests : Send(c, request)
    PROVE  LoopInv'
<1>1. CASE HangUp(c)
  <2>1. /\ FieldsOK /\ peer[c] = "open" /\ peer' = [peer EXCEPT ![c] = "closed"]
        /\ UNCHANGED <<unread, asked, queue, type, epollout, filled, sending, output, order, events, pc,
                       stop_server, late, writes, saved, status>>
    BY <1>1, Zenon DEF LoopInv, HangUp, clients, control
  <2>2. FieldsOK' /\ SamePeers
    BY <2>1, Zenon DEF FieldsOK, SamePeers
  <2> QED
    BY <2>1, <2>2, OthersKeep, Zenon
<1>2. ASSUME NEW request \in Requests, Send(c, request) PROVE LoopInv'
  <2>1. /\ FieldsOK /\ asked < MaxRequests /\ asked' = asked + 1
        /\ unread' = [unread EXCEPT ![c] = Append(unread[c], request)]
        /\ UNCHANGED <<peer, queue, type, epollout, filled, sending, output, order, events, pc,
                       stop_server, late, writes, saved, status>>
    BY <1>2, Zenon DEF LoopInv, Send, clients, control
  <2>2. unread' \in [Conns -> Seq(Requests)]
    <3>1. unread \in [Conns -> Seq(Requests)]
      BY <2>1, Zenon DEF FieldsOK
    <3>2. Append(unread[c], request) \in Seq(Requests)
      BY <3>1
    <3> QED
      BY <2>1, <3>1, <3>2, Zenon
  <2>3. asked' \in 0 .. MaxRequests
    BY <2>1, LoopAssumption DEF FieldsOK
  <2>4. FieldsOK' /\ SamePeers
    BY <2>1, <2>2, <2>3, Zenon DEF FieldsOK, SamePeers
  <2> QED
    BY <2>1, <2>4, OthersKeep, Zenon
<1> QED
  BY <1>1, <1>2, Zenon

------------------------------------------------------------------------------
LEMMA LoopStep == LoopInv /\ [Next]_vars => LoopInv'
<1> SUFFICES ASSUME LoopInv, [Next]_vars PROVE LoopInv'
  BY Zenon
<1>0. FieldsOK
  BY Zenon DEF LoopInv
<1>1. CASE Enter
  <2>1. FieldsOK' /\ SamePeers
    BY <1>0, <1>1, Zenon DEF Enter, FieldsOK, SamePeers, net, clients
  <2> QED
    BY <1>1, <2>1, OthersKeep, Zenon DEF Enter, clients
<1>2. CASE epoll_wait
  BY <1>2, EpollKeeps, Zenon
<1>3. CASE Dispatch
  BY <1>3, DispatchKeeps, Zenon
<1>4. CASE Check
  <2>1. /\ UNCHANGED <<peer, unread, asked, queue, type, epollout, filled, sending, output, order,
                       stop_server, late, writes>>
        /\ events' = <<>>
        /\ pc' \in {pc, "enter"} /\ status' \in {status, "exited"}
        /\ saved' \in {saved, writes}
    BY <1>4, Zenon DEF Check, net, clients
  <2>2. events' \in Seq([ptr : Fds, out : BOOLEAN]) /\ Len(events') <= MaxEvents
    BY <2>1, LoopAssumption
  <2>3. saved' \in 0 .. writes'
    BY <1>0, <2>1 DEF FieldsOK
  <2>4. FieldsOK' /\ SamePeers
    BY <1>0, <2>1, <2>2, <2>3, Zenon DEF FieldsOK, SamePeers
  <2> QED
    BY <2>1, <2>4, OthersKeep, Zenon
<1>5. ASSUME NEW c \in Conns, Connect(c) PROVE LoopInv'
  BY <1>5, ConnectKeeps, Zenon
<1>6. ASSUME NEW c \in Conns, HangUp(c) \/ \E request \in Requests : Send(c, request)
      PROVE  LoopInv'
  BY <1>6, PeersKeep, Zenon
<1>7. CASE sigint_handler
  <2>1. FieldsOK' /\ SamePeers
    BY <1>0, <1>7, Zenon DEF sigint_handler, Interrupted, FieldsOK, SamePeers, net, clients
  <2> QED
    BY <1>7, <2>1, OthersKeep, Zenon DEF sigint_handler, clients
<1>8. CASE UNCHANGED vars
  <2>1. FieldsOK' /\ SamePeers
    BY <1>0, <1>8, Zenon DEF vars, FieldsOK, SamePeers, net, clients, control
  <2> QED
    BY <1>8, <2>1, OthersKeep, Zenon DEF vars, clients, control
<1> QED
  BY <1>1, <1>2, <1>3, <1>4, <1>5, <1>6, <1>7, <1>8, Zenon DEF Next, Server, Peers

LEMMA LoopInit == Init => LoopInv
<1> SUFFICES ASSUME Init PROVE LoopInv
  BY Zenon
<1>1. FieldsOK
  <2>1. order \in Seq(Fds)
    BY DEF Init, Fds
  <2>2. events \in Seq([ptr : Fds, out : BOOLEAN]) /\ Len(events) <= MaxEvents
    BY LoopAssumption DEF Init
  <2>3. unread \in [Conns -> Seq(Requests)] /\ queue \in Seq(Conns)
    BY DEF Init
  <2>4. output \in [Conns -> 0 .. OutSize] /\ asked \in 0 .. MaxRequests
    BY LoopAssumption DEF Init
  <2>5. writes \in Nat /\ saved \in 0 .. writes
    BY DEF Init
  <2>6. /\ epollout \in [Conns -> BOOLEAN] /\ filled \in [Conns -> BOOLEAN]
        /\ sending \in [Conns -> {"snapshot", "backlog", "nothing"}]
    BY Zenon DEF Init
  <2>7. /\ peer \in [Conns -> {"none", "open", "closed", "reset"}]
        /\ type \in [Conns -> {"none", "regular", "replica", "freed"}]
    BY Zenon DEF Init
  <2> QED
    BY <2>1, <2>2, <2>3, <2>4, <2>5, <2>6, <2>7, Zenon DEF Init, FieldsOK
<1>2. QueueOK
  BY DEF Init, QueueOK, Distinct, Members
<1>3. OrderOK
  BY DEF Init, OrderOK, Distinct, Members
<1>4. BatchOK
  BY DEF Init, BatchOK
<1> QED
  BY <1>1, <1>2, <1>3, <1>4, Zenon DEF LoopInv

LEMMA LoopInvariant == Spec => []LoopInv
BY LoopInit, LoopStep, PTL DEF Spec

\* The fields of the clients and the loop keep their types: no batch is longer
\* than MAX_EVENTS and no output buffer of a replica overflows.
THEOREM FieldsCorrect == Spec => []FieldsOK
<1>1. LoopInv => FieldsOK
  BY Zenon DEF LoopInv
<1> QED
  BY <1>1, LoopInvariant, PTL

\* Whatever the handlers of the earlier events of a batch have done, and
\* however many clients connect, hang up or are dropped meanwhile, the event
\* that is dispatched next points to a client that is still there.
THEOREM BatchLiveCorrect == Spec => []BatchLive
<1>1. LoopInv => BatchLive
  <2> SUFFICES ASSUME LoopInv, NEW i \in DOMAIN events
               PROVE  events[i].ptr = Listen \/ Live(events[i].ptr)
    BY Zenon DEF BatchLive
  <2>1. i \in 1 .. Len(events)
    BY DEF LoopInv, FieldsOK
  <2> QED
    BY <2>1, Zenon DEF LoopInv, BatchOK
<1> QED
  BY <1>1, LoopInvariant, PTL
==============================================================================
