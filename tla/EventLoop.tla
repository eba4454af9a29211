------------------------------ MODULE EventLoop ------------------------------
(***************************************************************************)
(* The loop of start_server in src/redis-server.c on a master: epoll, the  *)
(* batch of events it returns, their dispatch to the handlers of           *)
(* src/client.c and src/replication.c, the creation and the end of         *)
(* clients, SIGINT and the save before the exit.                           *)
(*                                                                         *)
(* A connection is one member of Conns from its connect to its end, and    *)
(* stands for its Client structure too.  Its peer sends whole requests, or *)
(* as much of one that never ends as its input buffer holds, and may hang  *)
(* up at any time.  A peer that has hung up answers a write   *)
(* with a reset; the write after that raises SIGPIPE, which is not caught. *)
(***************************************************************************)
EXTENDS Filters

CONSTANTS
    Conns,
    MaxEvents,     \* MAX_EVENTS
    OutSize,       \* RING_BUFFER_SIZE of a replica's output buffer, in requests
    MaxRequests    \* bound: requests sent by all peers

ASSUME LoopAssumption ==
    /\ MaxEvents \in Nat \ {0} /\ OutSize \in Nat /\ MaxRequests \in Nat
    /\ "listen" \notin Conns

VARIABLES
    peer,          \* the other end: "none", "open", "closed" or "reset"
    unread,        \* the requests in the socket
    asked,         \* how many requests were sent, to bound them
    queue,         \* the connections that wait to be accepted
    type,          \* ClientType, "none" before accept, "freed" after destroy_client
    epollout,      \* EPOLLOUT is monitored; EPOLLIN is for every live client
    filled,        \* the input buffer is full, and no request in it complete
    sending,       \* what a replica still gets: "snapshot", "backlog" or "nothing"
    output,        \* the requests in a replica's output buffer
    order,         \* the registered descriptors, as epoll looks at them
    events,        \* what is left of the batch
    pc,            \* "enter" epoll_wait, "wait" in it, "dispatch"
    stop_server,
    late,          \* history: SIGINT came between the check and epoll_wait
    writes,        \* the SETs executed
    saved,         \* the SETs in the RDB file
    status         \* "running", "exited" or "killed"

net == <<peer, unread, asked, queue>>
clients == <<type, epollout, filled, sending, output>>
control == <<order, events, pc>>
vars == <<net, clients, control, stop_server, late, writes, saved, status>>

Listen == "listen"    \* SocketFD, whose data.ptr is NULL
Fds == {Listen} \cup Conns
Live(c) == type[c] \in {"regular", "replica"}
Replicas == {c \in Conns : type[c] = "replica"}
Requests == {"SET", "PSYNC", "PART"}

Init ==
    /\ peer = [c \in Conns |-> "none"]
    /\ unread = [c \in Conns |-> <<>>]
    /\ asked = 0
    /\ queue = <<>>
    /\ type = [c \in Conns |-> "none"]
    /\ epollout = [c \in Conns |-> FALSE]
    /\ filled = [c \in Conns |-> FALSE]
    /\ sending = [c \in Conns |-> "nothing"]
    /\ output = [c \in Conns |-> 0]
    /\ order = <<Listen>>
    /\ events = <<>>
    /\ pc = "enter"
    /\ stop_server = FALSE /\ late = FALSE
    /\ writes = 0 /\ saved = 0
    /\ status = "running"
------------------------------------------------------------------------------
(* The peers *)

Connect(c) ==
    /\ peer[c] = "none"
    /\ peer' = [peer EXCEPT ![c] = "open"]
    /\ queue' = Append(queue, c)
    /\ UNCHANGED <<unread, asked, clients, control, stop_server, late, writes, saved, status>>

\* A replica sends too: its replies to the commands it is sent.  The part of a
\* request that never ends comes alone.
Send(c, request) ==
    /\ peer[c] = "open" /\ asked < MaxRequests
    /\ \A i \in DOMAIN unread[c] : unread[c][i] = "SET"
    /\ request = "PART" => unread[c] = <<>>
    /\ type[c] = "replica" => request = "SET"
    /\ unread' = [unread EXCEPT ![c] = Append(@, request)]
    /\ asked' = asked + 1
    /\ UNCHANGED <<peer, queue, clients, control, stop_server, late, writes, saved, status>>

HangUp(c) ==
    /\ peer[c] = "open"
    /\ peer' = [peer EXCEPT ![c] = "closed"]
    /\ UNCHANGED <<unread, asked, queue, clients, control, stop_server, late, writes,
                   saved, status>>

\* Mutant: the wait is begun again.
Interrupted_Retried == pc

\* epoll_wait fails with EINTR, which is taken for a batch without events.
Interrupted == IF pc = "wait" THEN "dispatch" ELSE pc

sigint_handler ==
    /\ ~ stop_server /\ status = "running"
    /\ stop_server' = TRUE
    /\ late' = (pc = "enter")
    /\ pc' = Interrupted
    /\ UNCHANGED <<net, clients, order, events, writes, saved, status>>
------------------------------------------------------------------------------
(* epoll *)

\* Level-triggered: what is there is reported every time.  A peer that has
\* closed makes its connection readable.
In(f) == IF f = Listen THEN queue # <<>> ELSE unread[f] # <<>> \/ peer[f] # "open"
Out(f) == f # Listen /\ epollout[f]
Ready(f) == In(f) \/ Out(f)
Awake == {f \in Fds : Ready(f)}

Enter ==
    /\ status = "running" /\ pc = "enter"
    /\ pc' = "wait"
    /\ UNCHANGED <<net, clients, order, events, stop_server, late, writes, saved, status>>

\* Some of what is ready is reported, from the front of the kernel's list, and
\* goes to its end.
epoll_wait ==
    /\ status = "running" /\ pc = "wait"
    /\ \E n \in 1 .. MaxEvents :
          LET ready == Filter(order, Awake)
              hits == SubSeq(ready, 1, n)
              rest == Filter(order, Fds \ Members(hits))
          IN  /\ n <= Len(ready)
              /\ events' = [i \in 1 .. n |->
                               [ptr |-> hits[i], out |-> Out(hits[i])]]
              /\ order' = rest \o hits
    /\ pc' = "dispatch"
    /\ UNCHANGED <<net, clients, stop_server, late, writes, saved, status>>
------------------------------------------------------------------------------
(* The handlers of an event.  Each leaves the loop's own state alone. *)

client_enable_write_events(cs) == [r \in Conns |-> epollout[r] \/ r \in cs]
client_disable_write_events(c) == [epollout EXCEPT ![c] = FALSE]

\* accept, create_client, EPOLL_CTL_ADD and client_enable_read_events.
accept ==
    LET c == Head(queue)
    IN  /\ queue' = Tail(queue)
        /\ type' = [type EXCEPT ![c] = "regular"]
        /\ order' = Append(order, c)
        /\ UNCHANGED <<peer, unread, asked, epollout, filled, sending, output, writes, status>>

\* What a write does to the connection, if there is anything to write.
Written(c, some) ==
    IF ~ some \/ peer[c] = "open" THEN UNCHANGED <<peer, status>>
    ELSE IF peer[c] = "reset" THEN status' = "killed" /\ UNCHANGED peer
    ELSE peer' \in {peer, [peer EXCEPT ![c] = "reset"]} /\ UNCHANGED status

\* Mutant: the end of the input is taken for an input that is empty.
handle_client_disconnection_Nothing(c) ==
    UNCHANGED <<clients, order>>

\* EPOLL_CTL_DEL, and remove_replica and destroy_client.
handle_client_disconnection(c) ==
    /\ type' = [type EXCEPT ![c] = "freed"]
    /\ order' = Filter(order, Fds \ {c})
    /\ UNCHANGED <<epollout, filled, sending, output>>

\* Mutant: it is the replicas without room that are disconnected.
Dropped_Replicas(c, full) == full

\* The clients that are disconnected when the replicas in full have no room:
\* the one that wrote.
Dropped(c, full) == IF full = {} THEN {} ELSE {c}

\* Mutant: a buffer that is not full is taken to have room.
Fits_Any(r, n) == output[r] < OutSize

Fits(r, n) == output[r] + n <= OutSize

\* The whole read is copied to every replica with room when its last request
\* is SET.  Without room a client is freed, and used after that.
Propagate(c, n) ==
    LET full == {r \in Replicas : ~ Fits(r, n)}
        gone == Dropped(c, full)
    IN  /\ output' = [r \in Conns |-> IF r \in Replicas \ full THEN output[r] + n
                                      ELSE output[r]]
        /\ epollout' = client_enable_write_events(Replicas \ full)
        /\ type' = [r \in Conns |-> IF r \in gone THEN "freed" ELSE type[r]]
        /\ order' = Filter(order, Fds \ gone)
        /\ UNCHANGED <<filled, sending>>
        /\ \/ full = {} /\ Written(c, TRUE)
           \/ full # {} /\ status' \in {status, "killed"} /\ UNCHANGED peer

\* The last request is PSYNC: add_replica, and a full or a partial
\* resynchronisation begins.
Synchronise(c) ==
    /\ type' = [type EXCEPT ![c] = "replica"]
    /\ epollout' = client_enable_write_events({c})
    /\ \E what \in {"snapshot", "backlog"} : sending' = [sending EXCEPT ![c] = what]
    /\ Written(c, TRUE)
    /\ UNCHANGED <<filled, output, order>>

\* The read fills the buffer and completes no request.  If the one before was
\* SET its mark is still set, and no bytes are copied to the replicas.
Fill(c) ==
    /\ filled' = [filled EXCEPT ![c] = TRUE]
    /\ epollout' \in {epollout, client_enable_write_events(Replicas)}
    /\ UNCHANGED <<peer, type, sending, output, order, status>>

\* EPOLLIN of a replica is not handled, nor of a client with a full buffer.
Ignored == UNCHANGED <<net, clients, order, writes, status>>

\* The handler returns before it reads when the input buffer is full.  One
\* read takes all there is.  Without data it is the end of the input,
\* or the error of a connection that was reset, which is reported once.
process_client_input(c) ==
    LET n == Len(unread[c])
    IN  \/ filled[c] /\ Ignored
        \/ /\ ~ filled[c]
           /\ UNCHANGED <<asked, queue>>
           /\ unread' = [unread EXCEPT ![c] = <<>>]
           /\ writes' = writes + Len(Filter(unread[c], {"SET"}))
           /\ \/ n > 0 /\ unread[c][n] = "SET" /\ Propagate(c, n)
              \/ n > 0 /\ unread[c][n] = "PSYNC" /\ Synchronise(c)
              \/ n > 0 /\ unread[c][n] = "PART" /\ Fill(c)
              \/ /\ n = 0 /\ peer[c] = "closed"
                 /\ handle_client_disconnection(c) /\ UNCHANGED <<peer, status>>
              \/ /\ n = 0 /\ peer[c] = "reset"
                 /\ peer' = [peer EXCEPT ![c] = "closed"]
                 /\ UNCHANGED <<clients, order, status>>

\* The replica has caught up, or what it lacks is not in the backlog and it is
\* freed by its own handler, or its ring buffer's fields are written over.
continue_psync(c) ==
    /\ \/ /\ sending' = [sending EXCEPT ![c] = "nothing"]
          /\ epollout' = client_disable_write_events(c)
          /\ UNCHANGED <<type, filled, output, order, status>>
       \/ handle_client_disconnection(c) /\ UNCHANGED status
       \/ status' \in {status, "killed"} /\ UNCHANGED <<clients, order>>
    /\ UNCHANGED peer

\* The socket takes some of the snapshot or all of it, or some of the buffer.
master_handle_replica_out(c) ==
    /\ \/ sending[c] = "backlog" /\ continue_psync(c)
       \/ /\ sending[c] = "snapshot"
          /\ \/ UNCHANGED <<sending, epollout>>
             \/ /\ sending' = [sending EXCEPT ![c] = "nothing"]
                /\ epollout' = client_disable_write_events(c)
          /\ Written(c, TRUE)
          /\ UNCHANGED <<type, filled, output, order>>
       \/ /\ sending[c] = "nothing"
          /\ \E k \in 0 .. output[c] : output' = [output EXCEPT ![c] = @ - k]
          /\ Written(c, output[c] > 0)
          /\ UNCHANGED <<type, epollout, filled, sending, order>>
    /\ UNCHANGED <<unread, asked, queue, writes>>
------------------------------------------------------------------------------
(* The loop *)

\* Mutant: off by one.
More_ButLast == Len(events) > 1

More == events # <<>>

\* The condition of the branch for data is true of every event, so the one for
\* EPOLLHUP is never taken.  Only a replica has EPOLLOUT monitored.
Dispatch ==
    LET e == Head(events)
    IN  /\ status = "running" /\ pc = "dispatch" /\ More
        /\ events' = Tail(events)
        /\ \/ e.ptr = Listen /\ accept
           \/ e.ptr # Listen /\ type[e.ptr] = "regular" /\ process_client_input(e.ptr)
           \/ e.ptr # Listen /\ type[e.ptr] = "replica" /\ e.out
                /\ master_handle_replica_out(e.ptr)
           \/ e.ptr # Listen /\ type[e.ptr] = "replica" /\ ~ e.out /\ Ignored
        /\ UNCHANGED <<pc, stop_server, late, saved>>

\* The end of the batch.
Check ==
    /\ status = "running" /\ pc = "dispatch" /\ ~ More
    /\ events' = <<>>
    /\ IF stop_server THEN status' = "exited" /\ saved' = writes /\ UNCHANGED pc
       ELSE pc' = "enter" /\ UNCHANGED <<status, saved>>
    /\ UNCHANGED <<net, clients, order, stop_server, late, writes>>

Server == Enter \/ epoll_wait \/ Dispatch \/ Check

Peers ==
    \E c \in Conns :
        \/ Connect(c)
        \/ HangUp(c)
        \/ \E request \in Requests : Send(c, request)

Next == Server \/ Peers \/ sigint_handler

\* The process is scheduled.
Spec == Init /\ [][Next]_vars /\ WF_vars(Server)
------------------------------------------------------------------------------
FieldsOK ==
    /\ peer \in [Conns -> {"none", "open", "closed", "reset"}]
    /\ unread \in [Conns -> Seq(Requests)]
    /\ asked \in 0 .. MaxRequests /\ queue \in Seq(Conns)
    /\ type \in [Conns -> {"none", "regular", "replica", "freed"}]
    /\ epollout \in [Conns -> BOOLEAN] /\ filled \in [Conns -> BOOLEAN]
    /\ sending \in [Conns -> {"snapshot", "backlog", "nothing"}]
    /\ output \in [Conns -> 0 .. OutSize]
    /\ order \in Seq(Fds)
    /\ events \in Seq([ptr : Fds, out : BOOLEAN]) /\ Len(events) <= MaxEvents
    /\ pc \in {"enter", "wait", "dispatch"}
    /\ stop_server \in BOOLEAN /\ late \in BOOLEAN
    /\ writes \in Nat /\ saved \in 0 .. writes
    /\ status \in {"running", "exited", "killed"}

\* The fields of the clients and the loop; a batch has at most MAX_EVENTS
\* events, no replica's output buffer more than it has room for, and no more
\* SETs are executed than were sent.
TypeOK == FieldsOK /\ writes <= asked

\* No event that is still to be dispatched points to a client that was freed,
\* whatever the handlers of the earlier events of the batch have done.
BatchLive ==
    status = "running" => \A i \in DOMAIN events : events[i].ptr = Listen \/ Live(events[i].ptr)

Ended == status # "running"

\* Every connection is accepted and what it asks for is read, though replicas
\* whose events are never used up are ready all the time.  The one exception
\* is a client that has filled its input buffer with an unfinished request.
Served ==
    \A c \in Conns : unread[c] # <<>> /\ type[c] # "replica"
                        ~> \/ unread[c] = <<>> \/ filled[c]
                           \/ type[c] = "freed" \/ stop_server \/ Ended

\* A regular client that hangs up is noticed and freed, with the same
\* exception: a client whose input buffer is full is never read again.
HangupNoticed ==
    \A c \in Conns : peer[c] = "closed" /\ type[c] # "replica"
                        ~> \/ type[c] \in {"freed", "replica"} \/ filled[c]
                           \/ stop_server \/ Ended

Asleep == pc = "wait" /\ Filter(order, Awake) = <<>>

\* SIGINT ends the loop, and every SET that was executed is in the file then.
\* One that comes between the check and epoll_wait waits for an event.
ShutdownSaves ==
    stop_server ~> \/ status = "exited" /\ saved = writes
                   \/ status = "killed"
                   \/ late /\ Asleep
==============================================================================
