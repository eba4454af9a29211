------------------------------ MODULE ByteQueue ------------------------------
(***************************************************************************)
(* What a ring buffer promises to its callers: a bounded first-in          *)
(* first-out queue of bytes.  Put appends a block of bytes or, when the    *)
(* block does not fit, refuses it as a whole; Get drops a prefix or, when  *)
(* the queue is shorter than that, drops nothing.  The caller's side of    *)
(* the bargain is to copy no more than there is room for: a refused block  *)
(* that was copied nevertheless has replaced the oldest bytes.  RingBuffer *)
(* implements this specification (RingBuffer!Queue is its refinement       *)
(* mapping).                                                               *)
(***************************************************************************)
EXTENDS Integers, Sequences

CONSTANTS
    Block,     \* the sequences of bytes a caller may put at once
    Capacity   \* how many bytes the queue holds at most

VARIABLES
    queue,     \* the bytes put and not yet taken, oldest first
    ret,       \* what the last operation returned: 0 or -1
    call       \* the last operation and its argument

vars == <<queue, ret, call>>

Init ==
    /\ queue = <<>>
    /\ ret = 0
    /\ call = <<"none">>

\* The queue after a block was copied behind it without regard to the room:
\* the part that is too much comes round to the oldest bytes.
Overrun(bytes) ==
    [j \in 1 .. Len(queue) |->
        LET i == (Capacity - Len(queue)) + j
        IN  IF i + Capacity <= Len(bytes) THEN bytes[i + Capacity]
            ELSE IF i <= Len(bytes) THEN bytes[i]
            ELSE queue[j]]

Put(bytes) ==
    /\ call' = <<"put", bytes>>
    /\ \/ /\ Len(queue) + Len(bytes) <= Capacity
          /\ queue' = queue \o bytes
          /\ ret' = 0
       \/ /\ Len(queue) + Len(bytes) > Capacity
          /\ ret' = -1
          /\ queue' \in {queue, Overrun(bytes)}

Get(n) ==
    /\ call' = <<"get", n>>
    /\ \/ /\ n <= Len(queue)
          /\ queue' = SubSeq(queue, n + 1, Len(queue))
          /\ ret' = 0
       \/ /\ n > Len(queue)
          /\ ret' = -1
          /\ UNCHANGED queue

Next ==
    \/ \E bytes \in Block : Put(bytes)
    \/ \E n \in 0 .. (Capacity + 1) : Get(n)

Spec == Init /\ [][Next]_vars
==============================================================================
