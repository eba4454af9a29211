------------------------------ MODULE RingBuffer -----------------------------
(***************************************************************************)
(* src/ring_buffer.c: the buffer under every client's input and output and *)
(* under the replication backlog.  read_index and write_index only ever    *)
(* grow; the byte with index x lives in cell x % Size.  rb_create maps the *)
(* Size bytes twice, back to back, so that a caller may run over the end   *)
(* of the first mapping: address a of the 2 * Size mapped addresses is     *)
(* cell a % Size.                                                          *)
(*                                                                         *)
(* The callers are part of the actions: they ask for the writable (or      *)
(* readable) view, copy into (or out of) it, and advance the index by what *)
(* they copied.  Most of them look at the room before they copy; two do    *)
(* not (write_chars, resp.c:165, and replica_receive_rdb_snapshot,         *)
(* replication.c:240), and rb_write refuses when the copy is already made.  The indices are uint64_t in the code; 2^64 bytes never go *)
(* through a buffer, so they are natural numbers here.                     *)
(***************************************************************************)
EXTENDS Integers, Sequences

CONSTANTS
    Byte,       \* the values of a byte
    Size,       \* the buffer's size
    MaxIndex    \* bound: how many bytes ever go through the buffer

ASSUME SizeAssumption == Size \in Nat \ {0}
ASSUME ByteAssumption == Byte # {}
ASSUME BoundAssumption == MaxIndex \in Nat

VARIABLES
    read_index,   \* how many bytes were ever taken
    write_index,  \* how many bytes were ever put
    region,       \* the mapped memory, one value per cell
    ret,          \* what the last operation returned: 0 or -1
    call          \* history: the last operation and its argument

vars == <<read_index, write_index, region, ret, call>>

Cell == 0 .. (Size - 1)

\* The double mapping: the cell behind an address of the mapped region.
CellOf(address) == address % Size

readable_len == write_index - read_index

writable_len == Size - readable_len

\* The address rb_readable hands to its caller.
ReadPtr == read_index % Size

\* Mutant: the pointer is taken from the wrong index.
WritePtr_ReadIndex == read_index % Size

\* The address rb_writable hands to its caller.
WritePtr == write_index % Size

\* The bytes the caller of rb_readable sees at its pointer.
View == [i \in 1 .. readable_len |-> region[CellOf(ReadPtr + i - 1)]]

\* Mutant: only the first mapping exists, bytes beyond its end are lost.
Copied_NoMirror(bytes) ==
    [c \in Cell |->
        LET i == c - WritePtr + 1
        IN  IF i \in 1 .. Len(bytes) THEN bytes[i] ELSE region[c]]

\* The memory after the caller of rb_writable copied bytes to its pointer:
\* byte i goes to address WritePtr + i - 1.  A copy longer than the buffer
\* goes round it and overwrites its own first bytes.
Copied(bytes) ==
    [c \in Cell |->
        LET i == ((c - WritePtr) % Size) + 1
        IN  IF i + Size <= Len(bytes) THEN bytes[i + Size]
            ELSE IF i <= Len(bytes) THEN bytes[i]
            ELSE region[c]]

------------------------------------------------------------------------------
\* rb_create
Init ==
    /\ read_index = 0
    /\ write_index = 0
    /\ region \in [Cell -> Byte]
    /\ ret = 0
    /\ call = <<"none">>

\* Mutant: rb_write accepts any length.
Put_NoRoomCheck(bytes) ==
    /\ write_index + Len(bytes) <= MaxIndex
    /\ call' = <<"put", bytes>>
    /\ region' = Copied(bytes)
    /\ write_index' = write_index + Len(bytes)
    /\ ret' = 0
    /\ UNCHANGED read_index

\* rb_writable, the caller's copy, and rb_write, which refuses a length
\* beyond the room there is.  A caller with too little room returns before
\* it copies (write_begin_array and the like), or has copied all the same
\* (write_chars): then the copy runs into the bytes still to be read.
Put(bytes) ==
    /\ write_index + Len(bytes) <= MaxIndex
    /\ call' = <<"put", bytes>>
    /\ \/ /\ Len(bytes) <= writable_len
          /\ region' = Copied(bytes)
          /\ write_index' = write_index + Len(bytes)
          /\ ret' = 0
       \/ /\ Len(bytes) > writable_len
          /\ ret' = -1
          /\ region' \in {region, Copied(bytes)}
          /\ UNCHANGED write_index
    /\ UNCHANGED read_index

\* Mutant: rb_read compares with the size instead of the readable length.
Get_WrongBound(n) ==
    /\ n <= Size
    /\ call' = <<"get", n>>
    /\ read_index' = read_index + n
    /\ ret' = 0
    /\ UNCHANGED <<write_index, region>>

\* rb_readable, the caller's use of the view, and rb_read.
Get(n) ==
    /\ call' = <<"get", n>>
    /\ \/ /\ n <= readable_len
          /\ read_index' = read_index + n
          /\ ret' = 0
       \/ /\ n > readable_len
          /\ ret' = -1
          /\ UNCHANGED read_index
    /\ UNCHANGED <<write_index, region>>

\* A caller may offer or ask for one byte more than the buffer can hold.
Block == UNION {[1 .. n -> Byte] : n \in 0 .. (Size + 1)}

Next ==
    \/ \E bytes \in Block : Put(bytes)
    \/ \E n \in 0 .. (Size + 1) : Get(n)

Spec == Init /\ [][Next]_vars

------------------------------------------------------------------------------
\* Type correctness of struct ring_buffer_struct.
TypeOK ==
    /\ read_index \in 0 .. MaxIndex
    /\ write_index \in 0 .. MaxIndex
    /\ region \in [Cell -> Byte]
    /\ ret \in {0, -1}

\* ASSERT_STATE (ring_buffer.c:27-28), asserted on entry to and exit from
\* every operation, never fails: the reader never overtakes the writer and
\* the writer is never more than a whole buffer ahead.
AssertState ==
    /\ read_index <= write_index
    /\ write_index - read_index <= Size

\* The view of the reader and the view of the writer stay inside the double
\* mapping rb_create made and share no cell, wherever the indices wrap: a
\* caller that copies no more than rb_writable allowed cannot overwrite a
\* byte that is still to be read.
ViewsDisjoint ==
    /\ ReadPtr + readable_len <= 2 * Size
    /\ WritePtr + writable_len <= 2 * Size
    /\ \A i \in 0 .. (readable_len - 1), j \in 0 .. (writable_len - 1) :
           CellOf(ReadPtr + i) # CellOf(WritePtr + j)

\* The ring buffer is a bounded FIFO queue: what the reader sees is exactly
\* what was put and not yet taken, in order, across every wrap of the
\* indices; an operation fails only when the queue is too full or too short
\* for it; and a failed put changes nothing, or, when its caller did not look
\* at the room first, exactly the oldest unread bytes and not how many there
\* are.
Queue == INSTANCE ByteQueue WITH queue <- View, Capacity <- Size

ImplementsQueue == Queue!Spec
==============================================================================
