# A TLA+ model of redis-server

This directory models the server of this repository in TLA+. TLC checks the
models on small instances, and TLAPS proves some of the properties for every
value of the constants. Every definition is translated from the C code;
`PROJECT.json` gives the lines each one stands for. Paths such as
`src/client.c:169` are relative to the root of the repository.

## The system

The server is one process with one thread around `epoll_wait`. A handler runs to
completion before the next event is looked at. Concurrency is therefore between
connections: what the network hands over in one read, which socket can be
written to, and in which order the events come.

| Part | State | Operations | What is hard | Promised |
|---|---|---|---|---|
| Ring buffer, `ring_buffer.c` | two indices, memory mapped twice | `rb_readable`, `rb_writable`, `rb_read`, `rb_write` | wraps, full, empty | a bounded queue; the views share no byte |
| Linked list, `linked_list.c` | nodes, head, tail, length | `lpush`, `rpush`, `lrange`, `destroy_list` | links in two directions, negative indices, a length not initialised | a sequence |
| Database, `database.c` | hash table, `key_count`, `expiry_count` | set, get, exist, delete, push, range | expiry at the next lookup, counters kept by hand | counters agree with the table |
| Commands, `commands.c`, `command_handler.c` | the database, the client's two flags | one handler per command | options of SET, keys that are expired but present, integer widths | a store in which keys expire on time |
| Persistence, `rdb.c` | the RDB file | save, load | encodings, a crash in a save, foreign files | what is loaded is what was saved |
| Replication, master: `replication.c`, `client.c` | replicas, output buffers, backlog, offsets | propagation, PSYNC, transfer of the snapshot | pipelining, split reads, slow replicas, saves during a transfer | each replica gets each write once and in order |
| Replication, replica: `replication.c`, `commands.c` | state of the handshake, the received file | handshake, reception, application | bytes that arrive earlier than expected | the replica reaches the master's state |
| Parser and writers, `resp.c`, `command_handler.c` | a stack of states, the output buffer | `parser_parse`, the writers | input in pieces, full buffers | the pieces do not matter; replies are whole |
| Event loop, `redis-server.c` | registered events | dispatch, accept, shutdown | hang-ups, a client freed while a batch is dispatched, signals | everybody is served; a shutdown saves |

The parts interact like this. The event loop calls `process_client_input`, which
reads into a ring buffer and runs the parser on it. The parser calls the command
handlers, which work on the database and write replies to another ring buffer.
Afterwards `process_client_input` propagates what was parsed, if the last command
was a SET. A full resynchronisation saves an RDB file and sends it.

## Modules

| Module | Models | Uses |
|---|---|---|
| `ByteQueue` | abstract: a bounded queue of bytes | |
| `RingBuffer` | `ring_buffer.c` and how its callers copy | refines `ByteQueue` |
| `Database` | `database.c` | |
| `Values` | strings as the number parsers see them; replies | |
| `ListRange` | `lrange` on a sequence, and the reference `Slice` | |
| `KeyValueStore` | abstract: a store that expires keys on time | |
| `Commands` | the handlers and `handle_command` | extends `Database`, refines `KeyValueStore` |
| `Deque` | abstract: a sequence with ranges | |
| `LinkedList` | `linked_list.c` with its pointers | refines `Deque` |
| `Rdb` | `rdb.c`, start and shutdown, crashes | extends `Database` |
| `Replication` | the master's side of replication | |
| `Replica` | the replica's side: handshake, snapshot, stream | |
| `ReplicaSync` | a master and a replica over one connection | extends `Replication`, instantiates `Replica` on the bytes the master has sent |
| `RespWriter` | the writers of `resp.c` and the replies made of them | |
| `RespParser` | the parser, its callbacks, and the reads and writes of a client | extends `RespWriter` |
| `EventLoop` | the loop of `start_server`, epoll, hang-ups, signals | |
| `Filters` | the members of a sequence that are in a set | used by `Replication`, `Replica`, `EventLoop` |
| `SequenceLemmas` | lemmas: induction, `Filters`, parts of sequences | |
| `RingBufferProofs`, `DatabaseProofs`, `LinkedListProofs`, `ReplicationProofs`, `ReplicaSyncSteps`, `ReplicaSyncProofs`, `EventLoopProofs` | theorems | all but the first two use `SequenceLemmas`; `ReplicaSyncProofs` extends `ReplicaSyncSteps`, which has the invariant and the steps that add nothing to the connection, and that extends `ReplicationProofs` |
| `MCCommands`, `MCLinkedList`, `MCRdb`, `MCReplication`, `MCReplicaSync`, `MCRespParser` | instances for TLC | |

### How state and actions correspond to the code

**RingBuffer.** `read_index`, `write_index` and `region` are the fields of the
struct. `Put` is `rb_writable`, the caller's copy and `rb_write`; `Get` is
`rb_readable`, the caller's use of the bytes and `rb_read`. `call` records the
operation and its argument, and the abstract queue has the same variable: the
refinement then says what a given call does, not that some call explains the
result. The indices are
64 bits wide in the code and natural numbers here, because 2^64 bytes never pass
through a buffer.

**Database.** `db` is `redis_db_t`; the operations are operators from a database
to a database, so that a handler can compose several. `now` is the clock, which
stands still during an operation. The counters are `size_t` and wrap at
`SizeMod`.

**Commands.** One action per handler. `request` and `reply` record the last
command and its replies. Numbers have two widths, `LongMax` for what is stored
and `IntMax` for what is replied. A string is a number in decimal form, another
text that `strtol` accepts, or a text that is no number. Where the code reads a
list through the string member of the union, the model takes any text. The sum
in `INCR` overflows as two's complement, which is what the compilers the build
uses produce.

**LinkedList.** The heap is a function from addresses to nodes. The length that
`create_list` does not set is any member of `Garbage`. Allocation does not fail.
`call` records the last call and its arguments, as in `RingBuffer`.

**Rdb.** The file is a sequence of bytes, in which the characters of a text, the
magic string and a time stamp are one element each. The loader takes one action
per turn of its loops, so that a crash may come in between. `CrashInSave` leaves
any proper prefix of the new file.

**Replication.** A command is two fragments of one byte, as it may arrive in two
reads. A read returns a chunk, a sequence of fragments; `Chunks` says which. The
model makes these abstractions:

- PSYNC and SAVE arrive in a chunk of their own, as replicas wait for replies.
- The reply to PSYNC is flushed at once, to a socket that was just used.
- Where the code uses a freed client or a buffer it has overwritten, the process
  may die or go on; such a buffer is not followed further.
- The output to clients that are not replicas is left out; `RespParser` has it.
- A replica does not hang up; in `EventLoop` it does.
- The size of a snapshot is any member of `RdbSizes`, whatever the keys are.

**Replica.** Each action is one call of `replica_handle_master_data`, or one turn
of the loop in `replica_receive_rdb_snapshot`. `incoming` is everything the
master has written to the connection, `taken` how much of it was read; a read
takes any number of elements. An element is a reply, one of the two parts of the
snapshot's header, a part of the snapshot or half of a command. `early` records
how much was in the buffer behind the header.

**ReplicaSync.** `incoming` is `sent[Link]` of `Replication`, so that the replica
reads exactly what the master's buffers, events and transfers have put on the
wire. The requests of the handshake are served one by one. The other connections
are clients that write, save and hang up.

**RespWriter and RespParser.** A byte is a character. Each writer is the bytes
it is to write, and `Write` says what becomes of the output buffer, with and
without room. In `RespParser` a client sends one of the `Scripts`, and a read
takes any number of its bytes, so that every cut is tried. One action is one
call of a state's parse function or one call of a writer; `stack` holds the
states. `Return` is the way back to `process_client_input`, which reads again
when the last read filled the buffer, and flushes otherwise. When a cut has
made the parser lose the stream, `lost` says so and the model stops: what the
parser makes of the rest depends on bytes that are left in memory. The size of
`buf` is left out, and commands are those that need no key.

**EventLoop.** A connection is at the same time the socket, its registration and
the `Client`. `order` is the kernel's list of registered descriptors; a call of
`epoll_wait` returns some of those that are ready, from the front, and moves
them to the end. Requests are SET and PSYNC, read whole. A write to a peer that
has hung up may bring a reset, and the write after it kills the process, as
SIGPIPE is not caught. A writer that was freed in `process_client_input` is used
afterwards, so the process may die there.

## Checks

### Runs that pass

| Run | Shows | Bounds |
|---|---|---|
| `RingBuffer` | `ASSERT_STATE` never fails, the views share no cell, the buffer is a queue | `Size` 3, enough bytes for the indices to wrap |
| `Commands` | the handlers act and reply as the abstract store does; `key_count` is the number of keys; lists never have a deadline | two keys, deadlines before, at and after the clock, each option of SET and the combinations the parser tells apart |
| `LinkedList` | links and length agree; `lrange` gives the range | three nodes, indices from beyond one end to beyond the other |
| `Rdb` | what is loaded was saved; a cut file invents nothing; the loader is never stuck (`LoaderGoesOn`) and every turn of it moves on (`LoadEnds`), so that it ends | two keys and four values that use every encoding of a string, two writes, three files to start from |
| `Replication` | the backlog's window, offsets, a complete stream for each replica, and each replica once in the array | three connections in any role, one command at a time, a backlog that overflows |
| `RespParser` | what is executed is what was sent, whatever the cuts (`Exact`); the snapshot's header is left alone; replies are exact and all are sent; ends of arguments fit their array | input and output buffers that fill up, initial capacity 1, scripts with arrays, lines, quotes, replies of a master, and up to one blocked write |
| `ReplicaSync` | the replica loads the promised file (`SnapshotIntact`), executes a prefix of the master's SETs (`AppliedPrefix`), never overstates its offset; transfer, handshake and stream make progress | one replica, two clients, four halves of commands, two saves, a snapshot of two parts, an output buffer of three elements, reads of every size |
| `EventLoop` | no pending event points to a freed client (`BatchLive`); nobody is starved; hang-ups are noticed; SIGINT saves | two connections in any role, batches of up to two of three descriptors, four requests, a replica's buffer of one |

`Commands` uses the view `<<db, now>>`: the other variables record the last
command and influence nothing that follows. Deadlock is not checked for
`Replication`, `ReplicaSync`, `RespParser` and `EventLoop`, because their inputs
are bounded and the process may die or sleep.

The bounds are small because each hazard needs few steps: a cut needs two reads,
an overflow one element more than fits, an early byte one read across the
header, and a stale event two events in a batch. A third connection in
`EventLoop` adds no new kind of neighbour: with two, a batch holds the listening
socket and a client, or a writer and a replica, in either order.

What the new properties leave out is what the list of departures describes.
`Exact`, `RepliesExact` and `AllAnswered` speak of a parser that has not lost the
stream, and the latter two of replies for which there was room. `AllAnswered`
leaves out a client whose last write was blocked. `SnapshotIntact`,
`SnapshotSent`, `ReplicaReady` and `CaughtUp` leave out another save during the
transfer; the last two leave out bytes that came with the header. `HangupNoticed`
is about clients that are not replicas, and `ShutdownSaves` admits a signal that
comes just before `epoll_wait`.

`StreamComplete` passes for clients that send whole commands and end a read that
has a SET with one, as those do that send one command at a time and wait.
The runs below show that it fails for clients that do not. It says nothing of a
replica whose buffer overflowed once, nor of commands other than SET, which the
server does not propagate.

The abstract store leaves open what the code does otherwise than the repository
says (see the list below): EXIST and DBSIZE may count dead keys, a silent client
may be replied to, replies are narrowed to an int, a time stamp of 0 is no
deadline, and the old value of a list is any text.

`RoundTrip` is about fewer than 256 keys, texts that are not read by `strtoll`
without being its decimal form, and lengths without a byte 255; the list below
says what happens otherwise.

### Runs that find a violation

Each states what a comment or a message in the code says, and TLC finds a
behaviour of the code that does otherwise. `PROJECT.json` quotes the line.

| Run | Property | What the code does |
|---|---|---|
| `RdbMasterRestart` | `RestartRestores` | a master does not load the file it saved; only a replica does |
| `ReplicationPipelined` | `StreamComplete` | SET and GET in one read: the SET is not propagated |
| `ReplicationSlowReplica` | `SlowReplicaDropped` | when a replica's buffer is full the writer is disconnected |
| `ReplicaEarly` | `SnapshotTaken` | bytes of the snapshot that came with its header are not counted, and the replica waits for them for ever |

### Other departures that the models contain

The models follow the code in these points too. No run is about them.

- `expiry_count` is not the number of keys with an expiry, as replacing and
  deleting a key leave it alone (`src/database.c:49`, `src/database.c:97`;
  `src/rdb.c:329` says it counts them).
- EXIST counts expired keys (`src/database.c:91`).
- INCR replies an int where it stores a long (`src/commands.c:309`).
- CONFIG SET gets no reply (`src/commands.c:392`), SAVE with an argument gets two
  (`src/commands.c:412`).
- SET with GET, and INCR, read a list as text (`src/commands.c:212`,
  `src/commands.c:289`).
- Of the writes only SET is marked for propagation (`src/command_handler.c:115`).
- PXAT 0 and EXAT 0 mean no expiration (`src/database.c:75`).
- Some handlers do not look at `should_reply` (`src/commands.c:263`).
- The length of a new list is not initialised (`src/linked_list.c:26`;
  `test/linked_list_test.cc:20` expects 0).
- Texts that `strtoll` reads whole, such as the empty one and 007, come back from
  the RDB file as the number (`src/rdb.c:252`).
- A byte 255 in a 32-bit length ends the load (`src/rdb.c:193`).
- The number of keys is written modulo 256, and the rest is not loaded
  (`src/rdb.c:328`).
- An expiration in seconds is converted in 32 bits (`src/rdb.c:105`).
- Half of a SET is propagated when it arrives in two reads (`src/client.c:169`).
- A save during a transfer replaces the file that is being sent: the replica gets
  parts of both, and if the size differs the transfer may not end
  (`src/rdb.c:313`, `src/replication.c:196`).
- A partial resynchronisation copies over the structure of the output buffer
  (`src/replication.c:385`), and the backlog is filled from the structure of the
  input buffer (`src/client.c:183`, `src/client.c:197`).
- The number of replicas is not compared with `MAX_REPLICAS`
  (`src/replication.c:135`).
- Commands buffered during a transfer wait for the next SET, as write events are
  switched off at its end (`src/replication.c:198`).
- The offset of an accepted PSYNC may leave the backlog before the event at which
  it is served (`src/replication.c:375`).
- A bulk string that is cut is read again at its full length
  (`src/resp.c:331`), and a line without its LF makes the parser go on one byte
  beyond its input (`src/resp.c:400`).
- A line that fills the input buffer is never parsed, and nothing more is read
  (`src/client.c:118`).
- What a regular client's socket does not take is sent only after the client's
  next request, since EPOLLOUT is not asked for (`src/client.c:85`).
- A writer without room leaves its bytes out and the rest of the reply follows;
  `write_chars` copies before it looks; snprintf puts a NUL over the last byte of
  an exact fit (`src/resp.c:142`, `src/resp.c:165`).
- `count_tokens` counts to the end of the buffer, not of the line
  (`src/resp.c:371`); the arrays are then larger than they need be.
- The replica does not take the offset from FULLRESYNC (`src/commands.c:501`: the
  arguments of sscanf are in the wrong places), and counts bytes only when the
  last command of a read is SET (`src/client.c:162`).
- A replica whose reply to PSYNC came without the header waits in a state that
  does not read from the socket (`src/replication.c:54`; line 83 says "need more
  data to complete the header").
- The end of the connection during the snapshot is not acted on
  (`src/replication.c:203`).
- Commands that were in the buffer when the snapshot ended are parsed with the
  next read only (`src/replication.c:118`).
- A replica's hang-up is not noticed (`src/redis-server.c:252`): the branch for
  EPOLLHUP is never taken, as the condition before it is always true
  (`src/redis-server.c:250`).
- SIGPIPE is not caught: two writes to a peer that has hung up end the server
  (`src/client.c:80`).
- On a replica, the client of the master may be freed in the EPOLLIN branch and
  used in the EPOLLOUT branch (`src/redis-server.c:258`). `Replica` ends with the
  first.
- SIGINT between the check and `epoll_wait` is seen at the next event only
  (`src/redis-server.c:274`).

### Fairness

Fairness is weak everywhere, and it is that of one thread which the system
schedules, and of level-triggered epoll, which reports an event until it is used
up. The assumptions include that peers read.

- `RespParser`: weak fairness of the whole next-state relation. Bytes that were
  sent arrive, and a socket is blocked at most `MaxBlocks` times.
- `ReplicaSync`: each of these is fair on its own: the accept of the replica's
  connection, the service of its request, the handling of its EPOLLOUT event on
  the master, and the replica's calls. Clients are not obliged to do anything.
- `EventLoop`: weak fairness of the server's step as a whole, not of its parts.
  That nobody is starved follows from the order of the kernel's list.

## Proofs

TLAPS checks these theorems for every value of the constants that satisfies the
named assumptions of the modules: any set of connections, keys, addresses or
chunks, and any size. TLC checked each inductive invariant on an instance before
it was proved.

The theorems of `DatabaseProofs` are about `DbSpec`, the database alone under
every sequence of its operations; the run `Commands` checks the same invariants
for the sequences that the handlers make.

| Module | Theorem | States | Argument |
|---|---|---|---|
| `RingBufferProofs` | `TypeCorrect`, `AssertNeverFails` | the types and `ASSERT_STATE` | together inductive: the bounds on the lengths keep the reader behind the writer |
| | `ViewsNeverOverlap` | the views share no cell | from `AssertState`: offsets from the read index that differ by less than `Size` are different cells |
| | `RingBufferIsQueue` | the refinement of `ByteQueue` | each step maps to a step of the queue, under the same invariant |
| `DatabaseProofs` | `DbTypeCorrect`, `KeyCountCorrect` | the type, and `key_count` is the number of keys | the operators preserve both; `Cardinality(Keys) < SizeMod` keeps the counter from wrapping |
| | `ListsNeverExpireCorrect` | a list has no deadline | every operator keeps lists undated, given the type of the database; a push makes a new entry without a deadline or keeps the one of a list |
| `LinkedListProofs` | `PointersValid`, `ShapeCorrect` | pointers lead to allocated nodes; both directions visit the same nodes, and the length is their number | the invariant says that the heap is one path: a sequence of distinct addresses whose neighbours point at each other, with head and tail at its ends |
| | `ListIsDeque` | the refinement of `Deque` | the path's items are the abstract sequence; induction over the walk of `lrange` shows that it collects the range |
| `ReplicationProofs` | `TypeCorrect` | the types of the master's state, the bound on output buffers included | inductive together with the invariants of the offsets and of the array, in three groups of fields; `Fits` keeps the bound |
| | `ReplicasOnceCorrect` | the array holds each replica once | inductive with the types of the array and of the connections' types: only a regular client is added, and the removed place is filled with the last |
| | `BacklogWindowCorrect` | the backlog lies between the two offsets | the inductive invariant is the types of the offsets, the window and `NeverAhead`; a chunk is at most as long as the backlog |
| | `NeverAheadCorrect` | the branch of `continue_psync` for a replica that is ahead is dead | the offset was at most the master's at PSYNC, and that one only grows |
| | `StreamCompleteCorrect` | `StreamComplete`, given `WholeReads` | `StreamInv`: the commands on the wire and in the buffer are whole, and their SETs are those since the snapshot; a chunk adds the same to both sides |
| `ReplicaSyncProofs` | `SyncTypeCorrect` | the counters of the transfer, and no error in the handshake | `SyncInv`, see below |
| | `SnapshotIntactCorrect` | the file that is loaded is the one promised | `SyncInv`: what was written to the file are the elements behind the header, in place |
| | `NeverOverstatesCorrect` | the replica's offset against the master's | `SyncInv` counts commands on the wire and in the buffer; `Counting` says that bytes are counted only once commands are sent |
| | `AppliedPrefixCorrect` | `AppliedPrefix`, given `WholeReads` | what was executed is the filter of what left the input buffer, a prefix of the stream of which `StreamInv` speaks |
| `EventLoopProofs` | `FieldsCorrect` | the fields keep their types (the first part of `TypeOK`) | inductive with the registration of descriptors |
| | `BatchLiveCorrect` | no pending event points to a freed client | the events of a batch are distinct, and a handler frees at most the client it was called for or a writer that is not in the batch behind it |

`SyncInv` has two halves. Before PSYNC is served (`Before`) the connection
carries the replies of the handshake, one per request, and the replica is in the
stage that their number says. From then on (`After`) the connection carries three
replies, `+FULLRESYNC`, the two parts of the header, parts of the snapshot, and
after those commands only. The replica has taken a prefix of it, of which the last
elements are in its input buffer. Each state of the handshake and of the transfer
says how far it is and what it has made of it. One version of the file is promised
as long as no other save comes in between. Each action preserves this: the
replica's because they move the border between what is used and what is not, the
master's because they only add to the end, or do nothing on this connection
(`Quiet`).

`WholeReads` is the hypothesis that a read returns whole commands and that one
with a SET ends with one. Clients that wait for each reply satisfy it, and so do
the chunks of the runs `Replication` and `ReplicaSync` (`MCReplication` assumes
it of them, and TLC evaluates that). `ReplicationPipelined` shows what happens
without it.

Only model-checked are:

- the liveness properties, and `LoaderGoesOn` of `Rdb`, which says that an action
  is enabled: fairness and ENABLED are out of the prover's reach;
- that no more SETs are executed than were sent, the last conjunct of `TypeOK` of
  `EventLoop`, whose invariant needs a sum over the connections;
- the refinement of `KeyValueStore`, and the properties of `Rdb` and
  `RespParser`.

The induction theorems of the library take an operator as a parameter, which the
installed provers cannot instantiate. `SequenceLemmas` proves induction over a
set (`SetInduction`) from the well-foundedness of the natural numbers, and with
it what `Filter` computes. Therefore `Filter` takes a set, where the library's
`SelectSeq` takes an operator.

## Not modelled

- `begin_fullresync` (`src/replication.c:311`), which nothing calls, and the
  command line, the resolution of the master's address and the socket calls of
  `start_server`, which run once and exit when they fail.
- Memory management, failures of system calls and of allocation, and the size of
  the buffer the parser collects arguments in.
- The parser after it has lost the stream.
- `khash.h`, which is a library used as a finite function, and `main.c`.

## Plan

1. Proofs: the refinement of `KeyValueStore`; `EndsFit` of `RespParser`; `TypeOK`
   and `NothingInvented` of `Rdb`.
2. Two replicas in `ReplicaSync`, once the state space allows it.
