----------------------------- MODULE LinkedList ------------------------------
(***************************************************************************)
(* src/linked_list.c: a doubly linked list in a heap of nodes.  Allocation *)
(* does not fail.  create_list leaves the length uninitialised.            *)
(***************************************************************************)
EXTENDS Integers, Sequences

CONSTANTS
    Data,      \* the strings pushed
    Indices,   \* the arguments of lrange
    Garbage,   \* what malloc may leave in the length
    MaxNodes   \* bound: nodes in the heap

ASSUME LengthAssumption == Garbage \subseteq Nat /\ MaxNodes \in Nat /\ Indices \subseteq Int

VARIABLES
    head, tail, length,   \* struct list_struct
    heap,                 \* the nodes, from addresses to [data, prev, next]
    result,               \* what lrange returned
    call                  \* history: the last call and its arguments

vars == <<head, tail, length, heap, result, call>>

NULL == 0
Address == 1 .. MaxNodes
Fresh == CHOOSE a \in Address \ DOMAIN heap : \A b \in Address \ DOMAIN heap : a <= b
With(h, a, node) == [b \in DOMAIN h \cup {a} |-> IF b = a THEN node ELSE h[b]]

create_list == head = NULL /\ tail = NULL /\ length \in Garbage
Init == create_list /\ heap = <<>> /\ result = <<>> /\ call = <<"create_list">>

\* Mutant: the length is counted up from what it was.
Single_Counted(a, d) ==
    /\ heap' = With(heap, a, [data |-> d, prev |-> NULL, next |-> NULL])
    /\ head' = a /\ tail' = a /\ length' = length + 1

\* The first node of an empty list.
Single(a, d) ==
    /\ heap' = With(heap, a, [data |-> d, prev |-> NULL, next |-> NULL])
    /\ head' = a /\ tail' = a /\ length' = 1

CanPush == DOMAIN heap # Address

\* Mutant: the old head keeps its prev.
lpush_NoBackLink(d) ==
    /\ CanPush /\ call' = <<"lpush", d>>
    /\ IF head = NULL /\ tail = NULL THEN Single(Fresh, d)
       ELSE /\ heap' = With(heap, Fresh, [data |-> d, prev |-> NULL, next |-> head])
            /\ head' = Fresh
            /\ length' = length + 1
            /\ UNCHANGED tail
    /\ UNCHANGED result

lpush(d) ==
    /\ CanPush /\ call' = <<"lpush", d>>
    /\ IF head = NULL /\ tail = NULL THEN Single(Fresh, d)
       ELSE /\ heap' = With([heap EXCEPT ![head].prev = Fresh], Fresh,
                            [data |-> d, prev |-> NULL, next |-> head])
            /\ head' = Fresh
            /\ length' = length + 1
            /\ UNCHANGED tail
    /\ UNCHANGED result

rpush(d) ==
    /\ CanPush /\ call' = <<"rpush", d>>
    /\ IF head = NULL /\ tail = NULL THEN Single(Fresh, d)
       ELSE /\ heap' = With([heap EXCEPT ![tail].next = Fresh], Fresh,
                            [data |-> d, prev |-> tail, next |-> NULL])
            /\ tail' = Fresh
            /\ length' = length + 1
            /\ UNCHANGED head
    /\ UNCHANGED result

\* The node n links away from a, or NULL when the list ends before.
Follow(a, link, n) ==
    LET at[i \in 0 .. n] == IF i = 0 THEN a
                            ELSE IF at[i - 1] = NULL THEN NULL
                            ELSE heap[at[i - 1]][link]
    IN  at[n]

\* The two loops of lrange: to the start, then count nodes or to the end.
Collected(start, count) ==
    LET there == {i \in 1 .. count : Follow(head, "next", start + i - 1) # NULL}
    IN  [i \in there |-> heap[Follow(head, "next", start + i - 1)].data]

\* An index that is negative counts from the end that the length says.
FromEnd(i) == IF i < 0 THEN length + i ELSE i

lrange(i, j) ==
    LET start == FromEnd(i)
        end == FromEnd(j)
        last == IF end >= length THEN length - 1 ELSE end
    IN  /\ call' = <<"lrange", i, j>>
        /\ result' = IF start < 0 \/ start >= length \/ end < start THEN <<>>
                     ELSE Collected(start, last - start + 1)
        /\ UNCHANGED <<head, tail, length, heap>>

\* destroy_list walks the nodes and frees each; then a new list is made.
Freed == {Follow(head, "next", n) : n \in 0 .. MaxNodes} \ {NULL}

\* Mutant: the tail of the freed list is kept.
destroy_list_KeepsTail ==
    /\ call' = <<"destroy_list">>
    /\ head' = NULL /\ UNCHANGED tail /\ length' \in Garbage
    /\ heap' = [a \in DOMAIN heap \ Freed |-> heap[a]]
    /\ UNCHANGED result

destroy_list ==
    /\ call' = <<"destroy_list">>
    /\ head' = NULL /\ tail' = NULL /\ length' \in Garbage
    /\ heap' = [a \in DOMAIN heap \ Freed |-> heap[a]]
    /\ UNCHANGED result

Next ==
    \/ \E d \in Data : lpush(d) \/ rpush(d)
    \/ \E i, j \in Indices : lrange(i, j)
    \/ destroy_list

Spec == Init /\ [][Next]_vars

------------------------------------------------------------------------------
Node == [data : Data, prev : {NULL} \cup Address, next : {NULL} \cup Address]

\* The pointers of list_t and of its nodes lead to nodes that were allocated.
TypeOK ==
    /\ {head, tail} \subseteq {NULL} \cup DOMAIN heap
    /\ length \in Nat
    /\ DOMAIN heap \subseteq Address /\ \A a \in DOMAIN heap : heap[a] \in Node

Size == CHOOSE n \in 0 .. MaxNodes : Follow(head, "next", n) = NULL
                                      /\ \A m \in 0 .. n - 1 : Follow(head, "next", m) # NULL

\* Walking the list forwards and backwards visits the same nodes, they are all
\* the nodes there are, so that none is leaked, and the length of a list that
\* has any is their number: whichever ends the pushes were at.
Shape ==
    LET n == Size IN
    /\ Freed = DOMAIN heap
    /\ \A i \in 0 .. n - 1 : Follow(head, "next", i) = Follow(tail, "prev", n - 1 - i)
    /\ n > 0 => length = n

\* The list is the sequence that linked_list.h promises, and lrange, which walks
\* it by a length that may be uninitialised, gives the range of that sequence.
Items == [i \in 1 .. Size |-> heap[Follow(head, "next", i - 1)].data]
Abstract == INSTANCE Deque WITH items <- Items, answer <- result
ImplementsDeque == Abstract!Spec
==============================================================================
