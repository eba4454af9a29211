-------------------------------- MODULE Deque --------------------------------
(***************************************************************************)
(* What src/linked_list.h promises: a sequence that grows at both ends and *)
(* of which a range can be read.                                           *)
(***************************************************************************)
EXTENDS Sequences, ListRange

CONSTANTS Data, Indices

VARIABLES items, answer, call

Init == items = <<>> /\ answer = <<>> /\ call = <<"create_list">>

PushFront(d) == call' = <<"lpush", d>> /\ items' = <<d>> \o items /\ UNCHANGED answer
PushBack(d) == call' = <<"rpush", d>> /\ items' = Append(items, d) /\ UNCHANGED answer
Clear == call' = <<"destroy_list">> /\ items' = <<>> /\ UNCHANGED answer
Ask(i, j) ==
    call' = <<"lrange", i, j>> /\ answer' = Slice(items, i, j) /\ UNCHANGED items

Next ==
    \/ \E d \in Data : PushFront(d) \/ PushBack(d)
    \/ \E i, j \in Indices : Ask(i, j)
    \/ Clear

Spec == Init /\ [][Next]_<<items, answer, call>>
==============================================================================
