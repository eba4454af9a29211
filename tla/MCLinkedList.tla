---------------------------- MODULE MCLinkedList -----------------------------
(* LinkedList on three nodes, with ranges inside and on both sides of it. *)
EXTENDS LinkedList

MCIndices == {-4, -2, -1, 0, 1, 3}
==============================================================================
