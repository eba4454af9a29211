---------------------------- MODULE MCReplication ----------------------------
(***************************************************************************)
(* Replication on small instances: what one read returns.                  *)
(***************************************************************************)
EXTENDS Replication, TLC

Set1 == [cmd |-> "SET", part |-> 1]
Set2 == [cmd |-> "SET", part |-> 2]
Get1 == [cmd |-> "GET", part |-> 1]
Get2 == [cmd |-> "GET", part |-> 2]

\* Clients that send a command in one piece and wait for the reply.
OneByOne == {<<Set1, Set2>>, <<Get1, Get2>>}

\* The same, and clients that pipeline two SETs.
WholeCommands == {<<Set1, Set2>>, <<Get1, Get2>>, <<Set1, Set2, Set1, Set2>>}

\* A client that pipelines a SET and a GET.
Pipelined == {<<Set1, Set2>>, <<Set1, Set2, Get1, Get2>>}

\* What the proof that the stream is complete asks of the reads.
ASSUME ReadsAssumption ==
    /\ \A chunk \in OneByOne \cup WholeCommands : WholeRead(chunk)
    /\ \E chunk \in Pipelined : ~ WholeRead(chunk)

Symmetry == Permutations(Conns)
==============================================================================
