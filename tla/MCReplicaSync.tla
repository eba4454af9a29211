---------------------------- MODULE MCReplicaSync ----------------------------
(***************************************************************************)
(* A master, a replica and a client that writes.                           *)
(***************************************************************************)
EXTENDS ReplicaSync

Set1 == [cmd |-> "SET", part |-> 1]
Set2 == [cmd |-> "SET", part |-> 2]
Get1 == [cmd |-> "GET", part |-> 1]
Get2 == [cmd |-> "GET", part |-> 2]

WholeCommands == {<<Set1, Set2>>, <<Get1, Get2>>, <<Set1, Set2, Set1, Set2>>}

\* The clients of this instance satisfy the hypothesis about reads.
ASSUME ReadsAssumption == \A chunk \in WholeCommands : WholeRead(chunk)
==============================================================================
