------------------------------ MODULE MCRemoteTable ------------------------------
(***************************************************************************)
(* Instances of RemoteTable for TLC.  Byte 1 stands for any byte but null. *)
(***************************************************************************)
EXTENDS RemoteTable, TLC

CONSTANTS p1, p2, k1

TwoClients == {p1, p2}
OneKey == {k1}

\* One client puts and verifies, the other removes and reads.
Roles == [c \in Client |-> IF c = p1 THEN {"put", "verify"} ELSE {"del", "get"}]

\* Values: one that fills the block, one that is longer and has a null byte
\* inside, and an empty string.
Filled == [i \in 1 .. 24 |-> 1]
Holed == [i \in 1 .. 25 |-> IF i = 3 THEN 0 ELSE 1]
Values == {Filled, Holed, <<0>>}
==================================================================================
