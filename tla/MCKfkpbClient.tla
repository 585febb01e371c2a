--------------------------- MODULE MCKfkpbClient ---------------------------
(* Two decode threads, one key, one topic: the key goes to thread 1, and     *)
(* messages without key to both in turn.                                     *)
EXTENDS KfkpbClient

MCWorkerOf == [key \in Keys |-> 1]
=============================================================================
