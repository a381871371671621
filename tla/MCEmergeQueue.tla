--------------------------- MODULE MCEmergeQueue ----------------------------
(* Instances of EmergeQueue: two positions, one client and two threads are *)
(* enough for requests to be joined, refused, moved between queues and     *)
(* cancelled.                                                              *)
EXTENDS EmergeQueue

CONSTANTS p1, p2, client, inexistent

Pos1 == {p1}
Pos2 == {p1, p2}
TheClient == {client}
Nowhere == {}
=============================================================================
