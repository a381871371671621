------------------------- MODULE MCReliableChannel --------------------------
(* Small instances of ReliableChannel.  The number space has 8 or 12       *)
(* numbers and starts a few short of its end, so that every buffer and     *)
(* window calculation is taken across the wrap.                            *)
EXTENDS ReliableChannel

Window2     == {2}
Window2or4  == {2, 4}
TwoChunks   == {2}
ThreeChunks == {3}

ASSUME InstanceAssumption == NumbersSuffice
=============================================================================
