---------------------------- MODULE MCServerMap -----------------------------
(* Instances of ServerMap: a chunk of two blocks in two columns and one of *)
(* a single block, each of which has a block of the other in its border.   *)
EXTENDS ServerMap, TLC

CONSTANTS a, b, c, X, Y, t1, t2

ThreeBlocks == {a, b, c}
TwoChunks == {X, Y}
OneThread == {t1}
TwoThreads == {t1, t2}
ThreadSymmetry == Permutations(TwoThreads)
Sectors == [x \in ThreeBlocks |-> IF x = c THEN 2 ELSE 1]
Interiors == [x \in TwoChunks |-> IF x = X THEN {a, b} ELSE {c}]
FullAreas == [x \in TwoChunks |-> IF x = X THEN {a, b, c} ELSE {b, c}]
ChunkOfBlock == [x \in ThreeBlocks |-> IF x = c THEN Y ELSE X]
NoChunks == {}
MapgenError == {"mapgen error"}
SaveFails == {"save fails"}
=============================================================================
