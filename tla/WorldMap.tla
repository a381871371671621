------------------------------ MODULE WorldMap ------------------------------
(***************************************************************************)
(* What the map promises to a mod: every block has one current content,    *)
(* which only changes when somebody writes, generates or deletes it.       *)
(* Loading, saving and unloading cannot be seen.  Every write is a new     *)
(* value, so that an older content cannot come back unnoticed.             *)
(***************************************************************************)
EXTENDS Integers

CONSTANTS Blocks

VARIABLES world,    \* block -> number of the write it shows, 0 for nothing
          writes    \* number of writes so far

Init == world = [b \in Blocks |-> 0] /\ writes = 0

\* A node is set, or a chunk is generated: some blocks get a new content.
Write(S) ==
    /\ writes' = writes + 1
    /\ world' = [b \in Blocks |-> IF b \in S THEN writes' ELSE world[b]]

Delete(b) == world' = [world EXCEPT ![b] = 0] /\ UNCHANGED writes

Next == (\E S \in SUBSET Blocks : Write(S)) \/ (\E b \in Blocks : Delete(b))

Spec == Init /\ [][Next]_<<world, writes>>
=============================================================================
