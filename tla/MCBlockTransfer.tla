--------------------------- MODULE MCBlockTransfer ---------------------------
(* A direction to look in, where near may hide far, and one to look away.  *)
EXTENDS BlockTransfer, TLC

CONSTANTS near, mid, far, ahead, aside

MCViews == {ahead, aside}
MCInSight == (ahead :> Blocks) @@ (aside :> Blocks \ {far})
MCRank == (ahead :> (near :> 1 @@ mid :> 2 @@ far :> 3)) @@ (aside :> (near :> 2 @@ mid :> 1 @@ far :> 3))
MCDistance == (ahead :> (near :> 0 @@ mid :> 1 @@ far :> 3)) @@ (aside :> (near :> 1 @@ mid :> 0 @@ far :> 4))
MCPriority == (ahead :> (near :> 1 @@ mid :> 3 @@ far :> 2)) @@ (aside :> (near :> 2 @@ mid :> 1 @@ far :> 3))
MCHides == [v \in MCViews |-> [b \in Blocks |-> IF v = ahead /\ b = far THEN {near} ELSE {}]]
MCBorder == [b \in Blocks |-> Blocks \ {b}]
None == {}
Channels == {"channels"}
AcrossBorder == {"border"}
Unloaded == {"unloaded"}
=============================================================================
