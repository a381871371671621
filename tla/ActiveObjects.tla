---------------------------- MODULE ActiveObjects ----------------------------
(***************************************************************************)
(* The active objects of the server environment (entities of mods; players *)
(* are in ClientSession), their static copies in the blocks of the map and *)
(* the clients that know them.  Everything here holds the environment      *)
(* lock, but the callbacks of mods run in the middle of it: an update of   *)
(* the active blocks goes object by object and block by block, and mods    *)
(* may add, move, remove and clear objects or delete blocks between any    *)
(* two of them.                                                            *)
(*                                                                         *)
(* An entity stands for a LuaEntitySAO and all its data, through all the   *)
(* active objects and static objects it becomes.  m_static_exists is that  *)
(* m_static_block is not None.  Attachments, observers and ranges are left *)
(* out: which objects a client is to see is any set of them.               *)
(***************************************************************************)
EXTENDS Integers, FiniteSets, Functions

CONSTANTS
    Ids,                  \* object ids but 0
    Entities,             \* what add_entity is called for, once each
    NotSaved,             \* those defined with static_save = false
    Blocks,
    None,
    Clients,
    FarApart,             \* pairs of blocks, ACTIVE_OBJECT_RESAVE_DISTANCE_SQ
    MaxObjectsPerBlock,   \* get_max_objects_per_block
    Races,                \* what the environment does not keep apart
    MaxChanges            \* bound: what mods do, and chunks that are generated

(* "unload early": a block with static data of objects that the next steps *)
(* of the environment would store, move or delete is unloaded before that. *)
(* "unload unsaved": a block is unloaded with the static data of an object *)
(* that was saved there, is not to be saved any more, and is still active. *)
(* "generate uncleared": a block is generated that has stored objects from *)
(* before the last clearObjects.                                           *)
(* "gone at shutdown": an object that is removed, or deactivated in a      *)
(* block deleted since, is not yet deleted when the server stops.          *)
KnownRaces == {"unload early", "unload unsaved", "generate uncleared", "gone at shutdown"}

ASSUME ActiveObjectsAssumption ==
    /\ IsFiniteSet(Ids) /\ IsFiniteSet(Entities) /\ IsFiniteSet(Clients)
    /\ NotSaved \subseteq Entities
    /\ None \notin Ids \cup Blocks
    /\ FarApart \subseteq Blocks \X Blocks
    /\ MaxObjectsPerBlock \in Nat
    /\ Races \subseteq KnownRaces
    /\ MaxChanges \in Nat

VARIABLES
    m_active_objects,     \* id -> ServerActiveObject
    m_map,                \* block -> its objects, the blocks in memory
    dbase,                \* block -> its objects, the blocks in the database
    m_active_blocks,
    m_known_objects,      \* client -> id -> the entity it was told of
    m_shutting_down,
    pc, todo, removed, added,   \* how far the update of active blocks is
    created,              \* the entities added so far
    alive,                \* those that nobody removed or cleared
    changes               \* what mods have done, and chunks that were generated

updateVars == <<pc, todo, removed, added>>
vars == <<m_active_objects, m_map, dbase, m_active_blocks, m_known_objects,
          m_shutting_down, updateVars, created, alive, changes>>

Nothing == [x \in {} |-> None]
With(f, x, v) == [y \in DOMAIN f \cup {x} |-> IF y = x THEN v ELSE f[y]]
Without(f, S) == [x \in DOMAIN f \ S |-> f[x]]

Objects == DOMAIN m_active_objects
FreeIds == Ids \ Objects            \* getFreeId takes one of them
Gone(o) == o.pending_removal \/ o.pending_deactivation
Known(c) == DOMAIN m_known_objects[c]

\* The properties of a new object are those of its definition.
NewObject(e, pos, static_block) ==
    [entity |-> e, pos |-> pos, static_allowed |-> e \notin NotSaved,
     static_block |-> static_block, known_by_count |-> 0,
     pending_removal |-> FALSE, pending_deactivation |-> FALSE]

-----------------------------------------------------------------------------
(* Blocks and their static objects.  The timestamp of a block is undefined *)
(* until it is generated or first activated; it is old when it is from     *)
(* before the last clearObjects.                                           *)

\* The number of copies of each entity in m_stored, whose order is left out.
NoneStored == [e \in Entities |-> 0]
Plus(stored, e) == [stored EXCEPT ![e] = @ + 1]
Kinds(stored) == {e \in Entities : stored[e] > 0}
CopiesIn(stored) == UNION {{<<e, i>> : i \in 1 .. stored[e]} : e \in Entities}
StoredSize(stored) == Cardinality(CopiesIn(stored))

Blank == [stored |-> NoneStored, active |-> Nothing, modified |-> FALSE, stamp |-> "undefined"]

FromDisk(s) == [Blank EXCEPT !.stored = s.stored, !.stamp = s.stamp]

\* What serialize writes: stored and active objects alike.
OnDisk(block) ==
    [stored |-> [e \in Entities |->
         block.stored[e] + Cardinality({id \in DOMAIN block.active : block.active[id] = e})],
     stamp |-> block.stamp]

emergeBlock(m, b, create_blank) ==
    IF b \in DOMAIN m THEN m
    ELSE IF b \in DOMAIN dbase THEN With(m, b, FromDisk(dbase[b]))
    ELSE IF create_blank THEN With(m, b, Blank)
    ELSE m

\* Variant: the block that the object has left is not marked as modified.
deleteStaticFromBlock_Unsaved(m, id, o, raise_modified) ==
    LET b  == o.static_block
        m2 == IF b = None THEN m ELSE emergeBlock(m, b, FALSE)
    IN  IF b = None \/ b \notin DOMAIN m2 THEN [map |-> m2, obj |-> o]
        ELSE [map |-> [m2 EXCEPT ![b].active = Without(@, {id})],
              obj |-> [o EXCEPT !.static_block = None]]

\* A block that cannot be had leaves the object as it is.
deleteStaticFromBlock(m, id, o, raise_modified) ==
    LET b     == o.static_block
        m2    == IF b = None THEN m ELSE emergeBlock(m, b, FALSE)
        block == [m2[b] EXCEPT !.active = Without(@, {id}), !.modified = @ \/ raise_modified]
    IN
    IF b = None \/ b \notin DOMAIN m2 THEN [map |-> m2, obj |-> o]
    ELSE [map |-> [m2 EXCEPT ![b] = block], obj |-> [o EXCEPT !.static_block = None]]

\* Variant: the object does not learn where its static data is now.
saveStaticToBlock_Forgets(m, b, store_id, o, raise_modified) ==
    [ok  |-> TRUE,
     map |-> [emergeBlock(m, b, TRUE) EXCEPT
                 ![b].stored = IF store_id = None THEN Plus(@, o.entity) ELSE @,
                 ![b].active = IF store_id = None THEN @ ELSE With(@, store_id, o.entity),
                 ![b].modified = @ \/ raise_modified],
     obj |-> o]

\* store_id is None, 0 in the code, for an object that becomes static at once.
saveStaticToBlock(m, b, store_id, o, raise_modified) ==
    LET m2 == emergeBlock(m, b, TRUE)
        block == [m2[b] EXCEPT
                     !.stored = IF store_id = None THEN Plus(@, o.entity) ELSE @,
                     !.active = IF store_id = None THEN @ ELSE With(@, store_id, o.entity),
                     !.modified = @ \/ raise_modified]
    IN
    IF StoredSize(m2[b].stored) >= MaxObjectsPerBlock
    THEN [ok |-> FALSE, map |-> m2, obj |-> o]
    ELSE [ok |-> TRUE, map |-> [m2 EXCEPT ![b] = block], obj |-> [o EXCEPT !.static_block = b]]

-----------------------------------------------------------------------------
Init ==
    /\ m_active_objects = Nothing
    /\ m_map = Nothing /\ dbase = Nothing
    /\ m_active_blocks = {}
    /\ m_known_objects = [c \in Clients |-> Nothing]
    /\ m_shutting_down = FALSE
    /\ pc = "idle" /\ todo = {} /\ removed = {} /\ added = {}
    /\ created = {} /\ alive = {} /\ changes = 0

-----------------------------------------------------------------------------
(* What mods do, from their own callbacks too                              *)

ByMod ==
    /\ pc \in {"idle", "deactivate", "activate"}
    /\ changes < MaxChanges /\ changes' = changes + 1

\* add_entity: addActiveObject, addActiveObjectRaw
addActiveObject(e, b) ==
    /\ ByMod /\ ~m_shutting_down
    /\ e \notin created
    /\ \E id \in FreeIds :
        /\ m_active_objects' = With(m_active_objects, id,
               NewObject(e, b, IF e \in NotSaved THEN None ELSE b))
        /\ LET m2 == emergeBlock(m_map, b, TRUE)
               block == [m2[b] EXCEPT !.active = With(@, id, e), !.modified = TRUE]
           IN  m_map' = IF e \in NotSaved THEN m_map ELSE [m2 EXCEPT ![b] = block]
    /\ created' = created \cup {e}
    /\ alive' = alive \cup {e}
    /\ UNCHANGED <<dbase, m_active_blocks, m_known_objects, m_shutting_down, updateVars>>

\* Objects that are gone cannot be reached by mods and take no steps.
setBasePosition(id, b) ==
    /\ ByMod
    /\ ~Gone(m_active_objects[id]) /\ b # m_active_objects[id].pos
    /\ m_active_objects' = [m_active_objects EXCEPT ![id].pos = b]
    /\ UNCHANGED <<m_map, dbase, m_active_blocks, m_known_objects, m_shutting_down,
                   updateVars, created, alive>>

\* set_properties{static_save = ...}
setStaticSave(id) ==
    /\ ByMod
    /\ ~Gone(m_active_objects[id])
    /\ m_active_objects' = [m_active_objects EXCEPT ![id].static_allowed = ~@]
    /\ UNCHANGED <<m_map, dbase, m_active_blocks, m_known_objects, m_shutting_down,
                   updateVars, created, alive>>

\* object:remove(), or the object has died
markForRemoval(id) ==
    /\ ByMod
    /\ ~Gone(m_active_objects[id])
    /\ m_active_objects' = [m_active_objects EXCEPT ![id].pending_removal = TRUE]
    /\ alive' = alive \ {m_active_objects[id].entity}
    /\ UNCHANGED <<m_map, dbase, m_active_blocks, m_known_objects, m_shutting_down,
                   updateVars, created>>

Aged(stamp) == IF stamp = "current" THEN "old" ELSE stamp

\* What a quick clearObjects leaves alone: it loads no block, and one
\* without a timestamp is never found to be old.
Missed(e) ==
    \E b \in DOMAIN dbase \ DOMAIN m_map :
        dbase[b].stamp = "undefined" /\ dbase[b].stored[e] > 0

\* clearObjects.  Blocks that are active already get a new timestamp before
\* anything looks at the old one.
clearObjects(full) ==
    /\ ByMod
    /\ m_active_objects' =
           [id \in {i \in Objects : m_active_objects[i].known_by_count > 0} |->
               [m_active_objects[id] EXCEPT
                   !.pending_removal = TRUE,
                   !.static_block = IF @ \in DOMAIN m_map THEN None ELSE @]]
    /\ m_map' = [b \in DOMAIN m_map |->
           [stored |-> NoneStored, active |-> Nothing,
            modified |-> \/ m_map[b].modified
                         \/ m_map[b].stored # NoneStored \/ m_map[b].active # Nothing
                         \/ \E id \in Objects : m_active_objects[id].static_block = b,
            stamp |-> IF b \in m_active_blocks \ added THEN m_map[b].stamp
                      ELSE Aged(m_map[b].stamp)]]
    /\ dbase' = [b \in DOMAIN dbase |->
           [stored |-> IF full /\ b \notin DOMAIN m_map THEN NoneStored ELSE dbase[b].stored,
            stamp |-> Aged(dbase[b].stamp)]]
    /\ alive' = IF full THEN {} ELSE {e \in alive : Missed(e)}
    /\ UNCHANGED <<m_active_blocks, m_known_objects, m_shutting_down, updateVars, created>>

\* core.delete_area.  The block is out of the map when
\* setStaticForActiveObjectsInBlock looks for it, so that the active objects
\* keep m_static_exists.
deleteBlock(b) ==
    LET HeldIn(m) == {id \in DOMAIN m[b].active :
                        id \in Objects /\ Gone(m_active_objects[id])}
        lost == IF b \in DOMAIN m_map
                THEN Kinds(m_map[b].stored)
                     \cup {m_map[b].active[id] : id \in HeldIn(m_map)}
                ELSE Kinds(dbase[b].stored)
    IN
    /\ ByMod
    /\ b \in DOMAIN m_map \cup DOMAIN dbase
    /\ m_map' = Without(m_map, {b})
    /\ dbase' = Without(dbase, {b})
    /\ alive' = alive \ lost
    /\ UNCHANGED <<m_active_objects, m_active_blocks, m_known_objects, m_shutting_down,
                   updateVars, created>>

-----------------------------------------------------------------------------
(* The update of the active blocks                                         *)

\* ActiveBlockList::update; the players may be anywhere.
UpdateActiveBlocks(new) ==
    /\ pc = "idle" /\ ~m_shutting_down
    /\ m_active_blocks' = new
    /\ removed' = m_active_blocks \ new
    /\ added' = new \ m_active_blocks
    /\ pc' = "deactivate" /\ todo' = Objects
    /\ UNCHANGED <<m_active_objects, m_map, dbase, m_known_objects, m_shutting_down,
                   created, alive, changes>>

\* The object has left the block its static data is in for another active one.
ResaveDue(o) ==
    /\ o.static_allowed /\ o.static_block # None
    /\ o.pos \in m_active_blocks
    /\ \/ o.static_block \notin m_active_blocks
       \/ <<o.pos, o.static_block>> \in FarApart

StillActive(o) ==
    IF o.static_allowed THEN o.pos \in m_active_blocks ELSE o.pos \in DOMAIN m_map

\* deactivateFarObjects for one object that stays as it is, ...
KeepObject(id) ==
    /\ pc = "deactivate" /\ id \in todo
    /\ id \in Objects => LET o == m_active_objects[id] IN
                          Gone(o) \/ (StillActive(o) /\ ~ResaveDue(o))
    /\ todo' = todo \ {id}
    /\ UNCHANGED <<m_active_objects, m_map, dbase, m_active_blocks, m_known_objects,
                   m_shutting_down, pc, removed, added, created, alive, changes>>

\* ... for one whose static data moves, ...
ResaveObject(id) ==
    /\ pc = "deactivate" /\ id \in todo \cap Objects
    /\ LET o == m_active_objects[id]
           d == deleteStaticFromBlock(m_map, id, o, TRUE)
           s == saveStaticToBlock(d.map, o.pos, id, d.obj, TRUE)
       IN
       /\ ~Gone(o) /\ ResaveDue(o)
       /\ m_active_objects' = [m_active_objects EXCEPT ![id] = s.obj]
       /\ m_map' = s.map
    /\ todo' = todo \ {id}
    /\ UNCHANGED <<dbase, m_active_blocks, m_known_objects, m_shutting_down,
                   pc, removed, added, created, alive, changes>>

\* The old static data is there and may be as good as the new.
DataChanged(id) ==
    LET b == m_active_objects[id].static_block
        m == emergeBlock(m_map, b, FALSE)
    IN  IF b \in DOMAIN m /\ id \in DOMAIN m[b].active THEN BOOLEAN ELSE {TRUE}

\* ... and for one that is deactivated.  pending: a client knows it, so it
\* keeps its id for now, with its static data as an active one.
DeactivateObject(id, pending, data_changed) ==
    LET o == m_active_objects[id]
        shall_be_written == o.static_block # o.pos \/ data_changed
        d == deleteStaticFromBlock(m_map, id, o, o.static_allowed => shall_be_written)
        s == IF o.static_allowed
             THEN saveStaticToBlock(d.map, o.pos, IF pending THEN id ELSE None, d.obj,
                                    shall_be_written)
             ELSE [ok |-> TRUE, map |-> d.map, obj |-> d.obj]
    IN
    /\ m_map' = s.map
    /\ m_active_objects' =
           IF pending /\ s.ok
           THEN [m_active_objects EXCEPT ![id] = [s.obj EXCEPT !.pending_deactivation = TRUE]]
           ELSE Without(m_active_objects, {id})
    /\ alive' = IF o.static_allowed /\ s.ok THEN alive ELSE alive \ {o.entity}

DeactivateFar(id) ==
    /\ pc = "deactivate" /\ id \in todo \cap Objects
    /\ LET o == m_active_objects[id] IN
       /\ ~Gone(o) /\ ~ResaveDue(o) /\ ~StillActive(o)
       /\ \E data_changed \in DataChanged(id) :
             DeactivateObject(id, o.known_by_count > 0, data_changed)
    /\ todo' = todo \ {id}
    /\ UNCHANGED <<dbase, m_active_blocks, m_known_objects, m_shutting_down,
                   pc, removed, added, created, changes>>

\* The blocks removed get a timestamp and are to be written when unloaded.
StampRemoved ==
    /\ pc = "deactivate" /\ todo = {}
    /\ m_map' = [b \in DOMAIN m_map |->
                    IF b \in removed THEN [m_map[b] EXCEPT !.modified = TRUE, !.stamp = "current"]
                    ELSE m_map[b]]
    /\ pc' = "activate" /\ removed' = {}
    /\ UNCHANGED <<m_active_objects, dbase, m_active_blocks, m_known_objects,
                   m_shutting_down, todo, added, created, alive, changes>>

\* activateObjects makes an object of each static one as far as there are
\* ids; the rest of m_stored is dropped as well.  It is one step: callbacks
\* that delete the block before all its objects are made are left out.
ActivateObjects(b) ==
    LET block == m_map[b]
        stored == IF block.stamp = "old" THEN {} ELSE CopiesIn(block.stored)
        too_many == Cardinality(stored) > MaxObjectsPerBlock
        free == Cardinality(FreeIds)
    IN
    \E made \in SUBSET stored :
        /\ CASE too_many -> made = {}
             [] Cardinality(stored) <= free -> made = stored
             [] OTHER -> Cardinality(made) = free
        /\ \E id_of \in Injection(made, FreeIds) :
              LET ids == Range(id_of)
                  entity_of == [id \in ids |-> (CHOOSE copy \in made : id_of[copy] = id)[1]]
              IN
              /\ m_active_objects' = [id \in Objects \cup ids |->
                     IF id \in ids THEN NewObject(entity_of[id], b, b)
                     ELSE m_active_objects[id]]
              /\ m_map' = [m_map EXCEPT ![b] =
                     [stored |-> NoneStored,
                      active |-> [id \in DOMAIN block.active \cup ids |->
                                     IF id \in ids THEN entity_of[id] ELSE block.active[id]],
                      modified |-> block.modified \/ too_many,
                      stamp |-> "current"]]
        /\ alive' = alive \ {copy[1] : copy \in CopiesIn(block.stored) \ made}

ActivateBlock(b) ==
    /\ pc = "activate" /\ b \in added
    /\ added' = added \ {b}
    /\ IF b \in DOMAIN m_map
       THEN ActivateObjects(b) /\ UNCHANGED m_active_blocks
       ELSE m_active_blocks' = m_active_blocks \ {b}
            /\ UNCHANGED <<m_active_objects, m_map, alive>>
    /\ UNCHANGED <<dbase, m_known_objects, m_shutting_down, pc, todo, removed, created, changes>>

FinishUpdate ==
    /\ pc = "activate" /\ added = {}
    /\ pc' = "idle"
    /\ UNCHANGED <<m_active_objects, m_map, dbase, m_active_blocks, m_known_objects,
                   m_shutting_down, todo, removed, added, created, alive, changes>>

-----------------------------------------------------------------------------
(* Objects that are gone, and the clients that know them                   *)

\* The step of removeRemovedObjects for one object.
removeRemovedObject(id) ==
    LET o == m_active_objects[id]
        b == o.static_block
        d == IF o.pending_removal THEN deleteStaticFromBlock(m_map, id, o, TRUE)
             ELSE [map |-> m_map, obj |-> o]
        stores == ~o.pending_removal /\ b # None
        m2 == IF stores THEN emergeBlock(m_map, b, FALSE) ELSE d.map
        storeActiveObject == stores /\ b \in DOMAIN m2 /\ id \in DOMAIN m2[b].active
        block == [m2[b] EXCEPT !.stored = Plus(@, o.entity),
                               !.active = Without(@, {id}), !.modified = TRUE]
    IN
    /\ pc = "idle"
    /\ Gone(o)
    /\ IF o.known_by_count > 0
       THEN m_active_objects' = [m_active_objects EXCEPT ![id] = d.obj] /\ m_map' = d.map
       ELSE /\ m_active_objects' = Without(m_active_objects, {id})
            /\ m_map' = IF storeActiveObject THEN [m2 EXCEPT ![b] = block] ELSE m2
    /\ UNCHANGED <<dbase, m_active_blocks, m_known_objects, m_shutting_down, updateVars,
                   created, alive, changes>>

\* Variant: an object that leaves a client because it is gone keeps its count.
Recounted_Gone(c, now) ==
    [id \in Objects |->
        [m_active_objects[id] EXCEPT !.known_by_count =
            IF id \in now \ Known(c) THEN @ + 1
            ELSE IF id \in Known(c) \ now /\ @ > 0 /\ ~Gone(m_active_objects[id]) THEN @ - 1
            ELSE @]]

\* The counts when client c knows the ids of now instead of Known(c).
Recounted(c, now) ==
    [id \in Objects |->
        [m_active_objects[id] EXCEPT !.known_by_count =
            IF id \in now \ Known(c) THEN @ + 1
            ELSE IF id \in Known(c) \ now /\ @ > 0 THEN @ - 1
            ELSE @]]

\* SendActiveObjectRemoveAdd: in_range is what the client is to see.
SendActiveObjectRemoveAdd(c, in_range) ==
    LET kept  == {id \in Known(c) \cap in_range : id \in Objects /\ ~Gone(m_active_objects[id])}
        added_objects == {id \in in_range \ Known(c) : ~Gone(m_active_objects[id])}
    IN
    /\ pc = "idle" /\ ~m_shutting_down
    /\ m_active_objects' = Recounted(c, kept \cup added_objects)
    /\ m_known_objects' = [m_known_objects EXCEPT
           ![c] = [id \in kept \cup added_objects |->
                      IF id \in kept THEN @[id] ELSE m_active_objects[id].entity]]
    /\ UNCHANGED <<m_map, dbase, m_active_blocks, m_shutting_down, updateVars,
                   created, alive, changes>>

DeleteClient(c) ==
    /\ pc = "idle" /\ Known(c) # {}
    /\ m_active_objects' = Recounted(c, {})
    /\ m_known_objects' = [m_known_objects EXCEPT ![c] = Nothing]
    /\ UNCHANGED <<m_map, dbase, m_active_blocks, m_shutting_down, updateVars,
                   created, alive, changes>>

-----------------------------------------------------------------------------
(* The map                                                                 *)

\* An emerge thread brings in a block: from the database or, for a chunk it
\* is about to generate (initBlockMake), a blank one.
LoadBlock(b) ==
    /\ pc = "idle" /\ ~m_shutting_down
    /\ b \notin DOMAIN m_map
    /\ m_map' = emergeBlock(m_map, b, TRUE)
    /\ UNCHANGED <<m_active_objects, dbase, m_active_blocks, m_known_objects,
                   m_shutting_down, updateVars, created, alive, changes>>

\* A chunk is generated, with the border around it.  Its blocks may have
\* been there for long, with static objects that stay: generation is asked
\* for when any block of the chunk, which may be none of Blocks, is not
\* generated, because it is blank or was deleted.
finishBlockMake(chunk, border) ==
    /\ pc = "idle" /\ ~m_shutting_down
    /\ changes < MaxChanges /\ changes' = changes + 1
    /\ \/ "generate uncleared" \in Races
       \/ \A b \in chunk : m_map[b].stamp = "old" => m_map[b].stored = NoneStored
    /\ m_map' = [b \in DOMAIN m_map |->
                    IF b \in chunk THEN [m_map[b] EXCEPT !.modified = TRUE, !.stamp = "current"]
                    ELSE IF b \in border THEN [m_map[b] EXCEPT !.modified = TRUE]
                    ELSE m_map[b]]
    /\ UNCHANGED <<m_active_objects, dbase, m_active_blocks, m_known_objects,
                   m_shutting_down, updateVars, created, alive>>

Written(blocks) ==
    [b \in DOMAIN dbase \cup {x \in blocks : m_map[x].modified} |->
        IF b \in blocks /\ m_map[b].modified THEN OnDisk(m_map[b]) ELSE dbase[b]]

\* ServerMap::save
SaveMap ==
    /\ pc = "idle" /\ \E b \in DOMAIN m_map : m_map[b].modified
    /\ dbase' = Written(DOMAIN m_map)
    /\ m_map' = [b \in DOMAIN m_map |-> [m_map[b] EXCEPT !.modified = FALSE]]
    /\ UNCHANGED <<m_active_objects, m_active_blocks, m_known_objects, m_shutting_down,
                   updateVars, created, alive, changes>>

\* An object that is not to be saved stays in any block in memory, and the
\* static data it has from when it was to be saved stays where it is.
KeepsStaticData(id) ==
    LET o == m_active_objects[id] IN
    ~Gone(o) /\ ~o.static_allowed /\ o.pos \in DOMAIN m_map

\* timerUpdate unloads a block half a minute after its last use, whatever
\* static data is in it.  By then the other objects with static data in an
\* inactive block are stored or somewhere else, as the active blocks are
\* updated every other second; but a new object does not count as use of
\* its block.
UnloadBlock(b) ==
    /\ pc = "idle" /\ ~m_shutting_down
    /\ b \in DOMAIN m_map \ m_active_blocks
    /\ \A id \in DOMAIN m_map[b].active :
          (IF KeepsStaticData(id) THEN "unload unsaved" ELSE "unload early") \in Races
    /\ dbase' = Written({b})
    /\ m_map' = Without(m_map, {b})
    /\ UNCHANGED <<m_active_objects, m_active_blocks, m_known_objects, m_shutting_down,
                   updateVars, created, alive, changes>>

-----------------------------------------------------------------------------
(* Shutdown and the next start                                             *)

\* Removed, or deactivated in a block that was deleted since.
LeftBehind(id) ==
    LET o == m_active_objects[id] IN
    \/ o.pending_removal
    \/ /\ o.pending_deactivation /\ o.static_block # None
       /\ IF o.static_block \in DOMAIN m_map
          THEN id \notin DOMAIN m_map[o.static_block].active
          ELSE TRUE

\* deactivateBlocksAndObjects.  No object packet is sent to anyone any more.
deactivateBlocksAndObjects ==
    /\ pc = "idle" /\ ~m_shutting_down
    /\ "gone at shutdown" \in Races \/ \A id \in Objects : ~LeftBehind(id)
    /\ m_shutting_down' = TRUE
    /\ m_active_blocks' = {}
    /\ pc' = "shutdown" /\ todo' = Objects
    /\ UNCHANGED <<m_active_objects, m_map, dbase, m_known_objects, removed, added,
                   created, alive, changes>>

\* deactivateFarObjects(true) spares no object.
DeactivateForced(id) ==
    /\ pc = "shutdown" /\ id \in todo
    /\ \E data_changed \in DataChanged(id) : DeactivateObject(id, FALSE, data_changed)
    /\ todo' = todo \ {id}
    /\ UNCHANGED <<dbase, m_active_blocks, m_known_objects, m_shutting_down,
                   pc, removed, added, created, changes>>

\* ~ServerMap saves what is modified; the next server starts from dbase.
Restart ==
    /\ pc = "shutdown" /\ todo = {}
    /\ dbase' = Written(DOMAIN m_map)
    /\ m_map' = Nothing
    /\ m_known_objects' = [c \in Clients |-> Nothing]
    /\ m_shutting_down' = FALSE /\ pc' = "idle"
    /\ UNCHANGED <<m_active_objects, m_active_blocks, todo, removed, added, created, alive, changes>>

-----------------------------------------------------------------------------
Mods ==
    \/ \E e \in Entities, b \in Blocks : addActiveObject(e, b)
    \/ \E id \in Objects, b \in Blocks : setBasePosition(id, b)
    \/ \E id \in Objects : setStaticSave(id) \/ markForRemoval(id)
    \/ \E full \in BOOLEAN : clearObjects(full)
    \/ \E b \in Blocks : deleteBlock(b)

Update ==
    \/ \E new \in SUBSET Blocks : UpdateActiveBlocks(new)
    \/ \E id \in Ids : KeepObject(id) \/ ResaveObject(id) \/ DeactivateFar(id)
    \/ StampRemoved
    \/ \E b \in Blocks : ActivateBlock(b)
    \/ FinishUpdate

Step ==
    \/ \E id \in Objects : removeRemovedObject(id)
    \/ \E c \in Clients, in_range \in SUBSET Objects : SendActiveObjectRemoveAdd(c, in_range)
    \/ \E c \in Clients : DeleteClient(c)
    \/ \E b \in Blocks : LoadBlock(b) \/ UnloadBlock(b)
    \/ \E chunk, border \in SUBSET DOMAIN m_map : finishBlockMake(chunk, border)
    \/ SaveMap

Stop ==
    \/ deactivateBlocksAndObjects
    \/ \E id \in Ids : DeactivateForced(id)
    \/ Restart

Next == Mods \/ Update \/ Step \/ Stop

Spec == Init /\ [][Next]_vars

-----------------------------------------------------------------------------
(* Properties                                                              *)

Stamps == {"undefined", "current", "old"}
Stored == [Entities -> Nat]
EntityTables == UNION {[ids -> Entities] : ids \in SUBSET Ids}
ServerActiveObject ==
    [entity : Entities, pos : Blocks, static_allowed : BOOLEAN,
     static_block : Blocks \cup {None}, known_by_count : Nat,
     pending_removal : BOOLEAN, pending_deactivation : BOOLEAN]
MapBlock == [stored : Stored, active : EntityTables, modified : BOOLEAN, stamp : Stamps]
StoredBlock == [stored : Stored, stamp : Stamps]

TypeOK ==
    /\ m_active_objects \in [Objects -> ServerActiveObject] /\ Objects \subseteq Ids
    /\ m_map \in [DOMAIN m_map -> MapBlock] /\ DOMAIN m_map \subseteq Blocks
    /\ dbase \in [DOMAIN dbase -> StoredBlock] /\ DOMAIN dbase \subseteq Blocks
    /\ m_active_blocks \subseteq Blocks
    /\ m_known_objects \in [Clients -> EntityTables]
    /\ m_shutting_down = (pc = "shutdown")
    /\ pc \in {"idle", "deactivate", "activate", "shutdown"}
    /\ todo \subseteq Ids /\ removed \subseteq Blocks /\ added \subseteq Blocks
    /\ alive \subseteq created /\ created \subseteq Entities
    /\ changes \in 0 .. MaxChanges

\* Where entity e is: in the life of an object, in the static data of an
\* object that only waits for its id, or stored, in memory or on disk.
Copies(e) ==
    LET StoredIn(b) == IF b \in DOMAIN m_map THEN m_map[b].stored ELSE dbase[b].stored
        Waits(id) == ~(id \in Objects /\ (~Gone(m_active_objects[id])
                                          \/ m_active_objects[id].pending_removal))
    IN
    {<<"object", id, 0>> : id \in {i \in Objects :
        m_active_objects[i].entity = e /\ ~Gone(m_active_objects[i])}}
    \cup (UNION {{<<"waiting", b, id>> : id \in {i \in DOMAIN m_map[b].active :
        m_map[b].active[i] = e /\ Waits(i)}} : b \in DOMAIN m_map})
    \cup (UNION {{<<"stored", b, i>> : i \in 1 .. StoredIn(b)[e]} :
        b \in DOMAIN m_map \cup DOMAIN dbase})

\* However objects are moved, deactivated, stored, unloaded, activated again
\* and restarted, an entity nobody has removed is there exactly once, and one
\* that was removed or cleared is nowhere but in blocks whose timestamp says
\* that their objects are to be dropped.
OneCopy ==
    \A e \in created :
        IF e \in alive THEN Cardinality(Copies(e)) = 1
        ELSE \A copy \in Copies(e) :
                /\ copy[1] = "stored"
                /\ (IF copy[2] \in DOMAIN m_map THEN m_map[copy[2]] ELSE dbase[copy[2]]).stamp = "old"

\* The active static data of a block is that of an object with this id, the
\* same entity, and the object knows the block: when the id is taken again,
\* StaticObjectList::insert finds no entry in its way.
StaticEntries ==
    \A b \in DOMAIN m_map : \A id \in DOMAIN m_map[b].active :
        /\ id \in Objects
        /\ m_active_objects[id].static_block = b
        /\ m_active_objects[id].entity = m_map[b].active[id]

\* An id a client knows still stands for the object the client was told of,
\* and m_known_by_count is the number of clients that know it, so that ids
\* are not taken again too early nor kept for ever.
IdsKept ==
    ~m_shutting_down =>
        /\ \A c \in Clients : \A id \in Known(c) :
              id \in Objects /\ m_active_objects[id].entity = m_known_objects[c][id]
        /\ \A id \in Objects :
              m_active_objects[id].known_by_count = Cardinality({c \in Clients : id \in Known(c)})
=============================================================================
