------------------------------ MODULE ServerMap -----------------------------
(***************************************************************************)
(* The blocks of the map, in memory and in the database, between the       *)
(* server thread and the emerge threads.  Everything that touches the      *)
(* memory holds the environment lock (or is part of ~Server), so one       *)
(* critical section is one action; an emerge thread reads the database and *)
(* runs the map generator without that lock, so it has a state before and  *)
(* after each.  Which positions the threads are given is EmergeQueue.      *)
(*                                                                         *)
(* A content is the number of the write it comes from; 0 is a block of     *)
(* CONTENT_IGNORE.  Decorations that reach into the border of a chunk and  *)
(* border lighting are left out.                                           *)
(***************************************************************************)
EXTENDS Integers, FiniteSets

CONSTANTS
    Blocks,
    SectorOf,             \* block -> its column
    Chunks,
    Interior,             \* chunk -> its blocks
    FullArea,             \* chunk -> its blocks and those of the border
    ChunkOf,              \* getContainingChunk
    OverMapgenLimit,      \* the chunks initBlockMake refuses
    EmergeThreads,
    Races,                \* what the environment does not keep apart
    MaxWrites             \* bound: nodes set and chunks generated

\* The races this project knows to break the map, one by one.
KnownRaces == {"unload while read", "delete while read", "delete while generated",
               "edit while generated", "save fails", "mapgen error"}

ASSUME ServerMapAssumption ==
    /\ Blocks # {}
    /\ Interior \in [Chunks -> SUBSET Blocks] /\ FullArea \in [Chunks -> SUBSET Blocks]
    /\ \A c \in Chunks : Interior[c] \subseteq FullArea[c]
    /\ ChunkOf \in [Blocks -> Chunks]
    /\ \A b \in Blocks : b \in Interior[ChunkOf[b]]
    /\ \A c \in Chunks : \A b \in Interior[c] : ChunkOf[b] = c
    /\ OverMapgenLimit \subseteq Chunks
    /\ IsFiniteSet(EmergeThreads)
    /\ Races \subseteq KnownRaces
    /\ MaxWrites \in Nat

VARIABLES
    m_sectors,            \* block -> MapBlock, those in memory
    dbase,                \* block -> what the database holds
    m_chunks_in_progress,
    pc, pos, allow_gen,   \* of each thread
    from_db,              \* of each thread: what it read, one or no Stored
    bmdata,               \* of each thread: block -> content, its vmanip
    writes                \* number of writes, the source of new contents

threadVars == <<pc, pos, allow_gen, from_db, bmdata>>
vars == <<m_sectors, dbase, m_chunks_in_progress, threadVars, writes>>

Stored  == [content : 0 .. MaxWrites, generated : BOOLEAN]
Nothing == [b \in {} |-> 0]

AnyBlock == CHOOSE b \in Blocks : TRUE

Loaded == DOMAIN m_sectors
Saved  == DOMAIN dbase

MapBlock(content, generated, modified, refs) ==
    [content |-> content, generated |-> generated, modified |-> modified,
     m_refcount |-> refs]

Init ==
    /\ m_sectors = Nothing /\ dbase = Nothing
    /\ m_chunks_in_progress = {}
    /\ pc = [t \in EmergeThreads |-> "idle"]
    /\ pos = [t \in EmergeThreads |-> AnyBlock]
    /\ allow_gen = [t \in EmergeThreads |-> FALSE]
    /\ from_db = [t \in EmergeThreads |-> {}]
    /\ bmdata = [t \in EmergeThreads |-> Nothing]
    /\ writes = 0

\* The threads that generate a chunk with b in it or in its border.
Generating(b) ==
    {t \in EmergeThreads : pc[t] = "makeChunk" /\ b \in FullArea[ChunkOf[pos[t]]]}

\* The threads that have read b in the database and not looked at it yet.
Reading(b) == {t \in EmergeThreads : pc[t] = "load" /\ pos[t] = b}

\* MaxWrites leaves a write to every thread that may still generate a chunk.
BelowBound ==
    writes + Cardinality({t \in EmergeThreads : pc[t] # "idle" /\ allow_gen[t]}) < MaxWrites

-----------------------------------------------------------------------------
(* Blocks in memory                                                        *)

\* loadBlock: "We just loaded it, so it's up-to-date."
FromBlob(data) == MapBlock(data.content, data.generated, FALSE, 0)

\* emergeBlock for a block that is in memory or in the database.
EmergedBlock(mem, b) == IF b \in DOMAIN mem THEN mem[b] ELSE FromBlob(dbase[b])

\* createBlock in initBlockMake, whose setIsUnderground marks it as modified.
CreatedBlock == MapBlock(0, FALSE, TRUE, 0)

Grabbed(block) == [block EXCEPT !.m_refcount = @ + 1]

\* The memory after initBlockMake: the whole area is there and is kept there.
AreaEmerged(mem, chunk) ==
    [b \in DOMAIN mem \cup FullArea[chunk] |->
        IF b \notin FullArea[chunk] THEN mem[b]
        ELSE Grabbed(IF b \in DOMAIN mem \cup Saved
                     THEN EmergedBlock(mem, b) ELSE CreatedBlock)]

\* What makeChunk leaves in the vmanip: it fills what is still CONTENT_IGNORE
\* in the chunk.
MadeChunk(vmanip, chunk) ==
    [b \in DOMAIN vmanip |->
        IF b \in Interior[chunk] /\ vmanip[b] = 0 THEN writes + 1 ELSE vmanip[b]]

\* copyTo writes no CONTENT_IGNORE back.
BlittedContent(old, made) == IF made = 0 THEN old ELSE made

\* Variant: blitBackAll marks no block as modified.
Finished_NotModified(b, chunk, made) ==
    LET old == IF b \in Loaded \cup Saved
               THEN EmergedBlock(m_sectors, b) ELSE MapBlock(0, FALSE, FALSE, 0) IN
    MapBlock(BlittedContent(old.content, made), old.generated \/ b \in Interior[chunk],
             old.modified, old.m_refcount - 1)

\* A block after finishBlockMake, which only marks the chunk without its border
\* as generated.  blitBackAll loads or creates a block that has disappeared.
Finished(b, chunk, made) ==
    LET old == IF b \in Loaded \cup Saved
               THEN EmergedBlock(m_sectors, b) ELSE MapBlock(0, FALSE, FALSE, 0) IN
    MapBlock(BlittedContent(old.content, made), old.generated \/ b \in Interior[chunk],
             TRUE, old.m_refcount - 1)

-----------------------------------------------------------------------------
(* EmergeThread                                                            *)

\* A thread goes on with a block, or to the head of its loop.
Go(t, where, b, gen) ==
    /\ pc' = [pc EXCEPT ![t] = where]
    /\ pos' = [pos EXCEPT ![t] = b]
    /\ allow_gen' = [allow_gen EXCEPT ![t] = gen]

EndLoop(t) == Go(t, "idle", AnyBlock, FALSE)

\* initBlockMake, which enters the chunk before it looks at the limit.
initBlockMake(t, b, mem) ==
    LET chunk == ChunkOf[b] IN
    /\ m_chunks_in_progress' = m_chunks_in_progress \cup {chunk}
    /\ IF chunk \in OverMapgenLimit
       THEN EndLoop(t) /\ m_sectors' = mem /\ UNCHANGED bmdata
       ELSE /\ Go(t, "makeChunk", b, TRUE)
            /\ m_sectors' = AreaEmerged(mem, chunk)
            /\ bmdata' = [bmdata EXCEPT ![t] =
                   [x \in FullArea[chunk] |-> m_sectors'[x].content]]

\* Variant: a chunk in progress is generated again.
MayMake_Twice(gen, chunk) == gen

MayMake(gen, chunk) == gen /\ chunk \notin m_chunks_in_progress

\* The end of getBlockOrStartGen: the block is there, or generation starts, or
\* the emerge is cancelled.
GetOrStartGen(t, b, gen, mem) ==
    IF ~(b \in DOMAIN mem /\ mem[b].generated) /\ MayMake(gen, ChunkOf[b])
    THEN initBlockMake(t, b, mem)
    ELSE /\ EndLoop(t)
         /\ m_sectors' = mem
         /\ UNCHANGED <<m_chunks_in_progress, bmdata>>

\* getBlockOrStartGen without data, for the next block of the queue.
BeginEmerge(t, b, gen) ==
    /\ pc[t] = "idle" /\ (gen => BelowBound)
    /\ IF b \in Loaded
       THEN GetOrStartGen(t, b, gen, m_sectors)
       ELSE /\ Go(t, "read", b, gen)
            /\ UNCHANGED <<m_chunks_in_progress, m_sectors, bmdata>>
    /\ UNCHANGED <<dbase, from_db, writes>>

\* m_db.loadBlock, without the environment lock.
ReadBlock(t) ==
    /\ pc[t] = "read"
    /\ from_db' = [from_db EXCEPT ![t] =
           IF pos[t] \in Saved THEN {dbase[pos[t]]} ELSE {}]
    /\ Go(t, "load", pos[t], allow_gen[t])
    /\ UNCHANGED <<m_sectors, dbase, m_chunks_in_progress, bmdata, writes>>

\* Variant: what was read replaces what is in memory.
MemoryWith_Always(b, data) ==
    [x \in Loaded \cup (IF data = {} THEN {} ELSE {b}) |->
        IF x = b /\ data # {} THEN FromBlob(CHOOSE d \in data : TRUE)
        ELSE m_sectors[x]]

\* What was read goes to memory, unless someone else was faster.
MemoryWith(b, data) ==
    IF b \in Loaded \/ data = {} THEN m_sectors
    ELSE [x \in Loaded \cup {b} |->
             IF x = b THEN FromBlob(CHOOSE d \in data : TRUE) ELSE m_sectors[x]]

\* getBlockOrStartGen with the data that was read.
LoadBlock(t) ==
    /\ pc[t] = "load"
    /\ GetOrStartGen(t, pos[t], allow_gen[t], MemoryWith(pos[t], from_db[t]))
    /\ from_db' = [from_db EXCEPT ![t] = {}]
    /\ UNCHANGED <<dbase, writes>>

\* finishGen, when makeChunk is done.
finishBlockMake(t) ==
    LET chunk == ChunkOf[pos[t]]
        made  == MadeChunk(bmdata[t], chunk) IN
    /\ pc[t] = "makeChunk"
    /\ m_sectors' = [b \in Loaded \cup DOMAIN made |->
           IF b \in DOMAIN made THEN Finished(b, chunk, made[b]) ELSE m_sectors[b]]
    /\ writes' = IF made = bmdata[t] THEN writes ELSE writes + 1
    /\ m_chunks_in_progress' = m_chunks_in_progress \ {chunk}
    /\ bmdata' = [bmdata EXCEPT ![t] = Nothing]
    /\ EndLoop(t)
    /\ UNCHANGED <<dbase, from_db>>

\* A mapgen script fails: cancelBlockMake, which leaves the chunk in progress.
cancelBlockMake(t) ==
    /\ "mapgen error" \in Races /\ pc[t] = "makeChunk"
    /\ m_sectors' = [b \in Loaded |->
           IF b \in DOMAIN bmdata[t]
           THEN [m_sectors[b] EXCEPT !.m_refcount = @ - 1] ELSE m_sectors[b]]
    /\ bmdata' = [bmdata EXCEPT ![t] = Nothing]
    /\ EndLoop(t)
    /\ UNCHANGED <<dbase, m_chunks_in_progress, from_db, writes>>

EmergeThread(t) ==
    \/ \E b \in Blocks, gen \in BOOLEAN : BeginEmerge(t, b, gen)
    \/ ReadBlock(t) \/ LoadBlock(t) \/ finishBlockMake(t) \/ cancelBlockMake(t)

-----------------------------------------------------------------------------
(* The server thread and its mods                                          *)

\* emergeBlock: the block is loaded, or created if the caller wants that.
emergeBlock(b, create_blank) ==
    /\ b \notin Loaded /\ (b \in Saved \/ create_blank)
    /\ m_sectors' = [x \in Loaded \cup {b} |->
           IF x # b THEN m_sectors[x]
           ELSE IF b \in Saved THEN FromBlob(dbase[b]) ELSE MapBlock(0, FALSE, FALSE, 0)]
    /\ UNCHANGED <<dbase, m_chunks_in_progress, threadVars, writes>>

setNode(b) ==
    /\ b \in Loaded /\ BelowBound
    /\ Generating(b) = {} \/ "edit while generated" \in Races
    /\ writes' = writes + 1
    /\ m_sectors' = [m_sectors EXCEPT ![b].content = writes', ![b].modified = TRUE]
    /\ UNCHANGED <<dbase, m_chunks_in_progress, threadVars>>

Modified == {b \in Loaded : m_sectors[b].modified}

\* saveBlock for some blocks.
DbaseWith(S) ==
    [b \in Saved \cup S |->
        IF b \in S THEN [content |-> m_sectors[b].content,
                         generated |-> m_sectors[b].generated]
        ELSE dbase[b]]

Failing == IF "save fails" \in Races THEN SUBSET Modified ELSE {{}}

\* save(MOD_STATE_WRITE_NEEDED)
save(failing) ==
    /\ Modified # {}
    /\ dbase' = DbaseWith(Modified \ failing)
    /\ m_sectors' = [b \in Loaded |->
           IF b \in failing THEN m_sectors[b] ELSE [m_sectors[b] EXCEPT !.modified = FALSE]]
    /\ UNCHANGED <<m_chunks_in_progress, threadVars, writes>>

\* Variant: blocks in use are unloaded as well.
MayUnload_InUse(b) == TRUE

MayUnload(b) == m_sectors[b].m_refcount = 0

\* Variant: a block is not saved before it is unloaded.
SavedBeforeUnload_None(S) == dbase

SavedBeforeUnload(S) == DbaseWith(S)

\* timerUpdate: some blocks have not been used for long.  A block that cannot
\* be saved stays, but all_blocks_deleted does not notice, and its sector goes
\* with it if all others in it were unloaded.
timerUpdate(expired, failing) ==
    LET deleted == expired \ failing
        dropped == {b \in failing \cap expired :
                       \A x \in Loaded : SectorOf[x] = SectorOf[b] => x \in expired} IN
    /\ expired # {} /\ \A b \in expired : MayUnload(b)
    /\ "unload while read" \in Races \/ \A b \in expired : Reading(b) = {}
    /\ dbase' = SavedBeforeUnload(deleted \cap Modified)
    /\ m_sectors' = [b \in Loaded \ (deleted \cup dropped) |-> m_sectors[b]]
    /\ UNCHANGED <<m_chunks_in_progress, threadVars, writes>>

\* core.delete_area
deleteBlock(b) ==
    /\ b \in Loaded \cup Saved
    /\ "delete while read" \in Races \/ Reading(b) = {}
    /\ "delete while generated" \in Races \/ Generating(b) = {}
    /\ dbase' = [x \in Saved \ {b} |-> dbase[x]]
    /\ m_sectors' = [x \in Loaded \ {b} |-> m_sectors[x]]
    /\ UNCHANGED <<m_chunks_in_progress, threadVars, writes>>

Server ==
    \/ \E b \in Blocks : \/ \E create_blank \in BOOLEAN : emergeBlock(b, create_blank)
                         \/ setNode(b) \/ deleteBlock(b)
    \/ \E failing \in Failing : save(failing)
    \/ \E expired \in SUBSET Loaded, failing \in Failing : timerUpdate(expired, failing)

Next == Server \/ \E t \in EmergeThreads : EmergeThread(t)

Spec == Init /\ [][Next]_vars

-----------------------------------------------------------------------------
(* Correctness                                                             *)

TypeOK ==
    /\ Loaded \subseteq Blocks /\ Saved \subseteq Blocks
    /\ \A b \in Loaded :
          /\ m_sectors[b].content \in 0 .. MaxWrites
          /\ m_sectors[b].m_refcount \in Nat
    /\ \A b \in Saved : dbase[b] \in Stored
    /\ m_chunks_in_progress \subseteq Chunks
    /\ pc \in [EmergeThreads -> {"idle", "read", "load", "makeChunk"}]
    /\ pos \in [EmergeThreads -> Blocks]
    /\ writes \in 0 .. MaxWrites

\* A block in memory is referenced once by each thread that generates a chunk
\* with it in its area (refGrab and refDrop of mapblock.h with their asserts),
\* so that it is neither unloaded under the mapgen nor kept for ever.
RefsMatch ==
    /\ \A b \in Loaded : m_sectors[b].m_refcount = Cardinality(Generating(b))
    /\ \A b \in Blocks \ Loaded : Generating(b) = {}

\* A block that is not marked as modified is what the database has, or a blank
\* one it does not have ("We just loaded it, so it's up-to-date").
CleanMeansSaved ==
    \A b \in Loaded \ Modified :
        IF b \in Saved
        THEN /\ m_sectors[b].content = dbase[b].content
             /\ m_sectors[b].generated = dbase[b].generated
        ELSE m_sectors[b].content = 0 /\ ~m_sectors[b].generated

\* Two threads never generate the same chunk: each enters its own before the
\* environment lock is given back (m_chunks_in_progress).
ChunksTracked ==
    LET making == {t \in EmergeThreads : pc[t] = "makeChunk"} IN
    \A t \in making :
        /\ ChunkOf[pos[t]] \in m_chunks_in_progress
        /\ \A u \in making \ {t} : ChunkOf[pos[u]] # ChunkOf[pos[t]]

\* A modified block only leaves the memory when it is saved or deleted
\* (Map::timerUpdate, "Delete sector if we emptied it").
NothingUnsavedDropped ==
    [][\A b \in Modified \ DOMAIN m_sectors' :
           \/ b \in DOMAIN dbase' /\ dbase'[b].content = m_sectors[b].content
           \/ b \notin DOMAIN dbase' /\ deleteBlock(b)]_vars

\* The map as a mod sees it: loading, saving and unloading do not show, no edit
\* is lost and nothing deleted comes back.
Content(b) ==
    IF b \in Loaded THEN m_sectors[b].content
    ELSE IF b \in Saved THEN dbase[b].content ELSE 0

Abstract == INSTANCE WorldMap WITH world <- [b \in Blocks |-> Content(b)]

ImplementsWorldMap == Abstract!Spec
=============================================================================
