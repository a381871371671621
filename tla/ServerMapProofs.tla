--------------------------- MODULE ServerMapProofs ---------------------------
(***************************************************************************)
(* Without the two races of a thread between its read of the database and  *)
(* its look at the memory, a block that is not marked as modified is       *)
(* always what the database has, for every map and any number of threads.  *)
(***************************************************************************)
EXTENDS ServerMap, FiniteSetTheorems, TLAPS

Datum == [content : Nat, generated : BOOLEAN]
Block == [content : Nat, generated : BOOLEAN, modified : BOOLEAN, m_refcount : Int]

DatabaseTyped(d) == \A b \in DOMAIN d : d[b] \in Datum

\* What database d has of block b is what block x holds.
UpToDate(x, d, b) ==
    IF b \in DOMAIN d
    THEN x.content = d[b].content /\ x.generated = d[b].generated
    ELSE x.content = 0 /\ ~x.generated

\* Blocks in memory mem that are not marked as modified are in database d.
GoodMemory(mem, d) ==
    \A b \in DOMAIN mem :
        mem[b] \in Block /\ (~mem[b].modified => UpToDate(mem[b], d, b))

ThreadsTyped ==
    /\ pc \in [EmergeThreads -> {"idle", "read", "load", "makeChunk"}]
    /\ pos \in [EmergeThreads -> Blocks]
    /\ DOMAIN from_db = EmergeThreads /\ DOMAIN bmdata = EmergeThreads
    /\ \A t \in EmergeThreads : \A b \in DOMAIN bmdata[t] : bmdata[t][b] \in Nat
    /\ writes \in Nat

\* What a thread reads of block b in the database.
ReadOf(d, b) == IF b \in DOMAIN d THEN {d[b]} ELSE {}

\* What a thread has read is what the database holds until the block is loaded
\* by someone else, which the thread then sees.
ReadsAreFresh ==
    \A t \in EmergeThreads :
        pc[t] = "load" /\ pos[t] \notin Loaded => from_db[t] = ReadOf(dbase, pos[t])

CleanInv ==
    /\ DatabaseTyped(dbase) /\ GoodMemory(m_sectors, dbase)
    /\ ThreadsTyped /\ ReadsAreFresh

-----------------------------------------------------------------------------
(* The operators on the memory                                             *)

\* refGrab changes nothing but the count.
LEMMA GrabbedGood ==
    ASSUME NEW x \in Block
    PROVE  /\ Grabbed(x) \in Block /\ Grabbed(x).modified = x.modified
           /\ Grabbed(x).content = x.content /\ Grabbed(x).generated = x.generated
  BY DEF Grabbed, Block

\* A block that was just loaded is up to date.
LEMMA FromBlobGood ==
    ASSUME DatabaseTyped(dbase), NEW b \in Saved
    PROVE  FromBlob(dbase[b]) \in Block /\ UpToDate(FromBlob(dbase[b]), dbase, b)
  BY DEF DatabaseTyped, FromBlob, MapBlock, Block, Datum, UpToDate, Saved

\* The area of a chunk is emerged with blocks that are what they should be.
LEMMA AreaEmergedGood ==
    ASSUME NEW mem, GoodMemory(mem, dbase), DatabaseTyped(dbase), NEW chunk
    PROVE  /\ GoodMemory(AreaEmerged(mem, chunk), dbase)
           /\ DOMAIN AreaEmerged(mem, chunk) = DOMAIN mem \cup FullArea[chunk]
  <1>1. DOMAIN AreaEmerged(mem, chunk) = DOMAIN mem \cup FullArea[chunk]
    BY DEF AreaEmerged
  <1>2. ASSUME NEW b \in DOMAIN mem \cup FullArea[chunk]
        PROVE  LET x == AreaEmerged(mem, chunk)[b] IN
               x \in Block /\ (~x.modified => UpToDate(x, dbase, b))
    <2>1. CASE b \notin FullArea[chunk]
      BY <2>1 DEF AreaEmerged, GoodMemory
    <2>2. CASE b \in FullArea[chunk] /\ b \in DOMAIN mem
      <3>1. AreaEmerged(mem, chunk)[b] = Grabbed(mem[b])
        BY <2>2 DEF AreaEmerged, EmergedBlock
      <3>2. mem[b] \in Block /\ (~mem[b].modified => UpToDate(mem[b], dbase, b))
        BY <2>2 DEF GoodMemory
      <3> QED BY <3>1, <3>2, GrabbedGood DEF UpToDate
    <2>3. CASE b \in FullArea[chunk] /\ b \notin DOMAIN mem /\ b \in Saved
      <3>1. AreaEmerged(mem, chunk)[b] = Grabbed(FromBlob(dbase[b]))
        BY <2>3 DEF AreaEmerged, EmergedBlock
      <3> QED BY <2>3, <3>1, FromBlobGood, GrabbedGood DEF UpToDate
    <2>4. CASE b \in FullArea[chunk] /\ b \notin DOMAIN mem /\ b \notin Saved
      <3>1. AreaEmerged(mem, chunk)[b] = Grabbed(CreatedBlock)
        BY <2>4 DEF AreaEmerged
      <3>2. CreatedBlock \in Block /\ CreatedBlock.modified
        BY DEF CreatedBlock, MapBlock, Block
      <3> QED BY <3>1, <3>2, GrabbedGood
    <2> QED BY <2>1, <2>2, <2>3, <2>4
  <1> QED BY <1>1, <1>2 DEF GoodMemory

\* What was read goes to memory only while it is what the database has.
LEMMA MemoryWithGood ==
    ASSUME GoodMemory(m_sectors, dbase), DatabaseTyped(dbase), NEW b, NEW data,
           b \notin Loaded => data = ReadOf(dbase, b)
    PROVE  /\ GoodMemory(MemoryWith(b, data), dbase)
           /\ Loaded \subseteq DOMAIN MemoryWith(b, data)
  <1>1. CASE b \in Loaded \/ data = {}
    BY <1>1 DEF MemoryWith, Loaded
  <1>2. CASE b \notin Loaded /\ data # {}
    <2>1. b \in Saved /\ data = {dbase[b]}
      BY <1>2 DEF ReadOf, Saved
    <2>2. (CHOOSE d \in data : TRUE) = dbase[b]
      BY <2>1
    <2>3. MemoryWith(b, data) = [x \in Loaded \cup {b} |->
             IF x = b THEN FromBlob(dbase[b]) ELSE m_sectors[x]]
      BY <1>2, <2>2 DEF MemoryWith
    <2>4. FromBlob(dbase[b]) \in Block /\ UpToDate(FromBlob(dbase[b]), dbase, b)
      BY <2>1, FromBlobGood
    <2> QED BY <2>3, <2>4 DEF GoodMemory, Loaded
  <1> QED BY <1>1, <1>2

\* The end of getBlockOrStartGen keeps a good memory good, unloads nothing and
\* leaves the thread elsewhere than before its look at the memory.
LEMMA GetOrStartGenGood ==
    ASSUME ThreadsTyped, DatabaseTyped(dbase), ServerMapAssumption,
           NEW t \in EmergeThreads, NEW b \in Blocks, NEW gen, NEW mem,
           GoodMemory(mem, dbase), GetOrStartGen(t, b, gen, mem),
           writes' = writes, DOMAIN from_db' = EmergeThreads
    PROVE  /\ GoodMemory(m_sectors', dbase) /\ DOMAIN mem \subseteq Loaded'
           /\ ThreadsTyped' /\ pc'[t] # "load"
           /\ \A u \in EmergeThreads \ {t} : pc'[u] = pc[u] /\ pos'[u] = pos[u]
  <1>0. AnyBlock \in Blocks
    BY DEF AnyBlock
  <1>1. CASE EndLoop(t) /\ m_sectors' = mem /\ UNCHANGED bmdata
    BY <1>0, <1>1 DEF EndLoop, Go, ThreadsTyped, Loaded
  <1>2. CASE /\ Go(t, "makeChunk", b, TRUE)
             /\ m_sectors' = AreaEmerged(mem, ChunkOf[b])
             /\ bmdata' = [bmdata EXCEPT ![t] =
                    [x \in FullArea[ChunkOf[b]] |-> m_sectors'[x].content]]
    <2>1. /\ GoodMemory(m_sectors', dbase)
          /\ Loaded' = DOMAIN mem \cup FullArea[ChunkOf[b]]
      BY <1>2, AreaEmergedGood DEF Loaded
    <2>2. \A x \in FullArea[ChunkOf[b]] : m_sectors'[x].content \in Nat
      BY <2>1 DEF GoodMemory, Block, Loaded
    <2>3. \A u \in EmergeThreads : \A x \in DOMAIN bmdata'[u] : bmdata'[u][x] \in Nat
      BY <1>2, <2>2 DEF ThreadsTyped
    <2> QED BY <1>2, <2>1, <2>3 DEF Go, ThreadsTyped
  <1> QED BY <1>1, <1>2 DEF GetOrStartGen, initBlockMake

\* The other threads keep what they have read.
LEMMA OthersStayFresh ==
    ASSUME ThreadsTyped, ReadsAreFresh, NEW t \in EmergeThreads,
           UNCHANGED dbase, Loaded \subseteq Loaded', pc'[t] # "load",
           \A u \in EmergeThreads \ {t} :
               pc'[u] = pc[u] /\ pos'[u] = pos[u] /\ from_db'[u] = from_db[u]
    PROVE  ReadsAreFresh'
  BY DEF ReadsAreFresh

\* A block that was clean is still up to date in a database that has not
\* changed there.
LEMMA StillUpToDate ==
    ASSUME NEW x, NEW d, NEW e, NEW b, UpToDate(x, d, b),
           b \in DOMAIN d <=> b \in DOMAIN e, b \in DOMAIN d => e[b] = d[b]
    PROVE  UpToDate(x, e, b)
  BY DEF UpToDate

-----------------------------------------------------------------------------
(* The steps of an emerge thread                                           *)

LEMMA BeginEmergeKeeps ==
    ASSUME CleanInv, ServerMapAssumption, NEW t \in EmergeThreads,
           NEW b \in Blocks, NEW gen, BeginEmerge(t, b, gen)
    PROVE  CleanInv'
  <1> USE DEF CleanInv
  <1>1. CASE b \in Loaded /\ GetOrStartGen(t, b, gen, m_sectors)
    <2>1. writes' = writes /\ DOMAIN from_db' = EmergeThreads /\ UNCHANGED <<dbase, from_db>>
      BY DEF BeginEmerge, ThreadsTyped
    <2>2. /\ GoodMemory(m_sectors', dbase) /\ Loaded \subseteq Loaded'
          /\ ThreadsTyped' /\ pc'[t] # "load"
          /\ \A u \in EmergeThreads \ {t} : pc'[u] = pc[u] /\ pos'[u] = pos[u]
      BY <1>1, <2>1, GetOrStartGenGood DEF Loaded
    <2> QED BY <2>1, <2>2, OthersStayFresh
  <1>2. CASE Go(t, "read", b, gen) /\ UNCHANGED <<m_chunks_in_progress, m_sectors, bmdata>>
    <2>1. UNCHANGED <<dbase, from_db, writes>>
      BY DEF BeginEmerge
    <2>2. ThreadsTyped' /\ pc'[t] # "load"
      BY <1>2, <2>1 DEF Go, ThreadsTyped
    <2>3. \A u \in EmergeThreads \ {t} : pc'[u] = pc[u] /\ pos'[u] = pos[u]
      BY <1>2 DEF Go, ThreadsTyped
    <2> QED BY <1>2, <2>1, <2>2, <2>3, OthersStayFresh DEF Loaded
  <1> QED BY <1>1, <1>2 DEF BeginEmerge

LEMMA ReadBlockKeeps ==
    ASSUME CleanInv, NEW t \in EmergeThreads, ReadBlock(t)
    PROVE  CleanInv'
  <1> USE DEF CleanInv
  <1>1. UNCHANGED <<m_sectors, dbase, bmdata, writes>> /\ UNCHANGED Loaded
    BY DEF ReadBlock, Loaded
  <1>2. ThreadsTyped'
    BY <1>1 DEF ReadBlock, Go, ThreadsTyped
  <1>3. from_db'[t] = ReadOf(dbase', pos'[t])
    BY <1>1 DEF ReadBlock, Go, ThreadsTyped, ReadOf, Saved
  <1>4. \A u \in EmergeThreads \ {t} :
            pc'[u] = pc[u] /\ pos'[u] = pos[u] /\ from_db'[u] = from_db[u]
    BY DEF ReadBlock, Go, ThreadsTyped
  <1>5. ReadsAreFresh'
    BY <1>1, <1>3, <1>4 DEF ReadsAreFresh
  <1> QED BY <1>1, <1>2, <1>5

LEMMA LoadBlockKeeps ==
    ASSUME CleanInv, ServerMapAssumption, NEW t \in EmergeThreads, LoadBlock(t)
    PROVE  CleanInv'
  <1> USE DEF CleanInv
  <1> DEFINE mem == MemoryWith(pos[t], from_db[t])
  <1>1. pos[t] \in Blocks /\ (pos[t] \notin Loaded => from_db[t] = ReadOf(dbase, pos[t]))
    BY DEF LoadBlock, ReadsAreFresh, ThreadsTyped
  <1>2. GoodMemory(mem, dbase) /\ Loaded \subseteq DOMAIN mem
    BY <1>1, MemoryWithGood
  <1>3. /\ GetOrStartGen(t, pos[t], allow_gen[t], mem) /\ UNCHANGED <<dbase, writes>>
        /\ from_db' = [from_db EXCEPT ![t] = {}] /\ DOMAIN from_db' = EmergeThreads
    BY DEF LoadBlock, ThreadsTyped
  <1> HIDE DEF mem
  <1>4. /\ GoodMemory(m_sectors', dbase) /\ DOMAIN mem \subseteq Loaded'
        /\ ThreadsTyped' /\ pc'[t] # "load"
        /\ \A u \in EmergeThreads \ {t} : pc'[u] = pc[u] /\ pos'[u] = pos[u]
    BY <1>1, <1>2, <1>3, GetOrStartGenGood
  <1>5. \A u \in EmergeThreads \ {t} : from_db'[u] = from_db[u]
    BY <1>3 DEF ThreadsTyped
  <1> QED BY <1>2, <1>3, <1>4, <1>5, OthersStayFresh

\* Every block of the chunk is marked as modified, so that nothing is to show
\* but its type.
LEMMA finishBlockMakeKeeps ==
    ASSUME CleanInv, NEW t \in EmergeThreads, finishBlockMake(t)
    PROVE  CleanInv'
  <1> USE DEF CleanInv
  <1> DEFINE chunk == ChunkOf[pos[t]]
             made  == MadeChunk(bmdata[t], chunk)
  <1>1. DOMAIN made = DOMAIN bmdata[t] /\ \A b \in DOMAIN made : made[b] \in Nat
    BY DEF MadeChunk, ThreadsTyped
  <1>2. m_sectors' = [b \in Loaded \cup DOMAIN made |->
            IF b \in DOMAIN made THEN Finished(b, chunk, made[b]) ELSE m_sectors[b]]
    BY DEF finishBlockMake
  <1>3. UNCHANGED <<dbase, from_db>> /\ EndLoop(t) /\ writes' \in Nat
        /\ bmdata' = [bmdata EXCEPT ![t] = Nothing]
    BY DEF finishBlockMake, ThreadsTyped
  <1> HIDE DEF made, chunk
  <1>4. ASSUME NEW b \in DOMAIN made
        PROVE  Finished(b, chunk, made[b]) \in Block /\ Finished(b, chunk, made[b]).modified
    <2> DEFINE old == IF b \in Loaded \cup Saved
                      THEN EmergedBlock(m_sectors, b) ELSE MapBlock(0, FALSE, FALSE, 0)
    <2>1. old \in Block
      <3>1. CASE b \in Loaded
        BY <3>1 DEF EmergedBlock, GoodMemory, Loaded
      <3>2. CASE b \notin Loaded /\ b \in Saved
        BY <3>2, FromBlobGood DEF EmergedBlock, Loaded
      <3>3. CASE b \notin Loaded /\ b \notin Saved
        BY <3>3 DEF MapBlock, Block
      <3> QED BY <3>1, <3>2, <3>3
    <2>2. Finished(b, chunk, made[b]) =
              MapBlock(BlittedContent(old.content, made[b]),
                       old.generated \/ b \in Interior[chunk], TRUE, old.m_refcount - 1)
      BY DEF Finished
    <2> HIDE DEF old
    <2>3. BlittedContent(old.content, made[b]) \in Nat /\ old.m_refcount - 1 \in Int
      BY <1>1, <2>1 DEF BlittedContent, Block
    <2>4. (old.generated \/ b \in Interior[chunk]) \in BOOLEAN
      OBVIOUS
    <2> QED BY <2>2, <2>3, <2>4 DEF MapBlock, Block
  <1>5. GoodMemory(m_sectors', dbase')
    BY <1>2, <1>3, <1>4 DEF GoodMemory, Loaded
  <1>6. ThreadsTyped' /\ pc'[t] # "load"
    <2>1. AnyBlock \in Blocks
      BY DEF AnyBlock, ThreadsTyped
    <2> QED BY <1>3, <2>1 DEF EndLoop, Go, ThreadsTyped, Nothing
  <1>7. \A u \in EmergeThreads \ {t} :
            pc'[u] = pc[u] /\ pos'[u] = pos[u] /\ from_db'[u] = from_db[u]
    BY <1>3 DEF EndLoop, Go, ThreadsTyped
  <1>8. ReadsAreFresh'
    BY <1>2, <1>3, <1>6, <1>7, OthersStayFresh DEF Loaded
  <1> QED BY <1>3, <1>5, <1>6, <1>8

LEMMA cancelBlockMakeKeeps ==
    ASSUME CleanInv, NEW t \in EmergeThreads, cancelBlockMake(t)
    PROVE  CleanInv'
  <1> USE DEF CleanInv
  <1>1. /\ UNCHANGED <<dbase, from_db, writes>> /\ EndLoop(t)
        /\ bmdata' = [bmdata EXCEPT ![t] = Nothing] /\ UNCHANGED Loaded
        /\ m_sectors' = [b \in Loaded |->
              IF b \in DOMAIN bmdata[t]
              THEN [m_sectors[b] EXCEPT !.m_refcount = @ - 1] ELSE m_sectors[b]]
    BY DEF cancelBlockMake, Loaded
  <1>2. ASSUME NEW b \in Loaded
        PROVE  m_sectors'[b] \in Block /\ (~m_sectors'[b].modified => UpToDate(m_sectors'[b], dbase, b))
    <2>1. m_sectors[b] \in Block /\ (~m_sectors[b].modified => UpToDate(m_sectors[b], dbase, b))
      BY DEF GoodMemory, Loaded
    <2> DEFINE x == [m_sectors[b] EXCEPT !.m_refcount = @ - 1]
    <2>2. /\ x \in Block /\ x.modified = m_sectors[b].modified
          /\ x.content = m_sectors[b].content /\ x.generated = m_sectors[b].generated
      BY <2>1 DEF Block
    <2>3. m_sectors'[b] \in {x, m_sectors[b]}
      BY <1>1
    <2> HIDE DEF x
    <2> QED BY <2>1, <2>2, <2>3 DEF UpToDate
  <1>3. GoodMemory(m_sectors', dbase')
    BY <1>1, <1>2 DEF GoodMemory
  <1>4. ThreadsTyped' /\ pc'[t] # "load"
    <2>1. AnyBlock \in Blocks
      BY DEF AnyBlock, ThreadsTyped
    <2> QED BY <1>1, <2>1 DEF EndLoop, Go, ThreadsTyped, Nothing
  <1>5. \A u \in EmergeThreads \ {t} :
            pc'[u] = pc[u] /\ pos'[u] = pos[u] /\ from_db'[u] = from_db[u]
    BY <1>1 DEF EndLoop, Go, ThreadsTyped
  <1> QED BY <1>1, <1>3, <1>4, <1>5, OthersStayFresh

-----------------------------------------------------------------------------
(* The steps of the server thread                                          *)

\* A step of the server that changes the database only for blocks that no
\* thread is reading keeps what the threads have read.
LEMMA ServerKeepsReads ==
    ASSUME ReadsAreFresh, UNCHANGED threadVars,
           \A t \in EmergeThreads : pc[t] = "load" /\ pos[t] \notin Loaded' =>
               pos[t] \notin Loaded /\ ReadOf(dbase', pos[t]) = ReadOf(dbase, pos[t])
    PROVE  ReadsAreFresh'
  BY DEF ReadsAreFresh, threadVars

LEMMA emergeBlockKeeps ==
    ASSUME CleanInv, NEW b \in Blocks, NEW create_blank, emergeBlock(b, create_blank)
    PROVE  CleanInv'
  <1> USE DEF CleanInv
  <1>1. /\ m_sectors' = [x \in Loaded \cup {b} |->
              IF x # b THEN m_sectors[x]
              ELSE IF b \in Saved THEN FromBlob(dbase[b]) ELSE MapBlock(0, FALSE, FALSE, 0)]
        /\ UNCHANGED <<dbase, threadVars, writes>> /\ b \notin Loaded
    BY DEF emergeBlock
  <1>2. m_sectors'[b] \in Block /\ UpToDate(m_sectors'[b], dbase, b)
    <2>1. CASE b \in Saved
      BY <1>1, <2>1, FromBlobGood
    <2>2. CASE b \notin Saved
      BY <1>1, <2>2 DEF MapBlock, Block, UpToDate, Saved
    <2> QED BY <2>1, <2>2
  <1>3. GoodMemory(m_sectors', dbase')
    BY <1>1, <1>2 DEF GoodMemory, Loaded
  <1>4. ThreadsTyped' /\ ReadsAreFresh'
    BY <1>1, ServerKeepsReads DEF ThreadsTyped, threadVars, Loaded
  <1> QED BY <1>1, <1>3, <1>4

LEMMA setNodeKeeps ==
    ASSUME CleanInv, NEW b \in Blocks, setNode(b)
    PROVE  CleanInv'
  <1> USE DEF CleanInv
  <1>0. /\ b \in Loaded /\ writes' = writes + 1
        /\ m_sectors' = [m_sectors EXCEPT ![b].content = writes', ![b].modified = TRUE]
        /\ UNCHANGED <<dbase, threadVars>>
    BY DEF setNode
  <1>1. /\ b \in Loaded /\ writes' \in Nat /\ UNCHANGED <<dbase, threadVars>>
        /\ m_sectors' = [m_sectors EXCEPT ![b].content = writes', ![b].modified = TRUE]
        /\ UNCHANGED Loaded
    BY <1>0 DEF ThreadsTyped, Loaded
  <1>2. m_sectors'[b] \in Block /\ m_sectors'[b].modified
    <2>1. m_sectors[b] \in Block
      BY <1>1 DEF GoodMemory, Loaded
    <2> QED BY <1>1, <2>1 DEF Block, Loaded
  <1>3. GoodMemory(m_sectors', dbase')
    BY <1>1, <1>2 DEF GoodMemory, Loaded
  <1>4. ThreadsTyped' /\ ReadsAreFresh'
    BY <1>1, ServerKeepsReads DEF ThreadsTyped, threadVars
  <1> QED BY <1>1, <1>3, <1>4

\* saveBlock changes the database for blocks in memory only.
LEMMA DbaseWithGood ==
    ASSUME DatabaseTyped(dbase), GoodMemory(m_sectors, dbase), NEW S \in SUBSET Loaded
    PROVE  /\ DatabaseTyped(DbaseWith(S)) /\ DOMAIN DbaseWith(S) = Saved \cup S
           /\ \A b \in S : UpToDate(m_sectors[b], DbaseWith(S), b)
           /\ \A b \in Saved \ S : DbaseWith(S)[b] = dbase[b]
  <1>1. DOMAIN DbaseWith(S) = Saved \cup S
    BY DEF DbaseWith
  <1>2. ASSUME NEW b \in S
        PROVE  DbaseWith(S)[b] \in Datum /\ UpToDate(m_sectors[b], DbaseWith(S), b)
    <2>1. m_sectors[b] \in Block
      BY DEF GoodMemory, Loaded
    <2>2. DbaseWith(S)[b] = [content |-> m_sectors[b].content,
                             generated |-> m_sectors[b].generated]
      BY DEF DbaseWith
    <2> QED BY <1>1, <2>1, <2>2 DEF Block, Datum, UpToDate
  <1>3. \A b \in Saved \ S : DbaseWith(S)[b] = dbase[b]
    BY DEF DbaseWith
  <1> QED BY <1>1, <1>2, <1>3 DEF DatabaseTyped, Saved

LEMMA saveKeeps ==
    ASSUME CleanInv, NEW failing, save(failing)
    PROVE  CleanInv'
  <1> USE DEF CleanInv
  <1> DEFINE S == Modified \ failing
  <1>1. /\ dbase' = DbaseWith(S) /\ UNCHANGED <<threadVars, writes>>
        /\ m_sectors' = [b \in Loaded |->
              IF b \in failing THEN m_sectors[b] ELSE [m_sectors[b] EXCEPT !.modified = FALSE]]
    BY DEF save
  <1>2. S \in SUBSET Loaded
    BY DEF Modified
  <1>3. /\ DatabaseTyped(dbase') /\ DOMAIN dbase' = Saved \cup S
        /\ \A b \in S : UpToDate(m_sectors[b], dbase', b)
        /\ \A b \in Saved \ S : dbase'[b] = dbase[b]
    BY <1>1, <1>2, DbaseWithGood
  <1>4. ASSUME NEW b \in Loaded
        PROVE  m_sectors'[b] \in Block /\ (~m_sectors'[b].modified => UpToDate(m_sectors'[b], dbase', b))
    <2>1. m_sectors[b] \in Block /\ (~m_sectors[b].modified => UpToDate(m_sectors[b], dbase, b))
      BY DEF GoodMemory, Loaded
    <2>2. b \notin S => (b \in DOMAIN dbase <=> b \in DOMAIN dbase')
                        /\ (b \in DOMAIN dbase => dbase'[b] = dbase[b])
      BY <1>3 DEF Saved
    <2>3. ~m_sectors[b].modified => UpToDate(m_sectors[b], dbase', b)
      <3> SUFFICES ASSUME ~m_sectors[b].modified PROVE UpToDate(m_sectors[b], dbase', b)
        OBVIOUS
      <3>1. b \notin S
        BY DEF Modified
      <3> QED BY <2>1, <2>2, <3>1, StillUpToDate
    <2>4. CASE b \in failing
      BY <1>1, <2>1, <2>3, <2>4
    <2>5. CASE b \notin failing
      <3>1. UpToDate(m_sectors[b], dbase', b)
        BY <1>3, <2>3, <2>5 DEF Modified
      <3>2. m_sectors'[b] = [m_sectors[b] EXCEPT !.modified = FALSE]
        BY <1>1, <2>5
      <3>3. /\ m_sectors'[b] \in Block /\ m_sectors'[b].content = m_sectors[b].content
            /\ m_sectors'[b].generated = m_sectors[b].generated
        BY <2>1, <3>2 DEF Block
      <3> QED BY <3>1, <3>3 DEF UpToDate
    <2> QED BY <2>4, <2>5
  <1>5. GoodMemory(m_sectors', dbase') /\ UNCHANGED Loaded
    BY <1>1, <1>4 DEF GoodMemory, Loaded
  <1>6. ThreadsTyped'
    BY <1>1 DEF ThreadsTyped, threadVars
  <1>7. ReadsAreFresh'
    <2>1. \A b : b \notin Loaded => ReadOf(dbase', b) = ReadOf(dbase, b)
      BY <1>2, <1>3 DEF ReadOf, Saved
    <2> QED BY <1>1, <1>5, <2>1, ServerKeepsReads
  <1> QED BY <1>3, <1>5, <1>6, <1>7

LEMMA timerUpdateKeeps ==
    ASSUME CleanInv, "unload while read" \notin Races,
           NEW expired \in SUBSET Loaded, NEW failing, timerUpdate(expired, failing)
    PROVE  CleanInv'
  <1> USE DEF CleanInv
  <1> DEFINE S == (expired \ failing) \cap Modified
  <1>1. /\ dbase' = DbaseWith(S) /\ UNCHANGED <<threadVars, writes>>
        /\ \A b \in expired : Reading(b) = {}
    BY DEF timerUpdate, SavedBeforeUnload
  <1>2. PICK gone \in SUBSET expired : m_sectors' = [b \in Loaded \ gone |-> m_sectors[b]]
                                       /\ S \subseteq gone
    BY DEF timerUpdate
  <1>3. S \in SUBSET Loaded
    BY DEF Modified
  <1>4. /\ DatabaseTyped(dbase') /\ DOMAIN dbase' = Saved \cup S
        /\ \A b \in Saved \ S : dbase'[b] = dbase[b]
    BY <1>1, <1>3, DbaseWithGood
  <1> HIDE DEF S
  <1>5. Loaded' = Loaded \ gone
    BY <1>2 DEF Loaded
  <1>6. ASSUME NEW b \in Loaded'
        PROVE  m_sectors'[b] \in Block /\ (~m_sectors'[b].modified => UpToDate(m_sectors'[b], dbase', b))
    <2>1. m_sectors'[b] = m_sectors[b] /\ b \in Loaded /\ b \notin S
      BY <1>2, <1>5
    <2>2. m_sectors[b] \in Block /\ (~m_sectors[b].modified => UpToDate(m_sectors[b], dbase, b))
      BY <2>1 DEF GoodMemory, Loaded
    <2>3. (b \in DOMAIN dbase <=> b \in DOMAIN dbase')
          /\ (b \in DOMAIN dbase => dbase'[b] = dbase[b])
      BY <1>4, <2>1 DEF Saved
    <2> QED BY <2>1, <2>2, <2>3, StillUpToDate
  <1>7. GoodMemory(m_sectors', dbase')
    BY <1>6 DEF GoodMemory, Loaded
  <1>8. ReadsAreFresh'
    <2>1. ASSUME NEW t \in EmergeThreads, pc[t] = "load", pos[t] \notin Loaded'
          PROVE  pos[t] \notin Loaded /\ ReadOf(dbase', pos[t]) = ReadOf(dbase, pos[t])
      <3>1. pos[t] \notin expired
        BY <1>1, <2>1 DEF Reading
      <3>2. pos[t] \notin Loaded /\ pos[t] \notin S
        BY <1>2, <1>5, <2>1, <3>1
      <3> QED BY <1>4, <3>2 DEF ReadOf, Saved
    <2> QED BY <1>1, <2>1, ServerKeepsReads
  <1>9. ThreadsTyped'
    BY <1>1 DEF ThreadsTyped, threadVars
  <1> QED BY <1>4, <1>7, <1>8, <1>9

LEMMA deleteBlockKeeps ==
    ASSUME CleanInv, "delete while read" \notin Races, NEW b \in Blocks, deleteBlock(b)
    PROVE  CleanInv'
  <1> USE DEF CleanInv
  <1>1. /\ dbase' = [x \in Saved \ {b} |-> dbase[x]]
        /\ m_sectors' = [x \in Loaded \ {b} |-> m_sectors[x]]
        /\ UNCHANGED <<threadVars, writes>> /\ Reading(b) = {}
    BY DEF deleteBlock
  <1>2. /\ DatabaseTyped(dbase') /\ DOMAIN dbase' = Saved \ {b}
        /\ \A x \in Saved \ {b} : dbase'[x] = dbase[x]
    BY <1>1 DEF DatabaseTyped, Saved
  <1>3. Loaded' = Loaded \ {b} /\ \A x \in Loaded' : m_sectors'[x] = m_sectors[x]
    BY <1>1 DEF Loaded
  <1>4. GoodMemory(m_sectors', dbase')
    <2>1. ASSUME NEW x \in Loaded'
          PROVE  m_sectors[x] \in Block /\ (~m_sectors[x].modified => UpToDate(m_sectors[x], dbase', x))
      <3>1. x \in Loaded /\ x # b
        BY <1>3
      <3>2. m_sectors[x] \in Block /\ (~m_sectors[x].modified => UpToDate(m_sectors[x], dbase, x))
        BY <3>1 DEF GoodMemory, Loaded
      <3>3. (x \in DOMAIN dbase <=> x \in DOMAIN dbase')
            /\ (x \in DOMAIN dbase => dbase'[x] = dbase[x])
        BY <1>2, <3>1 DEF Saved
      <3> QED BY <3>2, <3>3, StillUpToDate
    <2> QED BY <1>3, <2>1 DEF GoodMemory, Loaded
  <1>5. ReadsAreFresh'
    <2>1. ASSUME NEW t \in EmergeThreads, pc[t] = "load", pos[t] \notin Loaded'
          PROVE  pos[t] \notin Loaded /\ ReadOf(dbase', pos[t]) = ReadOf(dbase, pos[t])
      <3>1. pos[t] # b
        BY <1>1, <2>1 DEF Reading
      <3> QED BY <1>2, <1>3, <2>1, <3>1 DEF ReadOf, Saved
    <2> QED BY <1>1, <2>1, ServerKeepsReads
  <1>6. ThreadsTyped'
    BY <1>1 DEF ThreadsTyped, threadVars
  <1> QED BY <1>2, <1>4, <1>5, <1>6

-----------------------------------------------------------------------------
(* The theorem                                                             *)

LEMMA CleanInvStep ==
    ASSUME ServerMapAssumption, "unload while read" \notin Races,
           "delete while read" \notin Races, CleanInv, [Next]_vars
    PROVE  CleanInv'
  <1>1. CASE UNCHANGED vars
    BY <1>1 DEF vars, threadVars, CleanInv, DatabaseTyped, GoodMemory, ThreadsTyped,
               ReadsAreFresh, Loaded
  <1>2. CASE Server
    BY <1>2, emergeBlockKeeps, setNodeKeeps, deleteBlockKeeps, saveKeeps, timerUpdateKeeps
       DEF Server
  <1>3. CASE \E t \in EmergeThreads : EmergeThread(t)
    BY <1>3, BeginEmergeKeeps, ReadBlockKeeps, LoadBlockKeeps, finishBlockMakeKeeps,
       cancelBlockMakeKeeps DEF EmergeThread
  <1> QED BY <1>1, <1>2, <1>3 DEF Next

LEMMA CleanInvInit ==
    ASSUME ServerMapAssumption, Init
    PROVE  CleanInv
  <1>1. AnyBlock \in Blocks
    BY DEF AnyBlock, ServerMapAssumption
  <1>2. DatabaseTyped(dbase) /\ GoodMemory(m_sectors, dbase)
    BY DEF Init, DatabaseTyped, GoodMemory, Nothing
  <1>3. ThreadsTyped
    BY <1>1 DEF Init, ThreadsTyped, Nothing
  <1>4. ReadsAreFresh
    BY DEF Init, ReadsAreFresh
  <1> QED BY <1>2, <1>3, <1>4 DEF CleanInv

\* What ServerMap::loadBlock says of a block it has loaded ("We just loaded it,
\* so it's up-to-date") stays true: a block that is not marked as modified is
\* what the database has.  All other races of the environment are allowed, and
\* saves and mapgen scripts may fail.
THEOREM LoadedIsUpToDate ==
    ASSUME "unload while read" \notin Races, "delete while read" \notin Races
    PROVE  Spec => []CleanMeansSaved
  <1>1. Init => CleanInv
    BY CleanInvInit, ServerMapAssumption
  <1>2. CleanInv /\ [Next]_vars => CleanInv'
    BY CleanInvStep, ServerMapAssumption
  <1>3. CleanInv => CleanMeansSaved
    <2> SUFFICES ASSUME CleanInv, NEW b \in Loaded \ Modified
                 PROVE  IF b \in Saved
                        THEN /\ m_sectors[b].content = dbase[b].content
                             /\ m_sectors[b].generated = dbase[b].generated
                        ELSE m_sectors[b].content = 0 /\ ~m_sectors[b].generated
      BY DEF CleanMeansSaved
    <2>1. m_sectors[b] \in Block /\ (~m_sectors[b].modified => UpToDate(m_sectors[b], dbase, b))
      BY DEF CleanInv, GoodMemory, Loaded
    <2>2. ~m_sectors[b].modified
      BY DEF Modified
    <2> QED BY <2>1, <2>2 DEF UpToDate, Saved
  <1> QED BY <1>1, <1>2, <1>3, PTL DEF Spec

-----------------------------------------------------------------------------
(* Chunks in progress                                                      *)

\* The shape of what a thread keeps of its place.
PlacesTyped ==
    /\ DOMAIN pc = EmergeThreads
    /\ DOMAIN pos = EmergeThreads /\ DOMAIN allow_gen = EmergeThreads

ChunksInv == PlacesTyped /\ ChunksTracked

\* A thread that generates nothing after its step disturbs no other one.
LEMMA NotMaking ==
    ASSUME ChunksInv, NEW t \in EmergeThreads, NEW where, NEW b, NEW gen,
           Go(t, where, b, gen), where # "makeChunk",
           \A u \in EmergeThreads \ {t} : pc[u] = "makeChunk" =>
               (ChunkOf[pos[u]] \in m_chunks_in_progress
                   => ChunkOf[pos[u]] \in m_chunks_in_progress')
    PROVE  ChunksInv'
  BY DEF ChunksInv, PlacesTyped, ChunksTracked, Go

LEMMA GetOrStartGenTracks ==
    ASSUME ChunksInv, NEW t \in EmergeThreads, NEW b, NEW gen, NEW mem,
           GetOrStartGen(t, b, gen, mem)
    PROVE  ChunksInv'
  <1>1. CASE EndLoop(t) /\ m_chunks_in_progress \subseteq m_chunks_in_progress'
    BY <1>1, NotMaking DEF EndLoop
  <1>2. CASE /\ Go(t, "makeChunk", b, TRUE) /\ ChunkOf[b] \notin m_chunks_in_progress
             /\ m_chunks_in_progress' = m_chunks_in_progress \cup {ChunkOf[b]}
    BY <1>2 DEF ChunksInv, PlacesTyped, ChunksTracked, Go
  <1> QED BY <1>1, <1>2 DEF GetOrStartGen, MayMake, initBlockMake

LEMMA ChunksInvStep ==
    ASSUME ChunksInv, [Next]_vars
    PROVE  ChunksInv'
  <1>1. CASE UNCHANGED vars \/ Server
    <2>1. UNCHANGED <<threadVars, m_chunks_in_progress>>
      BY <1>1 DEF vars, Server, emergeBlock, setNode, deleteBlock, save, timerUpdate,
                  threadVars
    <2> QED BY <2>1 DEF ChunksInv, PlacesTyped, ChunksTracked, threadVars
  <1>2. ASSUME NEW t \in EmergeThreads, EmergeThread(t)
        PROVE  ChunksInv'
    <2>1. ASSUME NEW b \in Blocks, NEW gen \in BOOLEAN, BeginEmerge(t, b, gen)
          PROVE  ChunksInv'
      <3>1. CASE GetOrStartGen(t, b, gen, m_sectors)
        BY <3>1, GetOrStartGenTracks
      <3>2. CASE Go(t, "read", b, gen) /\ UNCHANGED m_chunks_in_progress
        BY <3>2, NotMaking
      <3> QED BY <2>1, <3>1, <3>2 DEF BeginEmerge
    <2>2. CASE ReadBlock(t)
      BY <2>2, NotMaking DEF ReadBlock
    <2>3. CASE LoadBlock(t)
      BY <2>3, GetOrStartGenTracks DEF LoadBlock
    <2>4. CASE finishBlockMake(t)
      <3>1. /\ EndLoop(t) /\ pc[t] = "makeChunk"
            /\ m_chunks_in_progress' = m_chunks_in_progress \ {ChunkOf[pos[t]]}
        BY <2>4 DEF finishBlockMake
      <3>2. \A u \in EmergeThreads \ {t} :
                pc[u] = "makeChunk" => ChunkOf[pos[u]] # ChunkOf[pos[t]]
        BY <3>1 DEF ChunksInv, ChunksTracked
      <3> QED BY <3>1, <3>2, NotMaking DEF EndLoop
    <2>5. CASE cancelBlockMake(t)
      BY <2>5, NotMaking DEF cancelBlockMake, EndLoop
    <2> QED BY <1>2, <2>1, <2>2, <2>3, <2>4, <2>5 DEF EmergeThread
  <1> QED BY <1>1, <1>2 DEF Next

\* m_chunks_in_progress keeps two threads from generating one chunk, whatever
\* the environment does and even though cancelBlockMake never takes a chunk out.
THEOREM ChunkMadeByOneThread == Spec => []ChunksTracked
  <1>1. Init => ChunksInv
    BY DEF Init, ChunksInv, PlacesTyped, ChunksTracked
  <1>2. ChunksInv /\ [Next]_vars => ChunksInv'
    BY ChunksInvStep
  <1>3. ChunksInv => ChunksTracked
    BY DEF ChunksInv
  <1> QED BY <1>1, <1>2, <1>3, PTL DEF Spec

-----------------------------------------------------------------------------
(* Unsaved changes                                                         *)

\* What thread t does takes no block out of the memory.
LEMMA ThreadsUnloadNothing ==
    ASSUME NEW t \in EmergeThreads, EmergeThread(t)
    PROVE  Loaded \subseteq DOMAIN m_sectors'
  <1>1. ASSUME NEW b, NEW gen, NEW mem, Loaded \subseteq DOMAIN mem,
               GetOrStartGen(t, b, gen, mem)
        PROVE  Loaded \subseteq DOMAIN m_sectors'
    BY <1>1 DEF GetOrStartGen, initBlockMake, AreaEmerged
  <1>2. ASSUME NEW b \in Blocks, NEW gen \in BOOLEAN, BeginEmerge(t, b, gen)
        PROVE  Loaded \subseteq DOMAIN m_sectors'
    BY <1>1, <1>2 DEF BeginEmerge, Loaded
  <1>3. CASE LoadBlock(t)
    <2>1. Loaded \subseteq DOMAIN MemoryWith(pos[t], from_db[t])
      BY DEF MemoryWith, Loaded
    <2> QED BY <1>1, <1>3, <2>1 DEF LoadBlock
  <1>4. CASE ReadBlock(t) \/ finishBlockMake(t) \/ cancelBlockMake(t)
    BY <1>4 DEF ReadBlock, finishBlockMake, cancelBlockMake, Loaded
  <1> QED BY <1>2, <1>3, <1>4 DEF EmergeThread

\* As long as the database takes what it is given, an unsaved change only
\* leaves the memory when its block is deleted.
THEOREM ChangesAreSaved ==
    ASSUME "save fails" \notin Races
    PROVE  Spec => NothingUnsavedDropped
  <1> DEFINE Kept(b) == \/ b \in DOMAIN dbase' /\ dbase'[b].content = m_sectors[b].content
                        \/ b \notin DOMAIN dbase' /\ deleteBlock(b)
  <1>1. ASSUME [Next]_vars, NEW b \in Modified \ DOMAIN m_sectors'
        PROVE  Kept(b)
    <2>0. b \in Loaded
      BY DEF Modified
    <2>1. CASE UNCHANGED vars
      BY <2>0, <2>1 DEF vars, Loaded
    <2>2. CASE \E t \in EmergeThreads : EmergeThread(t)
      BY <2>0, <2>2, ThreadsUnloadNothing
    <2>3. ASSUME NEW x \in Blocks, NEW blank \in BOOLEAN,
                 emergeBlock(x, blank) \/ setNode(x)
          PROVE  FALSE
      BY <2>0, <2>3 DEF emergeBlock, setNode, Loaded
    <2>4. ASSUME NEW x \in Blocks, deleteBlock(x)
          PROVE  Kept(b)
      BY <2>0, <2>4 DEF deleteBlock
    <2>5. ASSUME NEW failing, save(failing)
          PROVE  FALSE
      BY <2>0, <2>5 DEF save
    <2>6. ASSUME NEW expired \in SUBSET Loaded, NEW failing \in Failing,
                 timerUpdate(expired, failing)
          PROVE  Kept(b)
      <3>1. failing = {}
        BY DEF Failing
      <3>2. /\ m_sectors' = [x \in Loaded \ expired |-> m_sectors[x]]
            /\ dbase' = DbaseWith(expired \cap Modified)
        BY <2>6, <3>1 DEF timerUpdate, SavedBeforeUnload
      <3>3. b \in expired \cap Modified
        BY <2>0, <3>2
      <3> QED BY <3>2, <3>3 DEF DbaseWith
    <2> QED BY <1>1, <2>1, <2>2, <2>3, <2>4, <2>5, <2>6 DEF Next, Server, Failing
  <1>2. [Next]_vars => [\A b \in Modified \ DOMAIN m_sectors' : Kept(b)]_vars
    BY <1>1
  <1> HIDE DEF Kept
  <1>3. Spec => [][\A b \in Modified \ DOMAIN m_sectors' : Kept(b)]_vars
    BY <1>2, PTL DEF Spec
  <1> QED BY <1>3 DEF NothingUnsavedDropped, Kept

-----------------------------------------------------------------------------
(* References                                                              *)

\* A block in memory, with all its fields.
IsMapBlock(x) == x = MapBlock(x.content, x.generated, x.modified, x.m_refcount)

\* Memory mem counts the threads that generate a chunk around a block.
RefsIn(mem) ==
    /\ \A b \in DOMAIN mem :
          IsMapBlock(mem[b]) /\ mem[b].m_refcount = Cardinality(Generating(b))
    /\ \A b \in Blocks \ DOMAIN mem : Generating(b) = {}

\* A thread has the area of the chunk it generates in its vmanip.
AreasHeld ==
    \A t \in EmergeThreads :
        pc[t] = "makeChunk" => DOMAIN bmdata[t] = FullArea[ChunkOf[pos[t]]]

RefsInv ==
    /\ pc \in [EmergeThreads -> {"idle", "read", "load", "makeChunk"}]
    /\ pos \in [EmergeThreads -> Blocks] /\ DOMAIN bmdata = EmergeThreads
    /\ AreasHeld /\ RefsIn(m_sectors)

\* The area of the chunk around block b.
Area(b) == FullArea[ChunkOf[b]]

LEMMA AreaInBlocks ==
    ASSUME ServerMapAssumption, NEW b \in Blocks
    PROVE  /\ Area(b) \subseteq Blocks /\ Interior[ChunkOf[b]] \subseteq Area(b)
           /\ ChunkOf[b] \in Chunks
  BY DEF Area, ServerMapAssumption

LEMMA GeneratingFinite ==
    ASSUME ServerMapAssumption, NEW b
    PROVE  IsFiniteSet(Generating(b)) /\ Cardinality(Generating(b)) \in Nat
  <1>1. Generating(b) \subseteq EmergeThreads /\ IsFiniteSet(EmergeThreads)
    BY DEF Generating, ServerMapAssumption
  <1> QED BY <1>1, FS_Subset, FS_CardinalityType

\* A thread that starts to generate a chunk is one more for each of its blocks.
LEMMA OneMore ==
    ASSUME ServerMapAssumption, RefsInv, NEW t \in EmergeThreads, NEW b \in Blocks, NEW gen,
           pc[t] # "makeChunk", Go(t, "makeChunk", b, gen), NEW x
    PROVE  Cardinality(Generating(x))' = Cardinality(Generating(x))
                                            + (IF x \in Area(b) THEN 1 ELSE 0)
  <1>1. t \notin Generating(x)
    BY DEF Generating
  <1>2. Generating(x)' = IF x \in Area(b) THEN Generating(x) \cup {t} ELSE Generating(x)
    BY DEF Generating, Go, RefsInv, Area
  <1>3. IsFiniteSet(Generating(x)) /\ Cardinality(Generating(x)) \in Nat
    BY GeneratingFinite
  <1>4. Cardinality(Generating(x) \cup {t}) = Cardinality(Generating(x)) + 1
    BY <1>1, <1>3, FS_AddElement
  <1> HIDE DEF Generating
  <1> QED BY <1>2, <1>3, <1>4

\* A thread that has generated a chunk is one less for each of its blocks.
LEMMA OneLess ==
    ASSUME ServerMapAssumption, RefsInv, NEW t \in EmergeThreads, pc[t] = "makeChunk",
           EndLoop(t), NEW x
    PROVE  /\ Cardinality(Generating(x))' = Cardinality(Generating(x))
                                               - (IF x \in Area(pos[t]) THEN 1 ELSE 0)
           /\ Generating(x)' \subseteq Generating(x)
           /\ x \in Area(pos[t]) => t \in Generating(x)
  <1>1. x \in Area(pos[t]) <=> t \in Generating(x)
    BY DEF Generating, Area
  <1>2. Generating(x)' = Generating(x) \ {t}
    BY DEF Generating, EndLoop, Go, RefsInv
  <1>3. IsFiniteSet(Generating(x)) /\ Cardinality(Generating(x)) \in Nat
    BY GeneratingFinite
  <1>4. Cardinality(Generating(x) \ {t})
            = IF t \in Generating(x) THEN Cardinality(Generating(x)) - 1
              ELSE Cardinality(Generating(x))
    BY <1>3, FS_RemoveElement
  <1> QED BY <1>1, <1>2, <1>3, <1>4

\* Other steps of a thread change no count.
LEMMA NoneMore ==
    ASSUME RefsInv, NEW t \in EmergeThreads, NEW where, NEW b, NEW gen,
           pc[t] # "makeChunk", where # "makeChunk", Go(t, where, b, gen), NEW x
    PROVE  Generating(x)' = Generating(x)
  BY DEF Generating, Go, RefsInv

\* A block that nobody had in memory is loaded or created without references.
LEMMA NewBlockRefs ==
    ASSUME NEW mem, RefsIn(mem), NEW b \in Blocks \ DOMAIN mem, NEW x,
           IsMapBlock(x), x.m_refcount = 0
    PROVE  x.m_refcount = Cardinality(Generating(b))
  <1>1. Generating(b) = {}
    BY DEF RefsIn
  <1> QED BY <1>1, FS_EmptySet

LEMMA NewBlocks ==
    /\ IsMapBlock(CreatedBlock) /\ CreatedBlock.m_refcount = 0
    /\ \A data : IsMapBlock(FromBlob(data)) /\ FromBlob(data).m_refcount = 0
  BY DEF IsMapBlock, CreatedBlock, FromBlob, MapBlock

LEMMA MemoryWithRefs ==
    ASSUME RefsInv, NEW b \in Blocks, NEW data
    PROVE  RefsIn(MemoryWith(b, data))
  <1>1. CASE b \in Loaded \/ data = {}
    BY <1>1 DEF MemoryWith, RefsInv
  <1>2. CASE ~(b \in Loaded \/ data = {})
    <2> DEFINE x == FromBlob(CHOOSE d \in data : TRUE)
    <2>1. IsMapBlock(x) /\ x.m_refcount = 0
      BY NewBlocks
    <2>2. MemoryWith(b, data) = [y \in Loaded \cup {b} |-> IF y = b THEN x ELSE m_sectors[y]]
      BY <1>2 DEF MemoryWith
    <2>3. x.m_refcount = Cardinality(Generating(b))
      BY <1>2, <2>1, NewBlockRefs DEF RefsInv, Loaded
    <2> HIDE DEF x
    <2> QED BY <2>1, <2>2, <2>3 DEF RefsIn, RefsInv, Loaded
  <1> QED BY <1>1, <1>2

\* initBlockMake grabs every block of the area once.
LEMMA AreaEmergedRefs ==
    ASSUME ServerMapAssumption, RefsInv, NEW t \in EmergeThreads, pc[t] # "makeChunk",
           NEW b \in Blocks, Go(t, "makeChunk", b, TRUE), NEW mem, RefsIn(mem),
           m_sectors' = AreaEmerged(mem, ChunkOf[b])
    PROVE  RefsIn(m_sectors)'
  <1> DEFINE old(x) == IF x \in DOMAIN mem \cup Saved THEN EmergedBlock(mem, x)
                       ELSE CreatedBlock
  <1>1. DOMAIN m_sectors' = DOMAIN mem \cup Area(b) /\ Area(b) \subseteq Blocks
    BY AreaInBlocks DEF AreaEmerged, Area
  <1>2. ASSUME NEW x \in Blocks \ DOMAIN m_sectors'
        PROVE  Generating(x)' = {}
    <2>1. x \notin DOMAIN mem /\ x \notin Area(b) /\ Generating(x) = {}
      BY <1>1 DEF RefsIn
    <2> QED BY <2>1 DEF Generating, Go, RefsInv, Area
  <1>3. ASSUME NEW x \in DOMAIN m_sectors'
        PROVE  /\ IsMapBlock(m_sectors'[x])
               /\ m_sectors'[x].m_refcount = Cardinality(Generating(x))'
    <2>0. Cardinality(Generating(x)) \in Nat
      BY GeneratingFinite
    <2>1. CASE x \notin Area(b)
      <3>1. x \in DOMAIN mem /\ m_sectors'[x] = mem[x]
        BY <1>1, <2>1 DEF AreaEmerged, Area
      <3>2. Cardinality(Generating(x))' = Cardinality(Generating(x))
        <4>1. Cardinality(Generating(x))' = Cardinality(Generating(x))
                                               + (IF x \in Area(b) THEN 1 ELSE 0)
          BY OneMore
        <4> QED BY <2>0, <2>1, <4>1
      <3> QED BY <3>1, <3>2 DEF RefsIn
    <2>2. CASE x \in Area(b)
      <3>1. m_sectors'[x] = Grabbed(old(x))
        BY <2>2 DEF AreaEmerged, Area
      <3>2. IsMapBlock(old(x)) /\ old(x).m_refcount = Cardinality(Generating(x))
        <4>1. CASE x \in DOMAIN mem
          BY <4>1 DEF EmergedBlock, RefsIn
        <4>2. CASE x \notin DOMAIN mem
          <5>1. IsMapBlock(old(x)) /\ old(x).m_refcount = 0
            BY <4>2, NewBlocks DEF EmergedBlock
          <5> HIDE DEF old
          <5> QED BY <1>1, <2>2, <4>2, <5>1, NewBlockRefs
        <4> QED BY <4>1, <4>2
      <3>3. Cardinality(Generating(x))' = Cardinality(Generating(x)) + 1
        BY <2>2, OneMore
      <3> HIDE DEF old
      <3>4. IsMapBlock(Grabbed(old(x))) /\ Grabbed(old(x)).m_refcount = old(x).m_refcount + 1
        BY <3>2 DEF IsMapBlock, MapBlock, Grabbed
      <3> QED BY <2>0, <3>1, <3>2, <3>3, <3>4
    <2> QED BY <2>1, <2>2
  <1> QED BY <1>2, <1>3 DEF RefsIn

\* A step that leaves all counts alone and the memory as it is.
LEMMA SameRefs ==
    ASSUME NEW mem, RefsIn(mem), m_sectors' = mem,
           \A x : Generating(x)' = Generating(x)
    PROVE  RefsIn(m_sectors)'
  BY DEF RefsIn

LEMMA GetOrStartGenRefs ==
    ASSUME ServerMapAssumption, RefsInv, NEW t \in EmergeThreads, pc[t] # "makeChunk",
           NEW b \in Blocks, NEW gen, NEW mem, RefsIn(mem), GetOrStartGen(t, b, gen, mem)
    PROVE  RefsInv'
  <1>0. AnyBlock \in Blocks
    BY DEF AnyBlock
  <1>1. CASE EndLoop(t) /\ m_sectors' = mem /\ UNCHANGED bmdata
    <2>1. \A x : Generating(x)' = Generating(x)
      BY <1>1, NoneMore DEF EndLoop
    <2>2. RefsIn(m_sectors)'
      BY <1>1, <2>1, SameRefs
    <2>3. AreasHeld'
      BY <1>1 DEF EndLoop, Go, RefsInv, AreasHeld
    <2> QED BY <1>0, <1>1, <2>2, <2>3 DEF EndLoop, Go, RefsInv
  <1>2. CASE /\ Go(t, "makeChunk", b, TRUE)
             /\ m_sectors' = AreaEmerged(mem, ChunkOf[b])
             /\ bmdata' = [bmdata EXCEPT ![t] =
                    [x \in FullArea[ChunkOf[b]] |-> m_sectors'[x].content]]
    <2>1. RefsIn(m_sectors)'
      BY <1>2, AreaEmergedRefs
    <2>2. AreasHeld'
      BY <1>2 DEF Go, RefsInv, AreasHeld
    <2> QED BY <1>2, <2>1, <2>2 DEF Go, RefsInv
  <1> QED BY <1>1, <1>2 DEF GetOrStartGen, initBlockMake

\* What a thread does with the area of its chunk when it is done drops every
\* reference it held.
LEMMA DroppedRefs ==
    ASSUME ServerMapAssumption, RefsInv, NEW t \in EmergeThreads, pc[t] = "makeChunk",
           EndLoop(t), bmdata' = [bmdata EXCEPT ![t] = Nothing],
           DOMAIN m_sectors' = Loaded,
           \A x \in Loaded :
              /\ IsMapBlock(m_sectors'[x])
              /\ m_sectors'[x].m_refcount =
                     m_sectors[x].m_refcount - (IF x \in Area(pos[t]) THEN 1 ELSE 0)
    PROVE  RefsInv'
  <1>0. AnyBlock \in Blocks
    BY DEF AnyBlock, RefsInv
  <1>1. AreasHeld'
    BY DEF EndLoop, Go, RefsInv, AreasHeld
  <1>2. ASSUME NEW x \in Loaded
        PROVE  m_sectors'[x].m_refcount = Cardinality(Generating(x))'
    BY OneLess DEF RefsInv, RefsIn, Loaded
  <1>3. ASSUME NEW x \in Blocks \ Loaded
        PROVE  Generating(x)' = {}
    <2>1. Generating(x) = {}
      BY DEF RefsInv, RefsIn, Loaded
    <2>2. Generating(x)' \subseteq Generating(x)
      BY OneLess
    <2> QED BY <2>1, <2>2
  <1>4. RefsIn(m_sectors)'
    BY <1>2, <1>3 DEF RefsIn
  <1> QED BY <1>0, <1>1, <1>4 DEF EndLoop, Go, RefsInv

\* The area of a chunk that is generated is in memory.
LEMMA AreaLoaded ==
    ASSUME ServerMapAssumption, RefsInv, NEW t \in EmergeThreads, pc[t] = "makeChunk"
    PROVE  DOMAIN bmdata[t] = Area(pos[t]) /\ Area(pos[t]) \subseteq Loaded
  <1>1. pos[t] \in Blocks /\ Area(pos[t]) \subseteq Blocks
    BY AreaInBlocks DEF RefsInv
  <1>2. \A x \in Area(pos[t]) : t \in Generating(x)
    BY DEF Generating, Area
  <1> QED BY <1>1, <1>2 DEF RefsInv, RefsIn, AreasHeld, Area, Loaded

LEMMA FinishedRefs ==
    ASSUME NEW b \in Loaded, NEW chunk, NEW made
    PROVE  /\ IsMapBlock(Finished(b, chunk, made))
           /\ Finished(b, chunk, made).m_refcount = m_sectors[b].m_refcount - 1
  BY DEF Finished, EmergedBlock, MapBlock, IsMapBlock, Loaded

LEMMA ThreadRefs ==
    ASSUME ServerMapAssumption, RefsInv, NEW t \in EmergeThreads, EmergeThread(t)
    PROVE  RefsInv'
  <1>1. ASSUME NEW b \in Blocks, NEW gen, BeginEmerge(t, b, gen)
        PROVE  RefsInv'
    <2>1. CASE GetOrStartGen(t, b, gen, m_sectors)
      BY <1>1, <2>1, GetOrStartGenRefs DEF BeginEmerge, RefsInv
    <2>2. CASE Go(t, "read", b, gen) /\ UNCHANGED <<m_chunks_in_progress, m_sectors, bmdata>>
      <3>1. \A x : Generating(x)' = Generating(x)
        BY <1>1, <2>2, NoneMore DEF BeginEmerge
      <3>2. RefsIn(m_sectors)'
        BY <2>2, <3>1, SameRefs DEF RefsInv
      <3>3. AreasHeld'
        BY <2>2 DEF Go, RefsInv, AreasHeld
      <3> QED BY <2>2, <3>2, <3>3 DEF Go, RefsInv
    <2> QED BY <1>1, <2>1, <2>2 DEF BeginEmerge
  <1>2. CASE ReadBlock(t)
    <2>1. Go(t, "load", pos[t], allow_gen[t]) /\ UNCHANGED <<m_sectors, bmdata>> /\ pc[t] = "read"
      BY <1>2 DEF ReadBlock
    <2>2. \A x : Generating(x)' = Generating(x)
      BY <2>1, NoneMore
    <2>3. RefsIn(m_sectors)'
      BY <2>1, <2>2, SameRefs DEF RefsInv
    <2>4. AreasHeld'
      BY <2>1 DEF Go, RefsInv, AreasHeld
    <2> QED BY <2>1, <2>3, <2>4 DEF Go, RefsInv
  <1>3. CASE LoadBlock(t)
    <2>1. pos[t] \in Blocks
      BY DEF RefsInv
    <2> DEFINE mem == MemoryWith(pos[t], from_db[t])
    <2>2. RefsIn(mem)
      BY <2>1, MemoryWithRefs
    <2>3. GetOrStartGen(t, pos[t], allow_gen[t], mem) /\ pc[t] = "load"
      BY <1>3 DEF LoadBlock
    <2> HIDE DEF mem
    <2> QED BY <2>1, <2>2, <2>3, GetOrStartGenRefs
  <1>4. CASE finishBlockMake(t)
    <2> DEFINE chunk == ChunkOf[pos[t]]
               made  == MadeChunk(bmdata[t], chunk)
    <2>1. /\ pc[t] = "makeChunk" /\ EndLoop(t)
          /\ bmdata' = [bmdata EXCEPT ![t] = Nothing]
          /\ m_sectors' = [b \in Loaded \cup DOMAIN made |->
                IF b \in DOMAIN made THEN Finished(b, chunk, made[b]) ELSE m_sectors[b]]
      BY <1>4 DEF finishBlockMake
    <2>2. DOMAIN made = Area(pos[t]) /\ Area(pos[t]) \subseteq Loaded
      BY <2>1, AreaLoaded DEF MadeChunk
    <2> HIDE DEF made, chunk
    <2>3. DOMAIN m_sectors' = Loaded
      BY <2>1, <2>2
    <2>4. ASSUME NEW x \in Loaded
          PROVE  /\ IsMapBlock(m_sectors'[x])
                 /\ m_sectors'[x].m_refcount =
                        m_sectors[x].m_refcount - (IF x \in Area(pos[t]) THEN 1 ELSE 0)
      <3>1. CASE x \in Area(pos[t])
        BY <2>1, <2>2, <3>1, FinishedRefs
      <3>2. CASE x \notin Area(pos[t])
        <4>1. m_sectors'[x] = m_sectors[x]
          BY <2>1, <2>2, <3>2
        <4>2. IsMapBlock(m_sectors[x]) /\ m_sectors[x].m_refcount \in Nat
          BY GeneratingFinite DEF RefsInv, RefsIn, Loaded
        <4> QED BY <3>2, <4>1, <4>2
      <3> QED BY <3>1, <3>2
    <2> QED BY <2>1, <2>3, <2>4, DroppedRefs
  <1>5. CASE cancelBlockMake(t)
    <2>1. /\ pc[t] = "makeChunk" /\ EndLoop(t)
          /\ bmdata' = [bmdata EXCEPT ![t] = Nothing]
          /\ m_sectors' = [b \in Loaded |->
                IF b \in DOMAIN bmdata[t]
                THEN [m_sectors[b] EXCEPT !.m_refcount = @ - 1] ELSE m_sectors[b]]
      BY <1>5 DEF cancelBlockMake
    <2>2. DOMAIN bmdata[t] = Area(pos[t]) /\ Area(pos[t]) \subseteq Loaded
      BY <2>1, AreaLoaded
    <2>3. DOMAIN m_sectors' = Loaded
      BY <2>1
    <2>4. ASSUME NEW x \in Loaded
          PROVE  /\ IsMapBlock(m_sectors'[x])
                 /\ m_sectors'[x].m_refcount =
                        m_sectors[x].m_refcount - (IF x \in Area(pos[t]) THEN 1 ELSE 0)
      <3>1. IsMapBlock(m_sectors[x]) /\ m_sectors[x].m_refcount \in Nat
        BY GeneratingFinite DEF RefsInv, RefsIn, Loaded
      <3>2. CASE x \in Area(pos[t])
        <4>1. m_sectors'[x] = [m_sectors[x] EXCEPT !.m_refcount = @ - 1]
          BY <2>1, <2>2, <3>2
        <4> QED BY <3>1, <3>2, <4>1 DEF IsMapBlock, MapBlock
      <3>3. CASE x \notin Area(pos[t])
        <4>1. m_sectors'[x] = m_sectors[x]
          BY <2>1, <2>2, <3>3
        <4> QED BY <3>1, <3>3, <4>1
      <3> QED BY <3>2, <3>3
    <2> QED BY <2>1, <2>3, <2>4, DroppedRefs
  <1> QED BY <1>1, <1>2, <1>3, <1>4, <1>5 DEF EmergeThread

\* A step of the server that keeps the count of the blocks it leaves in memory
\* and takes none out that is in use.
LEMMA ServerRefs ==
    ASSUME RefsInv, UNCHANGED threadVars,
           \A b \in DOMAIN m_sectors' : IsMapBlock(m_sectors'[b]),
           \A b \in Loaded \cap DOMAIN m_sectors' :
               m_sectors'[b].m_refcount = m_sectors[b].m_refcount,
           \A b \in DOMAIN m_sectors' \ Loaded : b \in Blocks /\ m_sectors'[b].m_refcount = 0,
           \A b \in Loaded \ DOMAIN m_sectors' : Generating(b) = {}
    PROVE  RefsInv'
  <1>1. \A b : Generating(b)' = Generating(b)
    BY DEF Generating, threadVars
  <1>2. Cardinality({}) = 0
    BY FS_EmptySet
  <1>3. \A b \in DOMAIN m_sectors' : m_sectors'[b].m_refcount = Cardinality(Generating(b))
    BY <1>2 DEF RefsInv, RefsIn, Loaded
  <1>4. \A b \in Blocks \ DOMAIN m_sectors' : Generating(b) = {}
    BY DEF RefsInv, RefsIn, Loaded
  <1>5. RefsIn(m_sectors)'
    BY <1>1, <1>3, <1>4 DEF RefsIn
  <1> QED BY <1>5 DEF RefsInv, AreasHeld, threadVars

\* A block without references is in nobody's area.
LEMMA Unreferenced ==
    ASSUME ServerMapAssumption, RefsInv, NEW b \in Loaded, m_sectors[b].m_refcount = 0
    PROVE  Generating(b) = {}
  BY GeneratingFinite, FS_EmptySet DEF RefsInv, RefsIn, Loaded

LEMMA RefsInvStep ==
    ASSUME ServerMapAssumption, "delete while generated" \notin Races, RefsInv, [Next]_vars
    PROVE  RefsInv'
  <1>0. \A b \in Loaded : IsMapBlock(m_sectors[b])
    BY DEF RefsInv, RefsIn, Loaded
  <1>1. CASE UNCHANGED vars
    <2>1. \A b : Generating(b)' = Generating(b)
      BY <1>1 DEF vars, threadVars, Generating
    <2>2. RefsIn(m_sectors)'
      BY <1>1, <2>1, SameRefs DEF vars, RefsInv
    <2> QED BY <1>1, <2>2 DEF vars, threadVars, RefsInv, AreasHeld
  <1>2. CASE \E t \in EmergeThreads : EmergeThread(t)
    BY <1>2, ThreadRefs
  <1>3. ASSUME NEW b \in Blocks, NEW blank, emergeBlock(b, blank)
        PROVE  RefsInv'
    <2>1. /\ DOMAIN m_sectors' = Loaded \cup {b} /\ UNCHANGED threadVars
          /\ \A x \in Loaded : m_sectors'[x] = m_sectors[x]
          /\ m_sectors'[b] \in {FromBlob(dbase[b]), MapBlock(0, FALSE, FALSE, 0)}
      BY <1>3 DEF emergeBlock
    <2>2. IsMapBlock(m_sectors'[b]) /\ m_sectors'[b].m_refcount = 0
      <3>1. PICK x \in {FromBlob(dbase[b]), MapBlock(0, FALSE, FALSE, 0)} : x = m_sectors'[b]
        BY <2>1
      <3>2. IsMapBlock(FromBlob(dbase[b])) /\ FromBlob(dbase[b]).m_refcount = 0
        BY NewBlocks
      <3>3. LET y == MapBlock(0, FALSE, FALSE, 0) IN IsMapBlock(y) /\ y.m_refcount = 0
        BY DEF MapBlock, IsMapBlock
      <3>4. IsMapBlock(x) /\ x.m_refcount = 0
        BY <3>2, <3>3
      <3> QED BY <3>1, <3>4
    <2> QED BY <1>0, <2>1, <2>2, ServerRefs
  <1>4. ASSUME NEW b \in Blocks, setNode(b)
        PROVE  RefsInv'
    <2>1. /\ m_sectors' = [m_sectors EXCEPT ![b].content = writes', ![b].modified = TRUE]
          /\ b \in Loaded /\ UNCHANGED threadVars
      BY <1>4 DEF setNode
    <2>2. DOMAIN m_sectors' = Loaded /\ \A x \in Loaded \ {b} : m_sectors'[x] = m_sectors[x]
      BY <2>1 DEF Loaded
    <2>3. IsMapBlock(m_sectors'[b]) /\ m_sectors'[b].m_refcount = m_sectors[b].m_refcount
      <3>1. m_sectors'[b] = [m_sectors[b] EXCEPT !.content = writes', !.modified = TRUE]
        BY <2>1 DEF Loaded
      <3>2. IsMapBlock(m_sectors[b])
        BY <1>0, <2>1
      <3> QED BY <3>1, <3>2 DEF IsMapBlock, MapBlock
    <2> QED BY <1>0, <2>1, <2>2, <2>3, ServerRefs
  <1>5. ASSUME NEW b \in Blocks, deleteBlock(b)
        PROVE  RefsInv'
    <2>1. /\ m_sectors' = [x \in Loaded \ {b} |-> m_sectors[x]]
          /\ UNCHANGED threadVars /\ Generating(b) = {}
      BY <1>5 DEF deleteBlock
    <2> QED BY <1>0, <2>1, ServerRefs
  <1>6. ASSUME NEW failing, save(failing)
        PROVE  RefsInv'
    <2>1. /\ m_sectors' = [b \in Loaded |-> IF b \in failing THEN m_sectors[b]
                                            ELSE [m_sectors[b] EXCEPT !.modified = FALSE]]
          /\ UNCHANGED threadVars
      BY <1>6 DEF save
    <2>2. ASSUME NEW b \in Loaded
          PROVE  IsMapBlock(m_sectors'[b]) /\ m_sectors'[b].m_refcount = m_sectors[b].m_refcount
      <3>1. m_sectors'[b] \in {m_sectors[b], [m_sectors[b] EXCEPT !.modified = FALSE]}
        BY <2>1
      <3> QED BY <1>0, <3>1 DEF IsMapBlock, MapBlock
    <2>3. DOMAIN m_sectors' = Loaded
      BY <2>1
    <2> QED BY <2>1, <2>2, <2>3, ServerRefs
  <1>7. ASSUME NEW expired \in SUBSET Loaded, NEW failing, timerUpdate(expired, failing)
        PROVE  RefsInv'
    <2>1. PICK gone \in SUBSET expired : m_sectors' = [b \in Loaded \ gone |-> m_sectors[b]]
      BY <1>7 DEF timerUpdate
    <2>2. UNCHANGED threadVars /\ \A b \in expired : m_sectors[b].m_refcount = 0
      BY <1>7 DEF timerUpdate, MayUnload
    <2>3. \A b \in gone : Generating(b) = {}
      BY <2>1, <2>2, Unreferenced
    <2> QED BY <1>0, <2>1, <2>2, <2>3, ServerRefs
  <1> QED BY <1>1, <1>2, <1>3, <1>4, <1>5, <1>6, <1>7 DEF Next, Server

LEMMA RefsInvInit ==
    ASSUME ServerMapAssumption, Init
    PROVE  RefsInv
  <1>1. AnyBlock \in Blocks
    BY DEF AnyBlock, ServerMapAssumption
  <1> QED BY <1>1 DEF Init, RefsInv, AreasHeld, RefsIn, Generating, Nothing

\* The reference count of mapblock.h is exact, for any layout of the chunks
\* and any number of threads: a block is counted once by each thread that
\* generates a chunk with it in its area, so that none is unloaded under a
\* mapgen and none is kept for ever.  Only core.delete_area, which does not
\* look at the count, is assumed to stay away from what is being generated.
THEOREM RefCountsAreExact ==
    ASSUME "delete while generated" \notin Races
    PROVE  Spec => []RefsMatch
  <1>1. Init => RefsInv
    BY RefsInvInit, ServerMapAssumption
  <1>2. RefsInv /\ [Next]_vars => RefsInv'
    BY RefsInvStep, ServerMapAssumption
  <1>3. RefsInv => RefsMatch
    BY DEF RefsInv, RefsIn, RefsMatch, Loaded
  <1> QED BY <1>1, <1>2, <1>3, PTL DEF Spec
-----------------------------------------------------------------------------
(* The map as a mod sees it                                                *)

\* The races of the environment that do break the map: the run of the map
\* excludes them too, and a mapgen script may fail.
Apart ==
    /\ "unload while read" \notin Races /\ "delete while read" \notin Races
    /\ "delete while generated" \notin Races /\ "edit while generated" \notin Races
    /\ "save fails" \notin Races

\* What a block would show if mem were the memory.
ContentIn(mem, b) ==
    IF b \in DOMAIN mem THEN mem[b].content ELSE IF b \in Saved THEN dbase[b].content ELSE 0

\* What thread t has in its vmanip, where there is something, is what the map
\* shows; the part of its own chunk that it has yet to fill is still empty.
VmanipRight(t) ==
    /\ bmdata[t] \in [Area(pos[t]) -> Nat]
    /\ \A b \in Area(pos[t]) :
          IF bmdata[t][b] # 0 THEN m_sectors[b].content = bmdata[t][b]
          ELSE b \in Interior[ChunkOf[pos[t]]] => m_sectors[b].content = 0

VmanipsRight == \A t \in EmergeThreads : pc[t] = "makeChunk" => VmanipRight(t)

WorldInv == CleanInv /\ ChunksInv /\ RefsInv /\ VmanipsRight

\* The abstract map, as ImplementsWorldMap defines it.
World == [b \in Blocks |-> Content(b)]

\* What is shown does not change.
WorldKept == (\A b \in Blocks : Content(b)' = Content(b)) /\ UNCHANGED writes

\* One step of the abstract map, or none.
WorldStep == Abstract!Next \/ UNCHANGED <<World, writes>>

LEMMA KeptIsStutter ==
    ASSUME WorldKept
    PROVE  WorldStep
  BY DEF WorldKept, WorldStep, World

LEMMA ContentDef ==
    ASSUME NEW b
    PROVE  Content(b) = ContentIn(m_sectors, b)
  BY DEF Content, ContentIn, Loaded

\* What is read in the database is what the block showed before.
LEMMA MemoryWithContent ==
    ASSUME NEW b, NEW data, b \notin Loaded => data = ReadOf(dbase, b), NEW x
    PROVE  ContentIn(MemoryWith(b, data), x) = Content(x)
  <1>1. CASE b \in Loaded \/ data = {}
    BY <1>1, ContentDef DEF MemoryWith
  <1>2. CASE ~(b \in Loaded \/ data = {})
    <2>1. b \in Saved /\ data = {dbase[b]}
      BY <1>2 DEF ReadOf, Saved
    <2>2. (CHOOSE d \in data : TRUE) = dbase[b]
      BY <2>1
    <2>3. MemoryWith(b, data) = [y \in Loaded \cup {b} |->
             IF y = b THEN FromBlob(dbase[b]) ELSE m_sectors[y]]
      BY <1>2, <2>2 DEF MemoryWith
    <2>4. FromBlob(dbase[b]).content = dbase[b].content
      BY DEF FromBlob, MapBlock
    <2> QED BY <1>2, <2>1, <2>3, <2>4 DEF Content, ContentIn
  <1> QED BY <1>1, <1>2

\* The blocks of the area show what they showed, the created ones nothing.
LEMMA AreaEmergedContent ==
    ASSUME NEW mem, NEW chunk, NEW x, \A b \in DOMAIN mem : IsMapBlock(mem[b])
    PROVE  ContentIn(AreaEmerged(mem, chunk), x) = ContentIn(mem, x)
  <1> DEFINE area == AreaEmerged(mem, chunk)
             old  == IF x \in DOMAIN mem \cup Saved THEN EmergedBlock(mem, x)
                     ELSE CreatedBlock
  <1>1. DOMAIN area = DOMAIN mem \cup FullArea[chunk]
    BY DEF AreaEmerged
  <1>2. CASE x \notin FullArea[chunk]
    <2>1. x \in DOMAIN mem => area[x] = mem[x]
      BY <1>2 DEF AreaEmerged
    <2> QED BY <1>1, <1>2, <2>1 DEF ContentIn
  <1>3. CASE x \in FullArea[chunk]
    <2>1. area[x] = Grabbed(old)
      BY <1>3 DEF AreaEmerged
    <2>2. IsMapBlock(old) /\ old.content = ContentIn(mem, x)
      <3>1. CASE x \in DOMAIN mem
        BY <3>1 DEF EmergedBlock, ContentIn
      <3>2. CASE x \notin DOMAIN mem /\ x \in Saved
        BY <3>2, NewBlocks DEF EmergedBlock, ContentIn, FromBlob, MapBlock
      <3>3. CASE x \notin DOMAIN mem /\ x \notin Saved
        BY <3>3, NewBlocks DEF CreatedBlock, ContentIn, MapBlock
      <3> QED BY <3>1, <3>2, <3>3
    <2> HIDE DEF old
    <2>3. Grabbed(old).content = old.content
      BY <2>2 DEF Grabbed, IsMapBlock, MapBlock
    <2> QED BY <1>1, <1>3, <2>1, <2>2, <2>3 DEF ContentIn
  <1> QED BY <1>2, <1>3

\* The vmanips stay right when the threads stay where they are and no block in
\* use changes what it shows.
LEMMA VmanipKept ==
    ASSUME ServerMapAssumption, RefsInv, RefsInv', NEW t \in EmergeThreads,
           pc[t] = "makeChunk", VmanipRight(t),
           pc'[t] = pc[t], pos'[t] = pos[t], bmdata'[t] = bmdata[t],
           \A b \in Loaded \cap Loaded' :
               t \in Generating(b) => m_sectors'[b].content = m_sectors[b].content
    PROVE  VmanipRight(t)'
  <1>1. Area(pos[t]) \subseteq Loaded
    BY AreaLoaded
  <1>2. \A b \in Area(pos[t]) : t \in Generating(b) /\ t \in Generating(b)'
    BY DEF Generating, Area
  <1>3. Area(pos[t]) \subseteq Loaded'
    <2>1. pos[t] \in Blocks /\ Area(pos[t]) \subseteq Blocks
      BY AreaInBlocks DEF RefsInv
    <2> QED BY <1>2, <2>1 DEF RefsInv, RefsIn, Loaded
  <1>4. \A b \in Area(pos[t]) : m_sectors'[b].content = m_sectors[b].content
    BY <1>1, <1>2, <1>3
  <1>5. Area(pos[t])' = Area(pos[t])
    BY DEF Area
  <1> QED BY <1>4, <1>5 DEF VmanipRight

\* The same for the threads that do not move in a step.
LEMMA OtherVmanips ==
    ASSUME ServerMapAssumption, RefsInv, RefsInv', VmanipsRight,
           \A u \in EmergeThreads :
               \/ pc'[u] = pc[u] /\ pos'[u] = pos[u] /\ bmdata'[u] = bmdata[u]
               \/ pc'[u] # "makeChunk"
               \/ VmanipRight(u)',
           \A b \in Loaded \cap Loaded' :
               Generating(b) # {} => m_sectors'[b].content = m_sectors[b].content
    PROVE  VmanipsRight'
  <1>1. ASSUME NEW u \in EmergeThreads, pc'[u] = "makeChunk"
        PROVE  VmanipRight(u)'
    <2>1. CASE pc'[u] = pc[u] /\ pos'[u] = pos[u] /\ bmdata'[u] = bmdata[u]
      <3>1. pc[u] = "makeChunk" /\ VmanipRight(u)
        BY <1>1, <2>1 DEF VmanipsRight
      <3>2. \A b \in Loaded \cap Loaded' :
                u \in Generating(b) => m_sectors'[b].content = m_sectors[b].content
        OBVIOUS
      <3> QED BY <2>1, <3>1, <3>2, VmanipKept
    <2> QED BY <1>1, <2>1
  <1> QED BY <1>1 DEF VmanipsRight

\* As long as the database stays, the memory shows what it showed.
LEMMA SameContents ==
    ASSUME UNCHANGED dbase, \A b : ContentIn(m_sectors', b) = Content(b)
    PROVE  /\ \A b \in Blocks : Content(b)' = Content(b)
           /\ \A b \in Loaded \cap Loaded' : m_sectors'[b].content = m_sectors[b].content
  <1>1. \A b : Content(b)' = ContentIn(m_sectors', b)
    BY DEF Content, ContentIn, Loaded, Saved
  <1>2. \A b \in Loaded \cap Loaded' : m_sectors'[b].content = m_sectors[b].content
    BY DEF Content, ContentIn, Loaded
  <1> QED BY <1>1, <1>2

-----------------------------------------------------------------------------
(* The steps of an emerge thread, as a mod sees them                       *)

LEMMA GetOrStartGenShows ==
    ASSUME ServerMapAssumption, WorldInv, RefsInv', CleanInv', NEW t \in EmergeThreads,
           pc[t] # "makeChunk", NEW b \in Blocks, NEW gen, NEW mem, RefsIn(mem),
           \A x : ContentIn(mem, x) = Content(x), GetOrStartGen(t, b, gen, mem),
           UNCHANGED <<dbase, writes>>
    PROVE  WorldKept /\ VmanipsRight'
  <1>1. CASE EndLoop(t) /\ m_sectors' = mem /\ UNCHANGED bmdata
    <2>1. /\ \A x \in Blocks : Content(x)' = Content(x)
          /\ \A x \in Loaded \cap Loaded' : m_sectors'[x].content = m_sectors[x].content
      BY <1>1, SameContents
    <2>2. /\ pc'[t] = "idle"
          /\ \A u \in EmergeThreads \ {t} :
                pc'[u] = pc[u] /\ pos'[u] = pos[u] /\ bmdata'[u] = bmdata[u]
      BY <1>1 DEF EndLoop, Go, WorldInv, RefsInv
    <2>3. VmanipsRight'
      BY <2>1, <2>2, OtherVmanips DEF WorldInv
    <2> QED BY <2>1, <2>3 DEF WorldKept
  <1>2. CASE /\ Go(t, "makeChunk", b, TRUE)
             /\ m_sectors' = AreaEmerged(mem, ChunkOf[b])
             /\ bmdata' = [bmdata EXCEPT ![t] =
                    [x \in FullArea[ChunkOf[b]] |-> m_sectors'[x].content]]
    <2>0. \A x : ContentIn(m_sectors', x) = Content(x)
      BY <1>2, AreaEmergedContent DEF RefsIn
    <2>1. /\ \A x \in Blocks : Content(x)' = Content(x)
          /\ \A x \in Loaded \cap Loaded' : m_sectors'[x].content = m_sectors[x].content
      BY <2>0, SameContents
    <2>2. /\ pc'[t] = "makeChunk" /\ pos'[t] = b
          /\ bmdata'[t] = [x \in Area(b) |-> m_sectors'[x].content]
          /\ \A u \in EmergeThreads \ {t} :
                pc'[u] = pc[u] /\ pos'[u] = pos[u] /\ bmdata'[u] = bmdata[u]
      BY <1>2 DEF Go, WorldInv, RefsInv, Area
    <2>3. VmanipRight(t)'
      <3>1. Area(b) \subseteq Loaded'
        BY <1>2 DEF AreaEmerged, Area, Loaded
      <3>2. \A x \in Loaded' : m_sectors'[x].content \in Nat
        BY DEF CleanInv, GoodMemory, Block, Loaded
      <3>3. Area(pos[t])' = Area(b)
        BY <2>2 DEF Area
      <3>4. bmdata'[t] \in [Area(b) -> Nat]
        BY <2>2, <3>1, <3>2
      <3> QED BY <2>2, <3>3, <3>4 DEF VmanipRight
    <2>4. VmanipsRight'
      BY <2>1, <2>2, <2>3, OtherVmanips DEF WorldInv
    <2> QED BY <2>1, <2>4 DEF WorldKept
  <1> QED BY <1>1, <1>2 DEF GetOrStartGen, initBlockMake

\* A thread that takes a block out of the queue or reads it shows nothing.
LEMMA ReadingShows ==
    ASSUME ServerMapAssumption, WorldInv, RefsInv', NEW t \in EmergeThreads,
           NEW where \in {"read", "load"}, NEW b, NEW gen, Go(t, where, b, gen),
           UNCHANGED <<m_sectors, dbase, bmdata, writes>>
    PROVE  WorldKept /\ VmanipsRight'
  <1>1. \A x : ContentIn(m_sectors', x) = Content(x)
    BY ContentDef
  <1>2. /\ \A x \in Blocks : Content(x)' = Content(x)
        /\ \A x \in Loaded \cap Loaded' : m_sectors'[x].content = m_sectors[x].content
    BY <1>1, SameContents
  <1>3. /\ pc'[t] # "makeChunk"
        /\ \A u \in EmergeThreads \ {t} :
              pc'[u] = pc[u] /\ pos'[u] = pos[u] /\ bmdata'[u] = bmdata[u]
    BY DEF Go, WorldInv, RefsInv
  <1>4. VmanipsRight'
    BY <1>2, <1>3, OtherVmanips DEF WorldInv
  <1> QED BY <1>2, <1>4 DEF WorldKept

\* A mapgen that fails leaves everything as it was.
LEMMA cancelBlockMakeShows ==
    ASSUME ServerMapAssumption, WorldInv, RefsInv', NEW t \in EmergeThreads,
           cancelBlockMake(t)
    PROVE  WorldKept /\ VmanipsRight'
  <1>1. /\ UNCHANGED <<dbase, writes>> /\ EndLoop(t) /\ pc[t] = "makeChunk"
        /\ bmdata' = [bmdata EXCEPT ![t] = Nothing]
        /\ m_sectors' = [b \in Loaded |->
              IF b \in DOMAIN bmdata[t]
              THEN [m_sectors[b] EXCEPT !.m_refcount = @ - 1] ELSE m_sectors[b]]
    BY DEF cancelBlockMake
  <1>2. ASSUME NEW b \in Loaded
        PROVE  m_sectors'[b].content = m_sectors[b].content
    <2>1. IsMapBlock(m_sectors[b])
      BY DEF WorldInv, RefsInv, RefsIn, Loaded
    <2>2. m_sectors'[b] \in {m_sectors[b], [m_sectors[b] EXCEPT !.m_refcount = @ - 1]}
      BY <1>1
    <2> QED BY <2>1, <2>2 DEF IsMapBlock, MapBlock
  <1>3. \A x : ContentIn(m_sectors', x) = Content(x)
    BY <1>1, <1>2, ContentDef DEF ContentIn, Loaded
  <1>4. /\ \A x \in Blocks : Content(x)' = Content(x)
        /\ \A x \in Loaded \cap Loaded' : m_sectors'[x].content = m_sectors[x].content
    BY <1>1, <1>3, SameContents
  <1>5. /\ pc'[t] # "makeChunk"
        /\ \A u \in EmergeThreads \ {t} :
              pc'[u] = pc[u] /\ pos'[u] = pos[u] /\ bmdata'[u] = bmdata[u]
    BY <1>1 DEF EndLoop, Go, WorldInv, RefsInv
  <1>6. VmanipsRight'
    BY <1>4, <1>5, OtherVmanips DEF WorldInv
  <1> QED BY <1>1, <1>4, <1>6 DEF WorldKept

\* The blocks that thread t fills when it is done.
Filled(t) == {b \in Interior[ChunkOf[pos[t]]] : bmdata[t][b] = 0}

\* What a finished chunk writes: the blocks it has filled, and nothing else.
LEMMA finishBlockMakeWrites ==
    ASSUME ServerMapAssumption, WorldInv, NEW t \in EmergeThreads, finishBlockMake(t)
    PROVE  /\ Filled(t) \subseteq Area(pos[t]) /\ Area(pos[t]) \subseteq Loaded
           /\ Loaded' = Loaded /\ writes \in Nat
           /\ writes' = IF Filled(t) = {} THEN writes ELSE writes + 1
           /\ \A b \in Loaded : m_sectors'[b].content =
                 IF b \in Filled(t) THEN writes + 1 ELSE m_sectors[b].content
  <1> DEFINE chunk == ChunkOf[pos[t]]
             made  == MadeChunk(bmdata[t], chunk)
  <1>0. pos[t] \in Blocks /\ writes \in Nat /\ pc[t] = "makeChunk" /\ VmanipRight(t)
    BY DEF finishBlockMake, WorldInv, RefsInv, CleanInv, ThreadsTyped, VmanipsRight
  <1>1. /\ m_sectors' = [b \in Loaded \cup DOMAIN made |->
              IF b \in DOMAIN made THEN Finished(b, chunk, made[b]) ELSE m_sectors[b]]
        /\ writes' = IF made = bmdata[t] THEN writes ELSE writes + 1
    BY DEF finishBlockMake
  <1>2. Filled(t) \subseteq Area(pos[t]) /\ Area(pos[t]) \subseteq Loaded
    BY <1>0, AreaInBlocks, AreaLoaded DEF Filled, WorldInv
  <1>3. bmdata[t] \in [Area(pos[t]) -> Nat]
    BY <1>0 DEF VmanipRight
  <1>4. made = [b \in Area(pos[t]) |-> IF b \in Filled(t) THEN writes + 1 ELSE bmdata[t][b]]
    BY <1>2, <1>3 DEF MadeChunk, Filled
  <1> HIDE DEF made
  <1>5. Loaded' = Loaded
    BY <1>1, <1>2, <1>4 DEF Loaded
  <1>6. made = bmdata[t] <=> Filled(t) = {}
    <2>1. CASE Filled(t) = {}
      BY <1>3, <1>4, <2>1
    <2>2. ASSUME NEW b \in Filled(t)
          PROVE  made # bmdata[t]
      <3>1. made[b] = writes + 1 /\ bmdata[t][b] = 0
        BY <1>2, <1>4 DEF Filled
      <3> QED BY <1>0, <3>1
    <2> QED BY <2>1, <2>2
  <1>7. ASSUME NEW b \in Loaded
        PROVE  m_sectors'[b].content =
                  IF b \in Filled(t) THEN writes + 1 ELSE m_sectors[b].content
    <2>1. CASE b \notin Area(pos[t])
      BY <1>1, <1>2, <1>4, <2>1
    <2>2. CASE b \in Area(pos[t])
      <3>1. m_sectors'[b] = Finished(b, chunk, made[b])
        BY <1>1, <1>4, <2>2
      <3>2. m_sectors'[b].content = BlittedContent(m_sectors[b].content, made[b])
        BY <3>1 DEF Finished, EmergedBlock, MapBlock, Loaded
      <3>3. CASE b \in Filled(t)
        <4>1. made[b] = writes + 1
          BY <1>4, <2>2, <3>3
        <4> QED BY <1>0, <3>2, <3>3, <4>1 DEF BlittedContent
      <3>4. CASE b \notin Filled(t)
        <4>1. made[b] = bmdata[t][b]
          BY <1>4, <2>2, <3>4
        <4>2. bmdata[t][b] # 0 => m_sectors[b].content = bmdata[t][b]
          BY <1>0, <2>2 DEF VmanipRight
        <4> QED BY <3>2, <3>4, <4>1, <4>2 DEF BlittedContent
      <3> QED BY <3>3, <3>4
    <2> QED BY <2>1, <2>2
  <1> QED BY <1>0, <1>1, <1>2, <1>5, <1>6, <1>7

\* A chunk that is finished is one write of the abstract map, or none if the
\* chunk was full.  It fills nothing that another thread counts on.
LEMMA finishBlockMakeShows ==
    ASSUME ServerMapAssumption, WorldInv, RefsInv', NEW t \in EmergeThreads,
           finishBlockMake(t)
    PROVE  WorldStep /\ VmanipsRight'
  <1>1. /\ Filled(t) \subseteq Area(pos[t]) /\ Area(pos[t]) \subseteq Loaded
        /\ Loaded' = Loaded /\ writes \in Nat
        /\ writes' = IF Filled(t) = {} THEN writes ELSE writes + 1
        /\ \A b \in Loaded : m_sectors'[b].content =
              IF b \in Filled(t) THEN writes + 1 ELSE m_sectors[b].content
    BY finishBlockMakeWrites
  <1>2. /\ UNCHANGED dbase /\ pc[t] = "makeChunk" /\ EndLoop(t)
        /\ bmdata' = [bmdata EXCEPT ![t] = Nothing]
    BY DEF finishBlockMake
  <1>3. \A b \in Blocks : Content(b)' = IF b \in Filled(t) THEN writes + 1 ELSE Content(b)
    BY <1>1, <1>2 DEF Content, Saved
  <1>4. WorldStep
    <2>1. CASE Filled(t) = {}
      BY <1>1, <1>3, <2>1, KeptIsStutter DEF WorldKept
    <2>2. CASE Filled(t) # {}
      <3>1. pos[t] \in Blocks
        BY DEF WorldInv, RefsInv
      <3>2. Filled(t) \in SUBSET Blocks
        BY <1>1, <3>1, AreaInBlocks
      <3>3. Abstract!Write(Filled(t))
        BY <1>1, <1>3, <2>2 DEF Abstract!Write
      <3> QED BY <3>2, <3>3 DEF WorldStep, Abstract!Next
    <2> QED BY <2>1, <2>2
  <1>5. /\ pc'[t] # "makeChunk"
        /\ \A u \in EmergeThreads \ {t} :
              pc'[u] = pc[u] /\ pos'[u] = pos[u] /\ bmdata'[u] = bmdata[u]
    BY <1>2 DEF EndLoop, Go, WorldInv, RefsInv
  <1>6. ASSUME NEW u \in EmergeThreads, pc'[u] = "makeChunk"
        PROVE  VmanipRight(u)'
    <2>1. u # t /\ pc[u] = "makeChunk" /\ pos'[u] = pos[u] /\ bmdata'[u] = bmdata[u]
      BY <1>5, <1>6
    <2>2. VmanipRight(u) /\ VmanipRight(t)
      BY <1>2, <2>1 DEF WorldInv, VmanipsRight
    <2>3. Area(pos[u]) \subseteq Loaded
      BY <2>1, AreaLoaded DEF WorldInv
    <2>4. Area(pos[u])' = Area(pos[u])
      BY <2>1 DEF Area
    <2>5. ASSUME NEW b \in Area(pos[u])
          PROVE  IF bmdata[u][b] # 0 THEN m_sectors'[b].content = bmdata[u][b]
                 ELSE b \in Interior[ChunkOf[pos[u]]] => m_sectors'[b].content = 0
      <3>1. CASE b \notin Filled(t)
        <4>1. m_sectors'[b].content = m_sectors[b].content
          BY <1>1, <2>3, <3>1
        <4> QED BY <2>2, <4>1 DEF VmanipRight
      <3>2. CASE b \in Filled(t)
        <4>1. b \in Interior[ChunkOf[pos[t]]] /\ bmdata[t][b] = 0 /\ b \in Area(pos[t])
          BY <1>1, <3>2 DEF Filled
        <4>2. m_sectors[b].content = 0
          BY <2>2, <4>1 DEF VmanipRight
        <4>3. bmdata[u][b] = 0
          BY <2>2, <4>2 DEF VmanipRight
        <4>4. b \notin Interior[ChunkOf[pos[u]]]
          <5>1. ChunkOf[pos[u]] # ChunkOf[pos[t]]
            BY <1>2, <2>1 DEF WorldInv, ChunksInv, ChunksTracked
          <5>2. ChunkOf[pos[u]] \in Chunks /\ ChunkOf[pos[t]] \in Chunks
            BY AreaInBlocks DEF WorldInv, RefsInv
          <5> QED BY <4>1, <5>1, <5>2 DEF ServerMapAssumption
        <4> QED BY <4>3, <4>4
      <3> QED BY <3>1, <3>2
    <2>6. bmdata[u] \in [Area(pos[u]) -> Nat]
      BY <2>2 DEF VmanipRight
    <2> QED BY <2>1, <2>4, <2>5, <2>6 DEF VmanipRight
  <1> QED BY <1>4, <1>6 DEF VmanipsRight

LEMMA ThreadShows ==
    ASSUME ServerMapAssumption, WorldInv, RefsInv', CleanInv', NEW t \in EmergeThreads,
           EmergeThread(t)
    PROVE  WorldStep /\ VmanipsRight'
  <1>1. ASSUME NEW b \in Blocks, NEW gen, BeginEmerge(t, b, gen)
        PROVE  WorldKept /\ VmanipsRight'
    <2>1. pc[t] = "idle" /\ UNCHANGED <<dbase, writes>>
      BY <1>1 DEF BeginEmerge
    <2>2. CASE GetOrStartGen(t, b, gen, m_sectors)
      BY <2>1, <2>2, ContentDef, GetOrStartGenShows DEF WorldInv, RefsInv
    <2>3. CASE Go(t, "read", b, gen) /\ UNCHANGED <<m_chunks_in_progress, m_sectors, bmdata>>
      BY <2>1, <2>3, ReadingShows
    <2> QED BY <1>1, <2>2, <2>3 DEF BeginEmerge
  <1>2. CASE ReadBlock(t)
    <2>1. /\ Go(t, "load", pos[t], allow_gen[t])
          /\ UNCHANGED <<m_sectors, dbase, bmdata, writes>>
      BY <1>2 DEF ReadBlock
    <2> QED BY <2>1, ReadingShows, KeptIsStutter
  <1>3. CASE LoadBlock(t)
    <2> DEFINE mem == MemoryWith(pos[t], from_db[t])
    <2>1. /\ pos[t] \in Blocks /\ pc[t] = "load" /\ UNCHANGED <<dbase, writes>>
          /\ GetOrStartGen(t, pos[t], allow_gen[t], mem)
      BY <1>3 DEF LoadBlock, WorldInv, RefsInv
    <2>2. pos[t] \notin Loaded => from_db[t] = ReadOf(dbase, pos[t])
      BY <2>1 DEF WorldInv, CleanInv, ReadsAreFresh
    <2>3. \A x : ContentIn(mem, x) = Content(x)
      BY <2>2, MemoryWithContent
    <2>4. RefsIn(mem)
      BY <2>1, MemoryWithRefs DEF WorldInv
    <2> HIDE DEF mem
    <2>5. WorldKept /\ VmanipsRight'
      BY <2>1, <2>3, <2>4, GetOrStartGenShows
    <2> QED BY <2>5, KeptIsStutter
  <1>4. CASE finishBlockMake(t)
    BY <1>4, finishBlockMakeShows
  <1>5. CASE cancelBlockMake(t)
    BY <1>5, cancelBlockMakeShows, KeptIsStutter
  <1> QED BY <1>1, <1>2, <1>3, <1>4, <1>5, KeptIsStutter DEF EmergeThread

-----------------------------------------------------------------------------
(* The steps of the server, as a mod sees them                             *)

\* A step of the server keeps the vmanips right as long as what it changes is
\* not being generated.
LEMMA ServerVmanips ==
    ASSUME ServerMapAssumption, WorldInv, RefsInv', UNCHANGED threadVars,
           \A b \in Loaded \cap Loaded' :
               Generating(b) # {} => m_sectors'[b].content = m_sectors[b].content
    PROVE  VmanipsRight'
  <1>1. \A u \in EmergeThreads :
            pc'[u] = pc[u] /\ pos'[u] = pos[u] /\ bmdata'[u] = bmdata[u]
    BY DEF threadVars
  <1> QED BY <1>1, OtherVmanips DEF WorldInv

LEMMA emergeBlockShows ==
    ASSUME ServerMapAssumption, WorldInv, RefsInv', NEW b \in Blocks, NEW blank,
           emergeBlock(b, blank)
    PROVE  WorldStep /\ VmanipsRight'
  <1>1. /\ UNCHANGED <<dbase, writes>> /\ UNCHANGED threadVars /\ b \notin Loaded
        /\ m_sectors' = [x \in Loaded \cup {b} |->
              IF x # b THEN m_sectors[x]
              ELSE IF b \in Saved THEN FromBlob(dbase[b]) ELSE MapBlock(0, FALSE, FALSE, 0)]
    BY DEF emergeBlock
  <1>2. m_sectors'[b].content = IF b \in Saved THEN dbase[b].content ELSE 0
    BY <1>1 DEF FromBlob, MapBlock
  <1>3. \A x : ContentIn(m_sectors', x) = Content(x)
    <2>1. ASSUME NEW x, x # b
          PROVE  /\ x \in DOMAIN m_sectors' <=> x \in Loaded
                 /\ x \in Loaded => m_sectors'[x] = m_sectors[x]
      BY <1>1, <2>1
    <2>2. ASSUME NEW x, x # b
          PROVE  ContentIn(m_sectors', x) = Content(x)
      BY <2>1, <2>2 DEF ContentIn, Content
    <2>3. ContentIn(m_sectors', b) = Content(b)
      BY <1>1, <1>2 DEF ContentIn, Content
    <2> QED BY <2>2, <2>3
  <1>4. /\ \A x \in Blocks : Content(x)' = Content(x)
        /\ \A x \in Loaded \cap Loaded' : m_sectors'[x].content = m_sectors[x].content
    BY <1>1, <1>3, SameContents
  <1> QED BY <1>1, <1>4, ServerVmanips, KeptIsStutter DEF WorldKept

LEMMA setNodeShows ==
    ASSUME ServerMapAssumption, Apart, WorldInv, RefsInv', NEW b \in Blocks, setNode(b)
    PROVE  WorldStep /\ VmanipsRight'
  <1>1. /\ UNCHANGED <<dbase, threadVars>> /\ b \in Loaded /\ Generating(b) = {}
        /\ writes' = writes + 1
        /\ m_sectors' = [m_sectors EXCEPT ![b].content = writes', ![b].modified = TRUE]
    BY DEF setNode, Apart
  <1>2. Loaded' = Loaded /\ \A x \in Loaded \ {b} : m_sectors'[x] = m_sectors[x]
    BY <1>1 DEF Loaded
  <1>3. m_sectors'[b].content = writes'
    <2>1. m_sectors'[b] = [m_sectors[b] EXCEPT !.content = writes', !.modified = TRUE]
      BY <1>1 DEF Loaded
    <2>2. IsMapBlock(m_sectors[b])
      BY <1>1 DEF WorldInv, RefsInv, RefsIn, Loaded
    <2> QED BY <2>1, <2>2 DEF IsMapBlock, MapBlock
  <1>4. \A x \in Blocks : Content(x)' = IF x \in {b} THEN writes' ELSE Content(x)
    <2>1. Saved' = Saved /\ dbase' = dbase
      BY <1>1 DEF Saved
    <2>2. ASSUME NEW x \in Blocks \ {b}
          PROVE  Content(x)' = Content(x)
      BY <1>2, <2>1 DEF Content
    <2>3. Content(b)' = writes'
      BY <1>1, <1>2, <1>3 DEF Content
    <2> QED BY <2>2, <2>3
  <1>5. Abstract!Write({b})
    BY <1>1, <1>4 DEF Abstract!Write
  <1>6. VmanipsRight'
    BY <1>1, <1>2, ServerVmanips
  <1> QED BY <1>5, <1>6 DEF WorldStep, Abstract!Next

LEMMA deleteBlockShows ==
    ASSUME ServerMapAssumption, WorldInv, RefsInv', NEW b \in Blocks, deleteBlock(b)
    PROVE  WorldStep /\ VmanipsRight'
  <1>1. /\ dbase' = [x \in Saved \ {b} |-> dbase[x]]
        /\ m_sectors' = [x \in Loaded \ {b} |-> m_sectors[x]]
        /\ UNCHANGED <<threadVars, writes>>
    BY DEF deleteBlock
  <1>2. /\ Loaded' = Loaded \ {b} /\ \A x \in Loaded' : m_sectors'[x] = m_sectors[x]
        /\ Saved' = Saved \ {b} /\ \A x \in Saved' : dbase'[x] = dbase[x]
    BY <1>1 DEF Loaded, Saved
  <1>3. \A x \in Blocks : Content(x)' = IF x = b THEN 0 ELSE Content(x)
    BY <1>2 DEF Content
  <1>4. Abstract!Delete(b)
    <2>1. World' = [World EXCEPT ![b] = 0]
      BY <1>3 DEF World
    <2> QED BY <1>1, <2>1 DEF Abstract!Delete, World
  <1>5. VmanipsRight'
    BY <1>1, <1>2, ServerVmanips
  <1> QED BY <1>4, <1>5 DEF WorldStep, Abstract!Next

LEMMA saveShows ==
    ASSUME ServerMapAssumption, WorldInv, RefsInv', save({})
    PROVE  WorldStep /\ VmanipsRight'
  <1>1. /\ dbase' = DbaseWith(Modified) /\ UNCHANGED <<threadVars, writes>>
        /\ m_sectors' = [b \in Loaded |-> [m_sectors[b] EXCEPT !.modified = FALSE]]
    BY DEF save
  <1>2. ASSUME NEW b \in Loaded
        PROVE  m_sectors'[b].content = m_sectors[b].content
    <2>1. IsMapBlock(m_sectors[b])
      BY DEF WorldInv, RefsInv, RefsIn, Loaded
    <2> QED BY <1>1, <2>1 DEF IsMapBlock, MapBlock
  <1>3. Loaded' = Loaded
    BY <1>1 DEF Loaded
  <1>4. ASSUME NEW b, b \notin Loaded
        PROVE  /\ b \in Saved' <=> b \in Saved
               /\ b \in Saved => dbase'[b] = dbase[b]
    <2>1. b \notin Modified
      BY <1>4 DEF Modified
    <2>2. Saved' = Saved \cup Modified
      BY <1>1 DEF DbaseWith, Saved
    <2> QED BY <1>1, <2>1, <2>2 DEF DbaseWith
  <1>5. \A b \in Blocks : Content(b)' = Content(b)
    BY <1>2, <1>3, <1>4 DEF Content
  <1>6. VmanipsRight'
    BY <1>1, <1>2, ServerVmanips
  <1> QED BY <1>1, <1>5, <1>6, KeptIsStutter DEF WorldKept

LEMMA timerUpdateShows ==
    ASSUME ServerMapAssumption, WorldInv, RefsInv', NEW expired \in SUBSET Loaded,
           timerUpdate(expired, {})
    PROVE  WorldStep /\ VmanipsRight'
  <1> DEFINE S == expired \cap Modified
  <1>1. /\ dbase' = DbaseWith(S) /\ UNCHANGED <<threadVars, writes>>
        /\ m_sectors' = [b \in Loaded \ expired |-> m_sectors[b]]
    BY DEF timerUpdate, SavedBeforeUnload
  <1>2. Loaded' = Loaded \ expired /\ \A b \in Loaded' : m_sectors'[b] = m_sectors[b]
    BY <1>1 DEF Loaded
  <1>3. /\ Saved' = Saved \cup S
        /\ \A b \in S : dbase'[b].content = m_sectors[b].content
        /\ \A b \in Saved \ S : dbase'[b] = dbase[b]
    BY <1>1 DEF DbaseWith, Saved
  <1>4. ASSUME NEW b \in Blocks
        PROVE  Content(b)' = Content(b)
    <2>1. CASE b \in Loaded \ expired
      BY <1>2, <2>1 DEF Content
    <2>2. CASE b \in S
      <3>1. b \in Loaded /\ b \notin Loaded' /\ b \in Saved'
        BY <1>2, <1>3, <2>2
      <3> QED BY <1>3, <2>2, <3>1 DEF Content
    <2>3. CASE b \in expired /\ b \notin S
      <3>1. ~m_sectors[b].modified /\ b \in Loaded /\ b \notin Loaded'
        BY <1>2, <2>3 DEF Modified
      <3>2. UpToDate(m_sectors[b], dbase, b)
        BY <3>1 DEF WorldInv, CleanInv, GoodMemory, Loaded
      <3> QED BY <1>3, <2>3, <3>1, <3>2 DEF Content, UpToDate, Saved
    <2>4. CASE b \notin Loaded
      <3>1. b \notin Loaded' /\ b \notin S
        BY <1>2, <2>4
      <3> QED BY <1>3, <2>4, <3>1 DEF Content
    <2> QED BY <2>1, <2>2, <2>3, <2>4
  <1>5. VmanipsRight'
    BY <1>1, <1>2, ServerVmanips
  <1> QED BY <1>1, <1>4, <1>5, KeptIsStutter DEF WorldKept

LEMMA WorldInvStep ==
    ASSUME ServerMapAssumption, Apart, WorldInv, [Next]_vars
    PROVE  WorldInv' /\ WorldStep
  <1>1. CleanInv' /\ ChunksInv' /\ RefsInv'
    BY CleanInvStep, ChunksInvStep, RefsInvStep DEF WorldInv, Apart
  <1>2. Failing = {{}}
    BY DEF Failing, Apart
  <1>3. CASE UNCHANGED vars
    <2>1. WorldKept
      BY <1>3 DEF vars, WorldKept, Content, Loaded, Saved
    <2>2. VmanipsRight'
      BY <1>1, <1>3, ServerVmanips DEF vars
    <2> QED BY <1>1, <2>1, <2>2, KeptIsStutter DEF WorldInv
  <1>4. CASE \E t \in EmergeThreads : EmergeThread(t)
    BY <1>1, <1>4, ThreadShows DEF WorldInv
  <1>5. CASE Server
    <2>1. WorldStep /\ VmanipsRight'
      BY <1>1, <1>2, <1>5, emergeBlockShows, setNodeShows, deleteBlockShows, saveShows,
         timerUpdateShows DEF Server
    <2> QED BY <1>1, <2>1 DEF WorldInv
  <1> QED BY <1>3, <1>4, <1>5 DEF Next

\* The map with its memory, its database and any number of threads that read,
\* generate and blit chunks without the environment lock is, to a mod, one
\* array of contents: an edit is never lost or undone, nothing deleted comes
\* back, and generation only fills what was empty.
THEOREM MapIsOneWorld ==
    ASSUME Apart
    PROVE  Spec => ImplementsWorldMap
  <1>1. Init => WorldInv /\ Abstract!Init
    <2> SUFFICES ASSUME Init PROVE WorldInv /\ Abstract!Init
      OBVIOUS
    <2>1. CleanInv
      BY CleanInvInit, ServerMapAssumption
    <2>2. ChunksInv /\ VmanipsRight
      BY DEF Init, ChunksInv, PlacesTyped, ChunksTracked, VmanipsRight
    <2>3. RefsInv
      BY RefsInvInit, ServerMapAssumption
    <2>4. Abstract!Init
      BY DEF Init, Abstract!Init, Content, Loaded, Saved, Nothing
    <2> QED BY <2>1, <2>2, <2>3, <2>4 DEF WorldInv
  <1>2. WorldInv /\ [Next]_vars
            => WorldInv' /\ [Abstract!Next]_<<[b \in Blocks |-> Content(b)], writes>>
    BY WorldInvStep, ServerMapAssumption DEF WorldStep, World
  <1> QED BY <1>1, <1>2, PTL DEF Spec, ImplementsWorldMap, Abstract!Spec
=============================================================================
